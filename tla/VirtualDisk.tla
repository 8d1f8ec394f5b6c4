---------------------------- MODULE VirtualDisk ------------------------------
(***************************************************************************)
(* The virtual disk of the kernel (kernel/vdisk.cxx): the tree of nodes    *)
(* that boot builds, the drivers behind the nodes, open handles, and the   *)
(* list of handles a user reaches by SVC (kernel/service.cxx).             *)
(*                                                                         *)
(* Names and paths are sequences of tokens: a separator or a run of other  *)
(* characters.  Data are what a call writes, or garbage.                    *)
(* There is one user, SYSTEM01, who owns each job (kernel/timeshr.cxx:48), *)
(* and all permissions are given to the root and inherited, so the three   *)
(* sets of flags of a node are one here.                                   *)
(***************************************************************************)
EXTENDS Integers, Sequences, FiniteSets, SequencesExt

CONSTANTS
    Datasets,    \* names of the datasets on the disk, in the order of the VTOC
    Length(_),   \* how many characters a token has
    Weight(_),   \* the sum of their codes
    MaxHandles,  \* the handles that storage has room for
    MaxBuffer    \* bound on the writes one buffer holds

ASSUME VirtualDiskAssumption ==
    /\ Datasets \in Seq(Seq(STRING))
    /\ MaxHandles \in Nat \ {0} /\ MaxBuffer \in Nat

VARIABLES
    nodes,    \* the nodes, in the order they were created; the first is the root
    hdls,     \* the handles that are allocated
    slots,    \* user->handles
    mounted,  \* ds_data->dev: the handle ZDSFS reads its datasets through
    delivered, \* the node whose driver the last call gave data to, or Null
    stopped   \* a kpanic, or a null pointer was followed

diskVars == <<nodes, hdls, slots, mounted, delivered, stopped>>

Null == 0
Handle == 1 .. MaxHandles
OK == 0
UNPRIVILEGED == -1
ALLOCATION == -2
INVALID_SETUP == -3
RESOURCE_UNAVAILABLE == -4

Perm == {"READ", "WRITE", "ADD_CHILD"}
Separator == {"/", "\\", "."}

-----------------------------------------------------------------------------
(* Drivers: which of their functions are set.                              *)

Functions(driver) ==
    CASE driver = "cin"  -> {"read"}
      [] driver = "cout" -> {"write"}
      [] driver = "dasd" -> {"read_disk", "write_disk"}
      [] driver = "ds"   -> {"open", "close", "read", "ioctl"}
      [] driver = "gs"   -> {"read", "write"}
      [] OTHER           -> {}

Can(n, function) == function \in Functions(nodes[n].driver)
HasDriver(n) == nodes[n].driver # "none"

CheckPerms(tree, n, bits) == bits \subseteq tree[n].perms

-----------------------------------------------------------------------------
(* Paths.                                                                  *)

\* The names between the separators of a text; the first token is a separator.
Components(text) ==
    LET parts == FoldLeft(LAMBDA acc, token :
                             IF token \in Separator THEN Append(acc, <<>>)
                             ELSE [acc EXCEPT ![Len(acc)] = Append(@, token)], <<>>, text)
    IN  IF parts # <<>> /\ Last(parts) = <<>> THEN Front(parts) ELSE parts

\* storage::compare adds the differences up: names of one length are the same to it
\* when their characters have the same sum.
Sum(name) ==
    LET add(acc, token) == [length |-> acc.length + Length(token), weight |-> acc.weight + Weight(token)]
    IN  FoldLeft(add, [length |-> 0, weight |-> 0], name)
Same(name, other) == Sum(name) = Sum(other)

\* The first of a node's children with the same name; Null if there is none.
Child(tree, n, name) ==
    LET sum == Sum(name)
        k == SelectInSeq(tree[n].kids, LAMBDA kid : tree[kid].sum = sum)
    IN  IF k = 0 THEN Null ELSE tree[n].kids[k]

\* resolve_path_relative along a path of names.
ByName(tree, base, text) ==
    FoldLeft(LAMBDA n, name : IF n = Null THEN Null ELSE Child(tree, n, name),
             base, Components(text))

\* A path begins with the letters of the fast index, each the place of a child,
\* then a colon; one that begins with a separator has none.
Resolve(tree, path) ==
    LET down(n, letter) == IF n = Null \/ letter >= Len(tree[n].kids) THEN Null
                           ELSE tree[n].kids[letter + 1]
        start == FoldLeft(down, 1, path.letters)
    IN  IF start = Null THEN Null ELSE ByName(tree, start, path.text)

Absolute(text) == [letters |-> <<>>, text |-> text]

-----------------------------------------------------------------------------
(* Boot builds the tree.                                                   *)

Root == [name |-> <<>>, sum |-> Sum(<<>>), kids |-> <<>>, driver |-> "none", perms |-> Perm]

\* sizeof(node->name).  The terminator of a name this long is written behind the array, the
\* last member of a node: in its padding by default (-m64, 76 bytes of 80), past it by one
\* byte on a build with -m31.
NameSize == 24

\* The characters a node keeps of its name.
\* Mutant of Truncated: the terminator is thought to need a place among them.
TruncatedEarly(name) ==
    SubSeq(name, 1, Max({i \in 0 .. Len(name) : Sum(SubSeq(name, 1, i)).length < NameSize}))
Truncated(name) ==
    SubSeq(name, 1, Max({i \in 0 .. Len(name) : Sum(SubSeq(name, 1, i)).length <= NameSize}))

\* A name that is cut is cut between two of its tokens, which are chosen short enough.
CutBetween(name) ==
    Sum(name).length > NameSize =>
        \E i \in 0 .. Len(name) : Sum(SubSeq(name, 1, i)).length = NameSize

\* node::create under a node: add_child checks its permission, inherits its flags
\* and inserts; no driver's _add_node is set until the tree is complete.
CreateUnder(tree, parent, name, driver) ==
    IF ~CheckPerms(tree, parent, {"ADD_CHILD"}) THEN tree
    ELSE Append([tree EXCEPT ![parent].kids = Append(@, Len(tree) + 1)],
                [name |-> Truncated(name), sum |-> Sum(Truncated(name)), kids |-> <<>>,
                 driver |-> driver, perms |-> tree[parent].perms])

\* node::create by path: what does not resolve is taken for the root.
Create(tree, text, name, driver) ==
    LET parent == Resolve(tree, Absolute(text))
    IN  CreateUnder(tree, IF parent = Null THEN 1 ELSE parent, name, driver)

\* A sequence of creations, each <<path, name, driver>>.
CreateAll(tree, list) == FoldLeft(LAMBDA t, c : Create(t, c[1], c[2], c[3]), tree, list)

\* virtual_disk::init
Base == CreateAll(<<Root>>, << << <<"/">>, <<"SYSTEM">>, "none" >>,
                               << <<"/", "SYSTEM">>, <<"DEVICES">>, "none" >> >>)

\* csup_init: the console's streams.
Console == << << <<"/">>, <<"CSUP">>, "none" >>, << <<"/", "CSUP">>, <<"IN">>, "cin" >>,
              << <<"/", "CSUP">>, <<"OUT">>, "cout" >>, << <<"/", "CSUP">>, <<"ERR">>, "cout" >>,
              << <<"/", "CSUP">>, <<"PRN">>, "cout" >>, << <<"/", "CSUP">>, <<"DBG">>, "cout" >> >>

Devices == <<"/", "SYSTEM", "/", "DEVICES">>
DasdPath == Devices \o <<"/", "DASD001">>

\* A dataset's name as a node: cut at the first blank, reserved characters replaced.
\* Mutant of Sanitized: they are not replaced.
CutOnly(name) ==
    LET cut == SelectInSeq(name, LAMBDA token : token = " ")
    IN  IF cut = 0 THEN name ELSE SubSeq(name, 1, cut - 1)
Sanitized(name) ==
    LET cut == SelectInSeq(name, LAMBDA token : token = " ")
        kept == IF cut = 0 THEN name ELSE SubSeq(name, 1, cut - 1)
    IN  [k \in DOMAIN kept |-> IF kept[k] \in Separator THEN "$" ELSE kept[k]]

\* What the datasets are called, in up to 44 characters, and what their nodes keep of it.
Called == [k \in DOMAIN Datasets |-> Sanitized(Datasets[k])]
Kept == [k \in DOMAIN Datasets |-> Truncated(Called[k])]

\* zdsfs::init: the mount point, and a node for each dataset with a name.
Mount(tree) ==
    LET disk == Create(tree, <<"/">>, <<"RDISK">>, "pds")
        add(t, name) == IF Sanitized(name) = <<>> THEN t
                        ELSE CreateUnder(t, Len(disk), Sanitized(name), "ds")
    IN  FoldLeft(add, disk, Datasets)

\* No name that boot gives is the same as the mount point's, each having another length, and
\* none of them is cut; the names on the disk are cut between tokens.
ASSUME NamesAssumption ==
    /\ \A word \in {"SYSTEM", "DEVICES", "CSUP", "IN", "OUT", "ERR", "PRN", "DBG", "DASD001"} :
          ~Same(<<word>>, <<"RDISK">>) /\ Sum(<<word>>).length <= NameSize
    /\ \A word \in {"RDISK", "TERM000"} : Sum(<<word>>).length <= NameSize
    /\ \A k \in DOMAIN Datasets : CutBetween(Called[k])

DiskInit ==
    /\ nodes = CreateAll(Base, Console \o << <<Devices, <<"DASD001">>, "dasd">> >>)
    /\ hdls = << >> /\ slots = << >>
    /\ mounted = Null
    /\ delivered = Null /\ stopped = FALSE

-----------------------------------------------------------------------------
(* Handles.                                                                *)

Free == Handle \ DOMAIN hdls
NoBuffer == [null |-> TRUE, holds |-> <<>>]

\* handle::open_path gives h: a place storage has left, or Null when the path does not
\* resolve, the node has no driver or storage is exhausted.
Opens(path, h) ==
    LET n == Resolve(nodes, path)
    IN  IF n # Null /\ HasDriver(n) /\ Free # {} THEN h \in Free ELSE h = Null

Opened(path, flags, h) ==
    IF h = Null THEN hdls
    ELSE [i \in DOMAIN hdls \cup {h} |->
            IF i # h THEN hdls[i]
            ELSE [node |-> Resolve(nodes, path), buffered |-> "BUFFERED" \in flags,
                  write |-> NoBuffer]]

\* handle::close does not look at what is buffered.
Closed(h) == [i \in DOMAIN hdls \ {h} |-> hdls[i]]

\* handle::write to a buffer: realloc may fail, which loses the buffer and not its size.
Buffers(write, got) ==
    LET garbage == [k \in DOMAIN write.holds |-> "garbage"]
        kept == IF write.null THEN garbage ELSE write.holds
    IN  IF got THEN [null |-> FALSE, holds |-> Append(kept, "data")]
        ELSE [null |-> TRUE, holds |-> garbage]

\* handle::write
WriteTo(h) ==
    LET n == hdls[h].node
    IN  IF ~Can(n, "write") \/ ~CheckPerms(nodes, n, {"WRITE"})
        THEN delivered' = Null /\ UNCHANGED hdls
        ELSE IF hdls[h].buffered
        THEN /\ Len(hdls[h].write.holds) < MaxBuffer
             /\ \E got \in BOOLEAN : hdls' = [hdls EXCEPT ![h].write = Buffers(@, got)]
             /\ delivered' = Null
        ELSE delivered' = n /\ UNCHANGED hdls

\* handle::flush: the write it makes is buffered like any other, and the buffer freed.
FlushTo(h) ==
    /\ IF hdls[h].buffered /\ ~hdls[h].write.null /\ Can(hdls[h].node, "write")
       THEN hdls' = [hdls EXCEPT ![h].write = NoBuffer]
       ELSE UNCHANGED hdls
    /\ delivered' = Null

\* What a read through h may come to: a dataset is read by way of the handle ZDSFS keeps,
\* a freed one may still hold what it held, or anything.
ReadOutcomes(h) ==
    LET n == hdls[h].node
    IN  IF ~Can(n, "read") \/ ~CheckPerms(nodes, n, {"READ"}) \/ nodes[n].driver = "cin"
        THEN {"error"}
        ELSE IF nodes[n].driver # "ds" THEN {"data", "error"}
        ELSE IF mounted \notin DOMAIN hdls THEN {"data", "error", "stop"}
        ELSE IF Can(hdls[mounted].node, "read_disk") THEN {"data", "error"}
        ELSE {"error"}

-----------------------------------------------------------------------------
(* Boot, after the console: what main does with the disk.                  *)

\* The disk is opened, handed to zdsfs::init, and closed; its place is free again.
MountDisk ==
    /\ mounted = Null
    /\ mounted' \in Free
    /\ nodes' = Create(Mount(nodes), Devices, <<"TERM000">>, "gs")
    /\ UNCHANGED <<hdls, slots, stopped>> /\ delivered' = Null

Jda == Absolute(<<"/", "RDISK", "/", "DSA", "$", "EXE", "$", "JDA">>)

\* exec_user reads the command processor, or the system stops.
LoadJda ==
    /\ \E h \in Handle \cup {Null} :
         /\ Opens(Jda, h)
         /\ IF h = Null THEN stopped' = TRUE
            ELSE LET opened == Opened(Jda, {"READ"}, h)
                     reads == IF mounted = h THEN {"error"} ELSE {"data", "error"}
                 IN  \E r \in reads : stopped' = (r # "data")
    /\ UNCHANGED <<nodes, hdls, slots, mounted, delivered>>

-----------------------------------------------------------------------------
(* The supervisor calls (kernel/service.cxx); an index counts from 0.      *)

InUse == {i \in DOMAIN slots : slots[i] # Null}

\* SVC VFS OPEN "adds to the list" over the first handle in it that is not null.
\* Its insert succeeds here.
Placed(h) == IF InUse = {} THEN Append(slots, h) ELSE [slots EXCEPT ![Min(InUse)] = h]
PlacedAt == IF InUse = {} THEN Len(slots) ELSE Min(InUse) - 1

\* The handle at an index is looked up before anything is done; an index out of range is
\* refused, and a null handle is followed by all but CLOSE.
At(index) == slots[index + 1]

\* SVC VFS CLOSE
\* Mutant of SvcClose: the slot keeps the handle.
ClosesOnly(index) ==
    /\ hdls' = IF index < Len(slots) /\ At(index) # Null THEN Closed(At(index)) ELSE hdls
    /\ UNCHANGED <<nodes, slots, mounted, stopped>> /\ delivered' = Null
SvcClose(index) ==
    /\ IF index < Len(slots)
       THEN /\ slots' = [slots EXCEPT ![index + 1] = Null]
            /\ hdls' = Closed(At(index))
       ELSE UNCHANGED <<hdls, slots>>
    /\ UNCHANGED <<nodes, mounted, stopped>> /\ delivered' = Null

\* A call on a handle, none of which frees it: refused, followed through null, or done.
OnHandle(index, done) ==
    /\ UNCHANGED <<nodes, slots, mounted>>
    /\ IF index >= Len(slots) \/ At(index) = Null
       THEN /\ stopped' = (index < Len(slots))
            /\ delivered' = Null /\ UNCHANGED hdls
       ELSE done

SvcWrite(index) == OnHandle(index, WriteTo(At(index)) /\ UNCHANGED stopped)
SvcFlush(index) == OnHandle(index, FlushTo(At(index)) /\ UNCHANGED stopped)
SvcRead(index) ==
    OnHandle(index, /\ \E r \in ReadOutcomes(At(index)) : stopped' = (r = "stop")
                    /\ delivered' = Null /\ UNCHANGED hdls)

\* SVC VFS ADD NODE: the node is created, and its branch does not return but ends in kpanic.
Added(text, name) == Create(nodes, text, name, "none")

\* SVC VFS REMOVE NODE: when both resolve, the node is freed and stays among its parent's
\* children, and the call ends in kpanic as well.
SvcRemoveNode(text, child) ==
    LET parent == Resolve(nodes, Absolute(text))
    IN  /\ stopped' = (parent # Null /\ ByName(nodes, parent, child) # Null)
        /\ UNCHANGED <<nodes, hdls, slots, mounted, delivered>>

-----------------------------------------------------------------------------
(* Properties.                                                             *)

DiskTypeOK ==
    /\ \A i \in DOMAIN hdls : /\ hdls[i].node \in DOMAIN nodes
                              /\ Len(hdls[i].write.holds) <= MaxBuffer
    /\ slots \in Seq(Handle \cup {Null})
    /\ mounted \in Handle \cup {Null}
    /\ stopped \in BOOLEAN

\* A handle in the list is allocated, and is there once: an SVC never reaches a handle that
\* was freed, nor one that another index closes.  As open looks for a handle that is not
\* null (kernel/service.cxx:48) the list never holds a second one, whatever programs do:
\* each open loses the one before.
LiveSlots ==
    /\ \A i \in InUse : slots[i] \in DOMAIN hdls
    /\ \A i, j \in InUse : slots[i] = slots[j] => i = j
    /\ Cardinality(InUse) <= 1

\* A dataset whose name fits into a node is found under the mount point, as its own node or
\* that of a dataset before it: one that was cut to the same name, or that the comparison
\* takes for the same (kernel/vdisk.cxx:137).  One with a longer name never is, as the lookup
\* wants the whole of it (kernel/vdisk.cxx:134).
DatasetsFound ==
    mounted # Null =>
        \A k \in DOMAIN Datasets :
            LET name == Called[k]
                found == Resolve(nodes, Absolute(<<"/", "RDISK", "/">> \o name))
            IN  name # <<>> =>
                  IF Sum(name).length <= NameSize
                  THEN /\ found # Null /\ nodes[found].driver = "ds"
                       /\ nodes[found].sum = Sum(name)
                       /\ \E j \in 1 .. k : nodes[found].name = Kept[j]
                  ELSE found = Null

\* Of a disk's datasets, which another instance shows to fail: "Register all of the datasets
\* of the disk onto the VFS" (kernel/zdsfs.cxx:372); and what is found has the name it was
\* looked for by: "If none of the children matches then the file wasn't found"
\* (kernel/vdisk.cxx:148).
AllAreFound ==
    mounted # Null =>
        \A k \in DOMAIN Datasets :
            LET name == Called[k]
            IN  name # <<>> => Resolve(nodes, Absolute(<<"/", "RDISK", "/">> \o name)) # Null
FindsItsOwn ==
    mounted # Null =>
        \A k \in DOMAIN Datasets :
            LET name == Called[k]
                found == Resolve(nodes, Absolute(<<"/", "RDISK", "/">> \o name))
            IN  name # <<>> /\ found # Null => nodes[found].name = name
=============================================================================
