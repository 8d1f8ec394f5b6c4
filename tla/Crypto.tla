-------------------------------- MODULE Crypto --------------------------------
(***************************************************************************)
(* The ciphers of the kernel (kernel/crypto.cxx): ARC4, Blowfish, RSA and  *)
(* XTEA.  A user generates keys, encrypts a message and decrypts the       *)
(* result; each call is one step.  Words have Bits bits, in four bytes, as *)
(* the code's have 32, and shifts, rounds and tables are scaled with them. *)
(* A message of Blowfish or XTEA is a sequence of words, two to a chunk;   *)
(* one that does not fill its last chunk would be read and written past    *)
(* its end, and is left out.                                               *)
(***************************************************************************)
EXTENDS Integers, Sequences, SequencesExt, Bitwise

CONSTANTS
    ByteBits,      \* bits of a byte, 8
    Rounds,        \* rounds of Blowfish, 16
    PointerWords,  \* words of a pointer: sizeof(parray) and sizeof(sbox), 2
    Shifts,        \* XTEA's shifts: left, right, and the one to the key's index
    Delta,         \* XTEA_DELTA
    XteaRounds,    \* what n_rounds may be
    Keys,          \* keys of Blowfish and ARC4, sequences of bytes
    XteaKeys,      \* keys of XTEA, four words each
    Leftovers,     \* what storage nobody has initialised may hold, word by word alike
    OwnKeys        \* whether each side generates its keys itself

Bits == 4 * ByteBits
Words == 0 .. 2^Bits - 1

ASSUME CryptoAssumption ==
    /\ {ByteBits, Rounds, PointerWords} \subseteq Nat \ {0}
    /\ Leftovers \subseteq Words
    /\ \A key \in Keys : key # <<>> /\ ToSet(key) \subseteq 0 .. 2^ByteBits - 1
    /\ \A key \in XteaKeys : key \in [0 .. 3 -> Words]
    /\ OwnKeys \in BOOLEAN

VARIABLES
    cipher,  \* the algorithm
    key,     \* its key, and XTEA's rounds
    data,    \* the message
    tables,  \* the P-array and the S-boxes, or RSA's numbers
    out,     \* what encrypt has put out
    back,    \* what decrypt has put out
    stage    \* the calls made

cryptoVars == <<cipher, key, data, tables, out, back, stage>>

Plus(a, b) == (a + b) % 2^Bits
Minus(a, b) == (a - b) % 2^Bits
Left(a, k) == (a * 2^k) % 2^Bits
Right(a, k) == a \div 2^k

\* f applied n times over, to the numbers from 0 on.
Repeat(f(_, _), v, n) == FoldLeft(f, v, [i \in 1 .. n |-> i - 1])

\* A cipher over the chunks of a message.
Bulk(chunk(_), message) ==
    FlattenSeq([i \in 1 .. Len(message) \div 2 |-> chunk(<<message[2 * i - 1], message[2 * i]>>)])

-----------------------------------------------------------------------------
(* Blowfish.                                                               *)

Box(t, n, x) == t.sbox[n][Right(x, (3 - n) * ByteBits) % 2^ByteBits]

encrypt_f(t, x) == Plus(Plus(Box(t, 0, x), Box(t, 1, x)) ^^ Box(t, 2, x), Box(t, 3, x))

\* A round with the r-th number of the P-array, and the swap.
BlowfishRound(t, v, r) ==
    LET l == v[1] ^^ t.parray[r] IN <<encrypt_f(t, l) ^^ v[2], l>>

blowfish_encrypt_v(t, v) ==
    LET u == Repeat(LAMBDA w, r : BlowfishRound(t, w, r), v, Rounds)
    IN  <<u[2] ^^ t.parray[Rounds + 1], u[1] ^^ t.parray[Rounds]>>

\* Mutant of blowfish_decrypt_v: it begins where encryption has ended its rounds.
DecryptsOneTooLow(t, v) ==
    LET u == Repeat(LAMBDA w, r : BlowfishRound(t, w, Rounds - r), v, Rounds)
    IN  <<u[2] ^^ t.parray[0], u[1] ^^ t.parray[1]>>

blowfish_decrypt_v(t, v) ==
    LET u == Repeat(LAMBDA w, r : BlowfishRound(t, w, Rounds + 1 - r), v, Rounds)
    IN  <<u[2] ^^ t.parray[0], u[1] ^^ t.parray[1]>>

\* bf_parray and bf_sbox: any fixed numbers would do.
InitialPermutation(k) == (5 * k + 3) % 2^Bits

\* The tables before the key: as many bytes are copied as a pointer has.
Copied(leftover) ==
    LET word(k) == IF k < PointerWords THEN InitialPermutation(k) ELSE leftover
    IN  [parray |-> [r \in 0 .. Rounds + 1 |-> word(r)],
         sbox |-> [n \in 0 .. 3 |-> [x \in 0 .. 2^ByteBits - 1 |-> word(n * 2^ByteBits + x)]]]

\* The i-th word of the key, which is repeated.
KeyWord(k, i) ==
    LET byte(j) == k[((4 * i + j) % Len(k)) + 1]
    IN  Repeat(LAMBDA w, j : w * 2^ByteBits + byte(j), 0, 4)

\* Two numbers of the P-array are replaced by what the tables so far encrypt.
ExpandP(e, i) ==
    LET v == blowfish_encrypt_v(e.t, e.v)
    IN  [v |-> v, t |-> [e.t EXCEPT !.parray[2 * i] = v[1], !.parray[2 * i + 1] = v[2]]]

\* Two numbers of an S-box become the left half, both of them.
ExpandS(e, k) ==
    LET v == blowfish_encrypt_v(e.t, e.v)
        n == (2 * k) \div 2^ByteBits
        x == (2 * k) % 2^ByteBits
    IN  [v |-> v, t |-> [e.t EXCEPT !.sbox[n][x] = v[1], !.sbox[n][x + 1] = v[1]]]

blowfish_genkey(k, leftover) ==
    LET t0 == Copied(leftover)
        t1 == [t0 EXCEPT !.parray = [r \in DOMAIN @ |-> @[r] ^^ KeyWord(k, r)]]
        e1 == Repeat(ExpandP, [t |-> t1, v |-> <<0, 0>>], (Rounds + 2) \div 2)
    IN  Repeat(ExpandS, e1, 2 * 2^ByteBits).t

blowfish_encrypt(t, message) == Bulk(LAMBDA v : blowfish_encrypt_v(t, v), message)
blowfish_decrypt(t, message) == Bulk(LAMBDA v : blowfish_decrypt_v(t, v), message)

-----------------------------------------------------------------------------
(* XTEA.                                                                   *)

Mix(v) == Plus(Left(v, Shifts.left) ^^ Right(v, Shifts.right), v)

\* What the halves of a round add or subtract.
First(v, sum, k) == Mix(v) ^^ Plus(sum, k[sum % 4])
Second(v, sum, k) == Mix(v) ^^ Plus(sum, k[Right(sum, Shifts.index) % 4])

xtea_encrypt_v(v, n, k) ==
    LET round(w, i) ==
            LET sum == (Delta * i) % 2^Bits
                v0 == Plus(w[1], First(w[2], sum, k))
            IN  <<v0, Plus(w[2], Second(v0, Plus(sum, Delta), k))>>
    IN  Repeat(round, v, n)

xtea_decrypt_v(v, n, k) ==
    LET round(w, i) ==
            LET sum == (Delta * (n - i)) % 2^Bits
                v1 == Minus(w[2], Second(w[1], sum, k))
            IN  <<Minus(w[1], First(v1, Minus(sum, Delta), k)), v1>>
    IN  Repeat(round, v, n)

xtea_encrypt(k, message) == Bulk(LAMBDA v : xtea_encrypt_v(v, k.rounds, k.k), message)
xtea_decrypt(k, message) == Bulk(LAMBDA v : xtea_decrypt_v(v, k.rounds, k.k), message)

-----------------------------------------------------------------------------
(* RSA, by its bytes, and ARC4.                                            *)

\* gcd32 comes to 0 on its left side and gives the right one, whatever they are.
gcd32(a, b) == b

\* No e is found below phi.
rsa_genkey ==
    LET p == 3
        q == 7
        phi == (p - 1) * (q - 1)
        found == {e \in 2 .. phi - 1 : gcd32(e, phi) = 0}
        e == IF found = {} THEN phi ELSE CHOOSE x \in found : \A y \in found : x <= y
    IN  [e |-> e, d |-> (1 + 2 * phi) \div e, n |-> p * q]

\* pow32: the power modulo 2^32, in two halves of 16 bits.
pow32(m, e) ==
    LET times(w, i) ==
            LET low == w[2] * m IN <<(w[1] * m + low \div 2^16) % 2^16, low % 2^16>>
    IN  Repeat(times, <<0, 1>>, e)

\* A byte of a message to the power of e, modulo n.
rsa_power(m, e, n) ==
    LET w == pow32(m, e) IN (((w[1] % n) * (2^16 % n) + w[2]) % n) % 256

\* The loop that writes the output tests the i of the loop before it: with a
\* stream shorter than S nothing is written.
arc4_encrypt(message, before) == before

-----------------------------------------------------------------------------
(* Calls.                                                                  *)

None == <<>>

\* All messages of one chunk, and some of two.
Messages == [1 .. 2 -> Words] \cup [1 .. 4 -> Leftovers]

CryptoInit ==
    /\ \/ cipher = "blowfish" /\ key \in Keys /\ data \in Messages
       \/ cipher = "xtea" /\ key \in [k : XteaKeys, rounds : XteaRounds] /\ data \in Messages
       \/ cipher = "rsa" /\ key = None /\ data \in {<<m>> : m \in 0 .. 20}
       \/ cipher = "arc4" /\ key \in Keys /\ data \in [1 .. 2 -> 0 .. 1]
    /\ tables = None /\ out = None /\ back = None
    /\ stage = "genkey"

\* The tables that a key is made into.
Generated ==
    CASE cipher = "blowfish" -> {blowfish_genkey(key, leftover) : leftover \in Leftovers}
      [] cipher = "rsa" -> {rsa_genkey}
      [] OTHER -> {None}

GenKey ==
    /\ stage = "genkey"
    /\ tables' \in Generated
    /\ stage' = "encrypt"
    /\ UNCHANGED <<cipher, key, data, out, back>>

Encrypt ==
    /\ stage = "encrypt"
    /\ out' = CASE cipher = "blowfish" -> blowfish_encrypt(tables, data)
                [] cipher = "xtea" -> xtea_encrypt(key, data)
                [] cipher = "rsa" -> <<rsa_power(data[1], tables.e, tables.n)>>
                [] cipher = "arc4" -> arc4_encrypt(data, out)
    /\ IF OwnKeys THEN tables' \in Generated ELSE UNCHANGED tables
    /\ stage' = "decrypt"
    /\ UNCHANGED <<cipher, key, data, back>>

\* ARC4 decrypts by encrypting again.
Decrypt ==
    /\ stage = "decrypt"
    /\ back' = CASE cipher = "blowfish" -> blowfish_decrypt(tables, out)
                 [] cipher = "xtea" -> xtea_decrypt(key, out)
                 [] cipher = "rsa" -> <<rsa_power(out[1], tables.d, tables.n)>>
                 [] cipher = "arc4" -> arc4_encrypt(out, back)
    /\ stage' = "done"
    /\ UNCHANGED <<cipher, key, data, tables, out>>

CryptoNext == GenKey \/ Encrypt \/ Decrypt

CryptoSpec == CryptoInit /\ [][CryptoNext]_cryptoVars

-----------------------------------------------------------------------------
(* Properties.                                                             *)

\* The block ciphers give every message back, for every key, and whatever the
\* part of the tables holds that genkey does not initialise: rounds, swaps and
\* sums of decryption undo those of encryption in the opposite order.
DecryptsWhatItEncrypts ==
    stage = "done" /\ cipher \in {"blowfish", "xtea"} => back = data

\* "Decrypt an RSA-encoded message" (crypto.cxx:442): it should be the one that was encoded.
RsaDecrypts == stage = "done" /\ cipher = "rsa" => back = data
=============================================================================
