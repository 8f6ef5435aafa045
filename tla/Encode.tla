-------------------------------- MODULE Encode --------------------------------
(***************************************************************************)
(* t.Encode: the RC4 stream, the CRC sums with their running value, and    *)
(* Base64 (t_enc_rc4.c, t_enc_crc.c, t_enc_b64.c).  A byte has 4 * S bits  *)
(* and a digit of Base64 3 * S; the code has S = 2.                        *)
(***************************************************************************)
EXTENDS Integers, Sequences, SequencesExt, Bitwise

CONSTANTS
    S,
    Texts,      \* the pieces of text a program hands over
    Keys,       \* the RC4 keys, not empty
    MaxText,    \* bound: the length of the text since the last initialisation
    Poly,       \* the polynomial of each sum, POLY_8 to POLY_32
    NoEncoder

ASSUME EncodeAssumption == S \in Nat \ {0} /\ <<>> \notin Keys /\ DOMAIN Poly = {"8", "16", "ccitt", "32"}

VARIABLES
    encoder,    \* NoEncoder, the RC4 generator or the CRC with its running value
    fed,        \* history: the text since the encoder was initialised
    given       \* history: what the encoder made of it

encVars == <<encoder, fed, given>>

B == 4 * S
D == 3 * S
N == 2^B

(***************************************************************************)
(* RC4: prng is a permutation, its indices and sums are bytes.             *)
(***************************************************************************)

Swapped(f, i, j) == [f EXCEPT ![i] = f[j], ![j] = f[i]]

\* t_enc_rc4_init
Scheduled(key) ==
    LET end == FoldLeft(LAMBDA a, i :
                    LET j == (a.j + a.prng[i] + key[(i % Len(key)) + 1]) % N
                    IN  [j |-> j, prng |-> Swapped(a.prng, i, j)],
                [j |-> 0, prng |-> [i \in 0..(N - 1) |-> i]], [i \in 1..N |-> i - 1])
    IN  [alg |-> "rc4", key |-> key, prng |-> end.prng, i1 |-> 0, i2 |-> 0]

\* t_enc_rc4_crypt
Crypted(rc4, text) ==
    FoldLeft(LAMBDA a, byte :
        LET i1 == (a.rc4.i1 + 1) % N
            i2 == (a.rc4.i2 + a.rc4.prng[i1]) % N
            p  == Swapped(a.rc4.prng, i1, i2)
        IN  [rc4 |-> [a.rc4 EXCEPT !.i1 = i1, !.i2 = i2, !.prng = p],
             out |-> Append(a.out, byte ^^ p[(p[i1] + p[i2]) % N])],
        [rc4 |-> rc4, out |-> <<>>], text)

(***************************************************************************)
(* CRC: a sum of one, two or four bytes; 16 and 32 are reflected.          *)
(***************************************************************************)

Width(alg) == CASE alg = "8" -> B [] alg \in {"16", "ccitt"} -> 2 * B [] alg = "32" -> 4 * B
Ones(alg)  == 2^Width(alg) - 1
Reflected(alg) == alg \in {"16", "32"}
Steps(n) == [i \in 1..n |-> i]
XorOf(a, b) == a ^^ b

\* One bit of the division, low or high end first.
DivideLow(c, poly)    == IF c % 2 = 1 THEN XorOf(c \div 2, poly) ELSE c \div 2
DivideHigh(c, poly, w) == IF c \div 2^(w - 1) = 1 THEN XorOf((2 * c) % 2^w, poly) ELSE (2 * c) % 2^w

\* The entry of the tables init_8, init_16, init_ccitt and init_32 make: 16 and
\* ccitt shift the input beside the sum, 8 and 32 in it.
Beside(i, alg) ==
    FoldLeft(LAMBDA a, n :
        IF Reflected(alg)
        THEN [c |-> IF XorOf(a.c, a.run) % 2 = 1 THEN XorOf(a.c \div 2, Poly[alg]) ELSE a.c \div 2,
              run |-> a.run \div 2]
        ELSE [c |-> IF XorOf(a.c, a.run) \div 2^(2 * B - 1) = 1 THEN XorOf((2 * a.c) % 2^(2 * B), Poly[alg])
                    ELSE (2 * a.c) % 2^(2 * B),
              run |-> (2 * a.run) % 2^(2 * B)],
        [c |-> 0, run |-> IF Reflected(alg) THEN i ELSE i * 2^B], Steps(B)).c

TableEntry(i, alg) ==
    CASE alg = "8" -> FoldLeft(LAMBDA c, n : DivideHigh(c, Poly[alg], B), i, Steps(B))
      [] alg = "32" -> FoldLeft(LAMBDA c, n : DivideLow(c, Poly[alg]), i, Steps(B))
      [] OTHER -> Beside(i, alg)

\* calc_8, calc_16, calc_ccitt and calc_32 for a byte; calc_8 does not cut its index
\* to a byte, which with a byte of 2^(B - 1) or more is no index of the table.
NextSum(sum, byte, alg) ==
    CASE alg = "8" -> TableEntry(XorOf(sum, byte), alg)
      [] Reflected(alg) -> XorOf(sum \div N, TableEntry(XorOf(sum, byte) % N, alg))
      [] alg = "ccitt" -> XorOf((sum * N) % 2^(2 * B), TableEntry(XorOf(sum \div N, byte), alg))

InitialSum(alg) == IF alg = "32" THEN Ones(alg) ELSE 0
Summed(sum, text, alg) == FoldLeft(LAMBDA s, byte : NextSum(s, byte, alg), sum, text)
Result(sum, alg) == IF alg \in {"8", "32"} THEN Ones(alg) - sum ELSE sum

(***************************************************************************)
(* Base64: "=" stands for digits that the text has no bytes for; it is no  *)
(* digit of the decoder's table, which has 0 for it.                       *)
(***************************************************************************)

Groups(n) == [g \in 1..((n + 2) \div 3) |-> 3 * (g - 1)]

Encoded(text) ==
    LET at(i) == IF i <= Len(text) THEN text[i] ELSE 0
        digits == FoldLeft(LAMBDA a, g : a \o
            << at(g+1) \div 2^S,
               (at(g+1) % 2^S) * 2^(D - S) + at(g+2) \div 2^(2 * S),
               (at(g+2) % 2^(2 * S)) * 2^S + at(g+3) \div 2^D,
               at(g+3) % 2^D >>, <<>>, Groups(Len(text)))
        pad == <<0, 2, 1>>[(Len(text) % 3) + 1]
    IN  [i \in DOMAIN digits |-> IF i > Len(digits) - pad THEN "=" ELSE ToString(digits[i])]

Digit(c) == IF c = "=" THEN 0 ELSE CHOOSE d \in 0..(2^D - 1) : ToString(d) = c

Decoded(chars) ==
    LET d == [i \in DOMAIN chars |-> Digit(chars[i])]
    IN  FoldLeft(LAMBDA a, q : a \o
            << (d[q+1] * 2^S + d[q+2] \div 2^(2 * S)) % N,
               ((d[q+2] % 2^(2 * S)) * 2^(2 * S) + d[q+3] \div 2^S) % N,
               ((d[q+3] % 2^S) * 2^D + d[q+4]) % N >>,
            <<>>, [q \in 1..(Len(chars) \div 4) |-> 4 * (q - 1)])

(***************************************************************************)
(* What a program does.                                                    *)
(***************************************************************************)

EncInit == encoder = NoEncoder /\ fed = <<>> /\ given = <<>>

\* Rc4(key); an encoder made without a key is not initialised and left out.
NewRc4(key) == encoder' = Scheduled(key) /\ fed' = <<>> /\ given' = <<>>

\* Mutant: the indices start anew for every piece.
CryptRestarts(text) ==
    LET r == Crypted([encoder EXCEPT !.i1 = 0, !.i2 = 0], text)
    IN  encoder' = r.rc4 /\ fed' = fed \o text /\ given' = given \o r.out

\* rc4:crypt(text): the loop counts in a byte, so that it ends for texts of less
\* than N bytes only.
Crypt(text) ==
    LET r == Crypted(encoder, text)
    IN  /\ Len(text) < N
        /\ encoder' = r.rc4 /\ fed' = fed \o text /\ given' = given \o r.out

\* rc4:crypt(text, key)
CryptWith(text, key) ==
    LET r == Crypted(Scheduled(key), text)
    IN  Len(text) < N /\ encoder' = r.rc4 /\ fed' = text /\ given' = r.out

NewCrc(alg) ==
    encoder' = [alg |-> alg, sum |-> InitialSum(alg)] /\ fed' = <<>> /\ given' = <<>>

\* crc:calc(text) returns the sum over all that was calculated so far.
Calc(text) ==
    LET sum == Summed(encoder.sum, text, encoder.alg)
    IN  /\ encoder' = [encoder EXCEPT !.sum = sum]
        /\ fed' = fed \o text /\ given' = <<Result(sum, encoder.alg)>>

Reset == encoder' = [encoder EXCEPT !.sum = InitialSum(encoder.alg)] /\ fed' = <<>> /\ given' = <<>>

EncNext ==
    \/ \E key \in Keys : NewRc4(key)
    \/ \E alg \in DOMAIN Poly : NewCrc(alg)
    \/ /\ encoder # NoEncoder /\ encoder.alg = "rc4"
       /\ \E text \in Texts :
             \/ Len(fed) + Len(text) <= MaxText /\ Crypt(text)
             \/ \E key \in Keys : CryptWith(text, key)
    \/ /\ encoder # NoEncoder /\ encoder.alg # "rc4"
       /\ \/ \E text \in Texts :
                 /\ Len(fed) + Len(text) <= MaxText
                 /\ encoder.alg = "8" => \A i \in DOMAIN text : text[i] < 2^(B - 1)
                 /\ Calc(text)
          \/ Reset

(***************************************************************************)
(* Properties.                                                             *)
(***************************************************************************)

\* Two ends that use one key understand each other however either cuts the text:
\* what was encrypted in pieces is decrypted as one, and as bytes.
CryptInPieces ==
    encoder # NoEncoder /\ encoder.alg = "rc4" =>
        /\ Crypted(Scheduled(encoder.key), given).out = fed
        /\ FoldLeft(LAMBDA a, byte : LET r == Crypted(a.rc4, <<byte>>)
                                     IN  [rc4 |-> r.rc4, out |-> a.out \o r.out],
                    [rc4 |-> Scheduled(encoder.key), out |-> <<>>], given).out = fed

\* The division bit by bit that a sum stands for.
Remainder(text, alg) ==
    FoldLeft(LAMBDA c, byte :
        IF Reflected(alg) THEN FoldLeft(LAMBDA x, n : DivideLow(x, Poly[alg]), XorOf(c, byte), Steps(B))
        ELSE FoldLeft(LAMBDA x, n : DivideHigh(x, Poly[alg], Width(alg)),
                      XorOf(c, byte * 2^(Width(alg) - B)), Steps(B)),
        InitialSum(alg), text)

\* The sum that calc returns is the division of all the text since the sum was made
\* or reset, whatever the pieces: the tables, the two ways to fill them and the four
\* ways to use them agree.
SumIsRemainder ==
    encoder # NoEncoder /\ encoder.alg # "rc4" /\ given # <<>> =>
        given[1] = Result(Remainder(fed, encoder.alg), encoder.alg)

\* What is encoded is decoded to the same bytes, followed by a 0 for each "=", since
\* the decoder's result is as long as its input allows.
DecodeInverts ==
    LET back == Decoded(Encoded(fed))
        pad  == IF Len(fed) % 3 = 0 THEN 0 ELSE 3 - (Len(fed) % 3)
    IN  back = fed \o [i \in 1..pad |-> 0]

\* Each encoder does what its algorithm says, however the text is cut into calls.
EncodersExact == CryptInPieces /\ SumIsRemainder /\ DecodeInverts
===============================================================================
