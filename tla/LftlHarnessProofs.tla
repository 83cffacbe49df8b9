------------------------- MODULE LftlHarnessProofs -------------------------
(***************************************************************************)
(* What the sweep of the test harness shows, proved for any legal tests,   *)
(* any areas and any sizes of the flash operations.                        *)
(*                                                                         *)
(* As long as the library keeps its promise, the flash and the references  *)
(* follow the replay of the test, call by call, and the counter of the     *)
(* emulator follows the bytes of the test.  So each run but the last is    *)
(* torn, at its own target, and what the handler compares is either the    *)
(* state before the torn call or the one after.                            *)
(***************************************************************************)
EXTENDS LftlHarness, SequenceTheorems, WellFoundedInduction, TLAPS

-----------------------------------------------------------------------------
(* Induction, as far as it is needed: a set of natural numbers has a least *)
(* member, so a set that holds 0 and every successor holds them all.       *)

LEMMA LeastNatural ==
  ASSUME NEW B \in SUBSET Nat, B # {}
  PROVE  \E n \in B : \A m \in B : n <= m
<1> DEFINE R == OpToRel(<, Nat)
<1>1. IsWellFoundedOn(R, Nat)
  BY NatLessThanWellFounded
<1>2. \A x, y \in Nat : <<x, y>> \in R <=> x < y
  BY DEF OpToRel
<1> HIDE DEF R
<1>3. PICK n \in B : \A m \in B : ~(<<m, n>> \in R)
  BY <1>1, WFMin
<1>4. \A m \in B : ~(m < n)
  BY <1>2, <1>3
<1>5. n \in Nat /\ \A m \in B : m \in Nat
  OBVIOUS
<1> QED BY <1>4, <1>5

LEMMA SetInduction ==
  ASSUME NEW S, 0 \in S, \A n \in Nat : n \in S => n + 1 \in S
  PROVE  Nat \subseteq S
<1> DEFINE B == Nat \ S
<1> SUFFICES ASSUME B # {} PROVE FALSE
  OBVIOUS
<1>1. PICK n \in B : \A m \in B : n <= m
  BY LeastNatural
<1>2. n # 0 /\ n - 1 \in Nat
  BY <1>1
<1>3. n - 1 \in S
  BY <1>1, <1>2
<1> QED BY <1>1, <1>2, <1>3

(* A function whose value at n is computed from that at n - 1 exists.  The *)
(* definitions are kept folded where the lemma is used.                    *)
Computations(L, S) == [(1..L) \X S -> S]
Computed(f, L, S, c, F) ==
  /\ f \in [0..L -> S]
  /\ f[0] = c
  /\ \A n \in 1..L : f[n] = F[<<n, f[n - 1]>>]

LEMMA Recursion ==
  ASSUME NEW S, NEW L \in Nat, NEW c \in S, NEW F \in Computations(L, S)
  PROVE  \E f : Computed(f, L, S, c, F)
<1> DEFINE Good == {m \in Nat : m <= L => \E f : Computed(f, m, S, c, F)}
<1>1. 0 \in Good
  <2> DEFINE f == [n \in 0..0 |-> c]
  <2>1. Computed(f, 0, S, c, F)
    BY DEF Computed
  <2> QED BY <2>1
<1>2. ASSUME NEW m \in Nat, m \in Good PROVE m + 1 \in Good
  <2> SUFFICES ASSUME m + 1 <= L PROVE \E f : Computed(f, m + 1, S, c, F)
    OBVIOUS
  <2>1. PICK f : Computed(f, m, S, c, F)
    BY <1>2
  <2> DEFINE g == [n \in 0..(m + 1) |-> IF n = m + 1 THEN F[<<n, f[m]>>] ELSE f[n]]
  <2>2. m + 1 \in 1..L /\ f[m] \in S /\ f \in [0..m -> S]
    BY <2>1 DEF Computed
  <2>3. F[<<m + 1, f[m]>>] \in S
    BY <2>2 DEF Computations
  <2>4. g \in [0..(m + 1) -> S]
    BY <2>2, <2>3
  <2>5. g[0] = c
    BY <2>1 DEF Computed
  <2>6. ASSUME NEW n \in 1..(m + 1)
        PROVE  g[n] = F[<<n, g[n - 1]>>]
    <3>1. CASE n = m + 1
      BY <3>1
    <3>2. CASE n \in 1..m
      <4>1. n \in 0..m /\ n - 1 \in 0..m
        BY <3>2
      <4>2. f[n] = F[<<n, f[n - 1]>>]
        BY <2>1, <3>2 DEF Computed
      <4>3. g[n] = f[n] /\ g[n - 1] = f[n - 1]
        BY <4>1
      <4> QED BY <4>2, <4>3
    <3> QED BY <3>1, <3>2
  <2> HIDE DEF g
  <2>7. Computed(g, m + 1, S, c, F)
    BY <2>4, <2>5, <2>6 DEF Computed
  <2> QED BY <2>7
<1> HIDE DEF Good
<1>3. Nat \subseteq Good
  BY <1>1, <1>2, SetInduction
<1> QED BY <1>3 DEF Good

(* Sequences that grow.                                                    *)
LEMMA Grows ==
  ASSUME NEW L \in Nat, NEW f \in [0..L -> Nat],
         \A n \in 1..L : f[n - 1] <= f[n],
         NEW i \in 0..L, NEW j \in 0..L, i <= j
  PROVE  f[i] <= f[j]
<1> DEFINE Good == {d \in Nat : i + d <= L => f[i] <= f[i + d]}
<1>1. 0 \in Good
  OBVIOUS
<1>2. ASSUME NEW d \in Nat, d \in Good PROVE d + 1 \in Good
  <2> SUFFICES ASSUME i + (d + 1) <= L PROVE f[i] <= f[i + (d + 1)]
    OBVIOUS
  <2>1. f[i] <= f[i + d]
    BY <1>2
  <2>2. i + (d + 1) \in 1..L /\ (i + (d + 1)) - 1 = i + d
    OBVIOUS
  <2>3. f[i + d] <= f[i + (d + 1)]
    BY <2>2
  <2>4. f[i] \in Nat /\ f[i + d] \in Nat /\ f[i + (d + 1)] \in Nat
    BY <2>2
  <2> QED BY <2>1, <2>3, <2>4
<1> HIDE DEF Good
<1>3. Nat \subseteq Good
  BY <1>1, <1>2, SetInduction
<1>4. j - i \in Nat /\ i + (j - i) = j
  OBVIOUS
<1>5. f[i] <= f[i + (j - i)]
  <2> DEFINE d == j - i
  <2>1. d \in Good /\ i + d <= L
    BY <1>3, <1>4
  <2> HIDE DEF d
  <2>2. f[i] <= f[i + d]
    BY <2>1 DEF Good
  <2> QED BY <2>2 DEF d
<1> QED BY <1>4, <1>5

LEMMA MultipleSum ==
  ASSUME NEW w \in Nat \ {0}, NEW x \in Nat, NEW y \in Nat,
         x % w = 0, y % w = 0
  PROVE  (x + y) % w = 0
<1>1. x = w * (x \div w) /\ y = w * (y \div w)
  OBVIOUS
<1> DEFINE p == x \div w
           q == y \div w
<1>2. p \in Nat /\ q \in Nat
  OBVIOUS
<1> HIDE DEF p, q
<1>3. x + y = w * (p + q)
  BY <1>1, <1>2 DEF p, q
<1>4. (w * (p + q)) % w = 0
  BY <1>2
<1> QED BY <1>3, <1>4

LEMMA Multiples ==
  ASSUME NEW w \in Nat \ {0}, NEW L \in Nat, NEW f \in [0..L -> Nat], f[0] = 0,
         \A n \in 1..L : \E d \in Nat : d % w = 0 /\ f[n] = f[n - 1] + d,
         NEW j \in 0..L
  PROVE  f[j] % w = 0
<1> DEFINE Good == {n \in Nat : n <= L => f[n] % w = 0}
<1>1. 0 \in Good
  OBVIOUS
<1>2. ASSUME NEW n \in Nat, n \in Good PROVE n + 1 \in Good
  <2> SUFFICES ASSUME n + 1 <= L PROVE f[n + 1] % w = 0
    OBVIOUS
  <2>1. n + 1 \in 1..L /\ (n + 1) - 1 = n /\ f[n] \in Nat /\ f[n] % w = 0
    BY <1>2
  <2>2. PICK d \in Nat : d % w = 0 /\ f[n + 1] = f[n] + d
    BY <2>1
  <2>3. (f[n] + d) % w = 0
    BY <2>1, <2>2, MultipleSum
  <2> QED BY <2>2, <2>3
<1> HIDE DEF Good
<1>3. Nat \subseteq Good
  BY <1>1, <1>2, SetInduction
<1> QED BY <1>3 DEF Good

LEMMA Locate ==
  ASSUME NEW L \in Nat, NEW f \in [0..L -> Nat], f[0] = 0,
         NEW p \in Nat, p < f[L]
  PROVE  \E n \in 1..L : f[n - 1] <= p /\ p < f[n]
<1> DEFINE B == {n \in 0..L : p < f[n]}
<1>1. B \in SUBSET Nat /\ L \in B
  OBVIOUS
<1>2. PICK n \in B : \A m \in B : n <= m
  BY <1>1, LeastNatural
<1>3. n \in 1..L /\ n - 1 \in 0..L /\ n - 1 \notin B
  BY <1>2
<1> QED BY <1>3

(* A sum of natural numbers, from the first to the n-th.                   *)
Summed(f, L, add) ==
  f = [n \in 0..L |-> IF n = 0 THEN 0 ELSE f[n - 1] + add[n]]

LEMMA SumExists ==
  ASSUME NEW L \in Nat, NEW add, \A n \in 1..L : add[n] \in Nat
  PROVE  \E f : Summed(f, L, add)
<1> DEFINE F == [x \in (1..L) \X Nat |-> x[2] + add[x[1]]]
<1>1. F \in [(1..L) \X Nat -> Nat]
  OBVIOUS
<1>2. \A n \in 1..L, m \in Nat : F[<<n, m>>] = m + add[n]
  OBVIOUS
<1> HIDE DEF F
<1>3. PICK f : Computed(f, L, Nat, 0, F)
  <2>1. F \in Computations(L, Nat)
    BY <1>1 DEF Computations
  <2> QED BY <2>1, Recursion
<1>4. f \in [0..L -> Nat] /\ f[0] = 0
  BY <1>3 DEF Computed
<1>5. ASSUME NEW n \in 1..L PROVE f[n] = f[n - 1] + add[n]
  <2>1. n - 1 \in 0..L
    OBVIOUS
  <2>2. f[n - 1] \in Nat
    BY <1>4, <2>1
  <2> QED BY <1>2, <1>3, <2>2 DEF Computed
<1>6. f = [n \in 0..L |-> IF n = 0 THEN 0 ELSE f[n - 1] + add[n]]
  BY <1>4, <1>5
<1> QED BY <1>6 DEF Summed

LEMMA SumType ==
  ASSUME NEW L \in Nat, NEW add, \A n \in 1..L : add[n] \in Nat,
         NEW f, Summed(f, L, add)
  PROVE  /\ f \in [0..L -> Nat]
         /\ f[0] = 0
         /\ \A n \in 1..L : f[n] = f[n - 1] + add[n]
         /\ \A n \in 1..L : f[n - 1] <= f[n]
<1>1. f = [n \in 0..L |-> IF n = 0 THEN 0 ELSE f[n - 1] + add[n]]
  BY DEF Summed
<1>2. f[0] = 0
  BY <1>1
<1>3. \A n \in 1..L : f[n] = f[n - 1] + add[n]
  BY <1>1
<1> DEFINE Good == {n \in Nat : n <= L => f[n] \in Nat}
<1>4. 0 \in Good
  BY <1>2
<1>5. ASSUME NEW n \in Nat, n \in Good PROVE n + 1 \in Good
  <2> SUFFICES ASSUME n + 1 <= L PROVE f[n + 1] \in Nat
    OBVIOUS
  <2>1. n + 1 \in 1..L /\ (n + 1) - 1 = n /\ f[n] \in Nat
    BY <1>5
  <2>2. f[n + 1] = f[n] + add[n + 1]
    BY <1>3, <2>1
  <2> QED BY <2>1, <2>2
<1> HIDE DEF Good
<1>6. Nat \subseteq Good
  BY <1>4, <1>5, SetInduction
<1>7. \A n \in 0..L : f[n] \in Nat
  BY <1>6 DEF Good
<1>8. f \in [0..L -> Nat]
  BY <1>1, <1>7
<1>9. ASSUME NEW n \in 1..L PROVE f[n - 1] <= f[n]
  <2>1. n - 1 \in 0..L /\ n \in 0..L
    OBVIOUS
  <2>2. f[n - 1] \in Nat /\ f[n] \in Nat
    BY <1>7, <2>1
  <2> QED BY <1>3, <2>2
<1> QED BY <1>2, <1>3, <1>8, <1>9

-----------------------------------------------------------------------------
(* The tests.                                                              *)

LEMMA BytesDef ==
  ASSUME NEW flash \in Seq(Nat)
  PROVE  /\ Len(flash) \in Nat
         /\ \A n \in 1..Len(flash) : flash[n] \in Nat
         /\ Summed(Bytes(flash), Len(flash), flash)
<1>1. Len(flash) \in Nat /\ \A n \in 1..Len(flash) : flash[n] \in Nat
  BY ElementOfSeq, LenProperties
<1>2. PICK f : Summed(f, Len(flash), flash)
  BY <1>1, SumExists
<1>3. f = [n \in 0..Len(flash) |-> IF n = 0 THEN 0 ELSE f[n - 1] + flash[n]]
  BY <1>2 DEF Summed
<1> DEFINE B == Bytes(flash)
<1>4. B = [n \in 0..Len(flash) |-> IF n = 0 THEN 0 ELSE B[n - 1] + flash[n]]
  BY <1>3 DEF Bytes
<1> QED BY <1>1, <1>4 DEF Summed

(* The bytes of an operation: a sum that grows, of whole units.            *)
LEMMA OperationBytes ==
  ASSUME NEW flash \in Seq(Nat)
  PROVE  /\ Len(flash) \in Nat
         /\ Bytes(flash) \in [0..Len(flash) -> Nat]
         /\ Bytes(flash)[0] = 0
         /\ \A n \in 1..Len(flash) :
              /\ flash[n] \in Nat
              /\ Bytes(flash)[n] = Bytes(flash)[n - 1] + flash[n]
              /\ Bytes(flash)[n - 1] <= Bytes(flash)[n]
BY BytesDef, SumType

OpBytes(op) == Bytes(op.flash)[Len(op.flash)]

LEMMA OperationTyped ==
  ASSUME NEW op \in Operations
  PROVE  /\ op.kind \in {"write", "erase_all", "start", "transaction_write",
                         "commit", "abort", "raw", "sanity", "verify"}
         /\ op.area \in Areas /\ op.writes \in Partial /\ op.flash \in Seq(Nat)
         /\ OpBytes(op) \in Nat
<1>1. op.flash \in Seq(Nat)
  BY DEF Operations
<1>2. Len(op.flash) \in 0..Len(op.flash)
  BY <1>1, LenProperties
<1>3. OpBytes(op) \in Nat
  BY <1>1, <1>2, OperationBytes DEF OpBytes
<1> QED BY <1>1, <1>3 DEF Operations

LEMMA TestBytesDef ==
  ASSUME NEW t \in Seq(Operations)
  PROVE  /\ Len(t) \in Nat
         /\ TestBytes(t) \in [0..Len(t) -> Nat]
         /\ TestBytes(t)[0] = 0
         /\ \A n \in 1..Len(t) :
              /\ t[n] \in Operations
              /\ TestBytes(t)[n] = TestBytes(t)[n - 1] + OpBytes(t[n])
              /\ TestBytes(t)[n - 1] <= TestBytes(t)[n]
<1> DEFINE L == Len(t)
           add == [n \in 1..L |-> OpBytes(t[n])]
<1>1. L \in Nat /\ \A n \in 1..L : t[n] \in Operations
  BY ElementOfSeq, LenProperties
<1>2. \A n \in 1..L : add[n] \in Nat /\ add[n] = OpBytes(t[n])
  BY <1>1, OperationTyped
<1> HIDE DEF add
<1>3. PICK f : Summed(f, L, add)
  BY <1>1, <1>2, SumExists
<1>4. f = [n \in 0..L |-> IF n = 0 THEN 0 ELSE f[n - 1] + Bytes(t[n].flash)[Len(t[n].flash)]]
  <2>1. f = [n \in 0..L |-> IF n = 0 THEN 0 ELSE f[n - 1] + add[n]]
    BY <1>3 DEF Summed
  <2>2. \A n \in 0..L : n # 0 => n \in 1..L
    BY <1>1
  <2> QED BY <1>2, <2>1, <2>2 DEF OpBytes
<1> DEFINE B == TestBytes(t)
<1>5. B = [n \in 0..L |-> IF n = 0 THEN 0 ELSE B[n - 1] + Bytes(t[n].flash)[Len(t[n].flash)]]
  BY <1>4 DEF TestBytes
<1>6. Summed(B, L, add)
  <2> HIDE DEF B
  <2>1. \A n \in 0..L : n # 0 => n \in 1..L
    BY <1>1
  <2>2. B = [n \in 0..L |-> IF n = 0 THEN 0 ELSE B[n - 1] + add[n]]
    BY <1>2, <1>5, <2>1 DEF OpBytes
  <2> QED BY <2>2 DEF Summed
<1> HIDE DEF B, L
<1>7. /\ B \in [0..L -> Nat]
      /\ B[0] = 0
      /\ \A n \in 1..L : B[n] = B[n - 1] + add[n] /\ B[n - 1] <= B[n]
  BY <1>1, <1>2, <1>6, SumType
<1> QED BY <1>1, <1>2, <1>7 DEF B, L

-----------------------------------------------------------------------------
(* What a call does to areas and transactions, and the replay of a test.   *)

Transactions == [Areas -> Partial \cup {None}]
States == [areas : [Areas -> Content], open : Transactions]

LEMMA Partials ==
  ASSUME NEW f
  PROVE  f \in Partial <=> \E us \in SUBSET Units : f \in [us -> Data]
BY DEF Partial

LEMMA OverlayTyped ==
  ASSUME NEW c \in Content, NEW f \in Partial
  PROVE  Overlay(c, f) \in Content
<1>1. PICK us \in SUBSET Units : f \in [us -> Data]
  BY Partials
<1>2. \A u \in Units : (IF u \in DOMAIN f THEN f[u] ELSE c[u]) \in Data
  BY <1>1 DEF Content
<1> QED BY <1>2 DEF Overlay, Content

LEMMA ErasedTyped ==
  /\ Erased \in Content
  /\ AllErased \in [Areas -> Content]
  /\ NoTransactions \in Transactions
BY ConstantsAssumption DEF Erased, Content, AllErased, NoTransactions, Transactions

LEMMA NothingWritten ==
  /\ << >> \in Partial
  /\ \A c \in Content : Overlay(c, << >>) = c
<1>1. DOMAIN << >> = {} /\ << >> \in [{} -> Data]
  OBVIOUS
<1>2. << >> \in Partial
  BY <1>1, Partials
<1>3. ASSUME NEW c \in Content PROVE Overlay(c, << >>) = c
  <2>1. Overlay(c, << >>) = [u \in Units |-> c[u]]
    BY <1>1 DEF Overlay
  <2> QED BY <2>1 DEF Content
<1> QED BY <1>2, <1>3

(* Two writes of a transaction, one after the other.                       *)
Joined(f, g) ==
  [u \in DOMAIN f \cup DOMAIN g |-> IF u \in DOMAIN g THEN g[u] ELSE f[u]]

LEMMA JoinedTyped ==
  ASSUME NEW f \in Partial, NEW g \in Partial, NEW c \in Content
  PROVE  /\ Joined(f, g) \in Partial
         /\ Overlay(Overlay(c, f), g) = Overlay(c, Joined(f, g))
<1>1. PICK us \in SUBSET Units : f \in [us -> Data]
  BY Partials
<1>2. PICK ws \in SUBSET Units : g \in [ws -> Data]
  BY Partials
<1>3. Joined(f, g) = [u \in us \cup ws |-> IF u \in ws THEN g[u] ELSE f[u]]
  BY <1>1, <1>2 DEF Joined
<1>4. Joined(f, g) \in [us \cup ws -> Data]
  BY <1>1, <1>2, <1>3
<1>5. Joined(f, g) \in Partial
  BY <1>4, Partials
<1>6. Overlay(Overlay(c, f), g) = Overlay(c, Joined(f, g))
  BY <1>1, <1>2, <1>3 DEF Overlay
<1> QED BY <1>5, <1>6

LEMMA ResultTyped ==
  ASSUME NEW op \in Operations, NEW C, Content \subseteq C,
         NEW h \in [Areas -> C], NEW o \in Transactions,
         op.kind \in {"write", "commit"} => h[op.area] \in Content
  PROVE  Result(op, h, o) \in [Areas -> C]
<1>1. op.area \in Areas /\ op.writes \in Partial
  BY OperationTyped
<1>2. CASE op.kind = "write" /\ o[op.area] = None
  <2>1. Result(op, h, o) = [h EXCEPT ![op.area] = Overlay(h[op.area], op.writes)]
    BY <1>2 DEF Result
  <2>2. Overlay(h[op.area], op.writes) \in C
    BY <1>1, <1>2, OverlayTyped
  <2> QED BY <1>1, <2>1, <2>2
<1>3. CASE op.kind = "erase_all"
  <2>1. Result(op, h, o) = [h EXCEPT ![op.area] = Erased]
    BY <1>3 DEF Result
  <2>2. Erased \in C
    BY ErasedTyped
  <2> QED BY <1>1, <2>1, <2>2
<1>4. CASE op.kind = "commit" /\ o[op.area] # None
  <2>1. Result(op, h, o) = [h EXCEPT ![op.area] = Overlay(h[op.area], o[op.area])]
    BY <1>4 DEF Result
  <2>2. o[op.area] \in Partial
    BY <1>1, <1>4 DEF Transactions
  <2>3. Overlay(h[op.area], o[op.area]) \in C
    BY <1>4, <2>2, OverlayTyped
  <2> QED BY <1>1, <2>1, <2>3
<1>5. CASE /\ ~(op.kind = "write" /\ o[op.area] = None)
           /\ op.kind # "erase_all"
           /\ ~(op.kind = "commit" /\ o[op.area] # None)
  <2>1. Result(op, h, o) = h
    BY <1>5 DEF Result
  <2> QED BY <2>1
<1> QED BY <1>2, <1>3, <1>4, <1>5

LEMMA OpenedTyped ==
  ASSUME NEW op \in Operations, NEW h, NEW o \in Transactions
  PROVE  Opened(op, h, o) \in Transactions
<1>1. op.area \in Areas /\ op.writes \in Partial
  BY OperationTyped
<1>2. CASE op.kind = "start"
  <2>1. Opened(op, h, o) = [o EXCEPT ![op.area] = << >>]
    BY <1>2 DEF Opened
  <2> QED BY <1>1, <2>1, NothingWritten DEF Transactions
<1>3. CASE op.kind \in {"transaction_write", "write"} /\ o[op.area] # None
  <2>1. Opened(op, h, o) = [o EXCEPT ![op.area] = Joined(o[op.area], op.writes)]
    BY <1>3 DEF Opened, Joined
  <2>2. o[op.area] \in Partial
    BY <1>1, <1>3 DEF Transactions
  <2>3. Joined(o[op.area], op.writes) \in Partial
    BY <1>1, <2>2, ErasedTyped, JoinedTyped
  <2> QED BY <1>1, <2>1, <2>3 DEF Transactions
<1>4. CASE op.kind \in {"commit", "abort"}
  <2>1. Opened(op, h, o) = [o EXCEPT ![op.area] = None]
    BY <1>4 DEF Opened
  <2> QED BY <1>1, <2>1 DEF Transactions
<1>5. CASE /\ op.kind \notin {"start", "commit", "abort"}
           /\ ~(op.kind \in {"transaction_write", "write"} /\ o[op.area] # None)
  <2>1. Opened(op, h, o) = o
    BY <1>5 DEF Opened
  <2> QED BY <2>1
<1> QED BY <1>2, <1>3, <1>4, <1>5

LEMMA ReplayDef ==
  ASSUME NEW t \in Seq(Operations)
  PROVE  /\ Replay(t)[0] = [areas |-> AllErased, open |-> NoTransactions]
         /\ \A n \in 0..Len(t) : Replay(t)[n] \in States
         /\ \A n \in 1..Len(t) :
              Replay(t)[n] =
                [areas |-> Result(t[n], Replay(t)[n - 1].areas, Replay(t)[n - 1].open),
                 open  |-> Opened(t[n], Replay(t)[n - 1].areas, Replay(t)[n - 1].open)]
<1> DEFINE L == Len(t)
           After(n, s) == [areas |-> Result(t[n], s.areas, s.open),
                           open  |-> Opened(t[n], s.areas, s.open)]
           start == [areas |-> AllErased, open |-> NoTransactions]
           F == [x \in (1..L) \X States |-> After(x[1], x[2])]
<1>1. L \in Nat /\ \A n \in 1..L : t[n] \in Operations
  BY ElementOfSeq, LenProperties
<1>2. ASSUME NEW n \in 1..L, NEW s \in States
      PROVE  After(n, s) \in States
  <2>1. t[n] \in Operations /\ s.areas \in [Areas -> Content] /\ s.open \in Transactions
    BY <1>1 DEF States
  <2>2. /\ Result(t[n], s.areas, s.open) \in [Areas -> Content]
        /\ Opened(t[n], s.areas, s.open) \in Transactions
    <3>1. t[n].area \in Areas
      BY <2>1, OperationTyped
    <3>2. s.areas[t[n].area] \in Content
      BY <2>1, <3>1
    <3>3. Result(t[n], s.areas, s.open) \in [Areas -> Content]
      BY <2>1, <3>2, ResultTyped
    <3> QED BY <2>1, <3>3, OpenedTyped
  <2> QED BY <2>2 DEF States
<1>3. start \in States
  BY ErasedTyped DEF States
<1> HIDE DEF After, start
<1>4. F \in [(1..L) \X States -> States]
  BY <1>2
<1>5. \A n \in 1..L, s \in States : F[<<n, s>>] = After(n, s)
  OBVIOUS
<1> HIDE DEF F
<1>6. PICK f : Computed(f, L, States, start, F)
  <2>1. F \in Computations(L, States)
    BY <1>4 DEF Computations
  <2> QED BY <1>1, <1>3, <2>1, Recursion
<1>7. f = [n \in 0..L |-> IF n = 0 THEN start ELSE After(n, f[n - 1])]
  <2>1. f \in [0..L -> States] /\ f[0] = start
    BY <1>6 DEF Computed
  <2>2. ASSUME NEW n \in 1..L PROVE f[n] = After(n, f[n - 1])
    <3>1. n - 1 \in 0..L
      BY <1>1
    <3>2. f[n - 1] \in States
      BY <2>1, <3>1
    <3>3. f[n] = F[<<n, f[n - 1]>>]
      BY <1>6 DEF Computed
    <3> QED BY <1>5, <3>2, <3>3
  <2> QED BY <1>1, <2>1, <2>2
<1> DEFINE B == Replay(t)
<1>8. B = [n \in 0..L |-> IF n = 0 THEN start ELSE After(n, B[n - 1])]
  BY <1>7 DEF Replay, After, start
<1> HIDE DEF B
<1>9. B[0] = start /\ \A n \in 1..L : B[n] = After(n, B[n - 1])
  BY <1>1, <1>8
<1> DEFINE Good == {n \in Nat : n <= L => B[n] \in States}
<1>10. 0 \in Good
  BY <1>3, <1>9
<1>11. ASSUME NEW n \in Nat, n \in Good PROVE n + 1 \in Good
  <2> SUFFICES ASSUME n + 1 <= L PROVE B[n + 1] \in States
    OBVIOUS
  <2>1. n + 1 \in 1..L /\ (n + 1) - 1 = n /\ B[n] \in States
    BY <1>1, <1>11
  <2>2. B[n + 1] = After(n + 1, B[n])
    BY <1>9, <2>1
  <2> QED BY <1>2, <2>1, <2>2
<1> HIDE DEF Good
<1>12. Nat \subseteq Good
  BY <1>10, <1>11, SetInduction
<1>13. \A n \in 0..L : B[n] \in States
  BY <1>1, <1>12 DEF Good
<1> QED BY <1>9, <1>13 DEF B, After, start

-----------------------------------------------------------------------------
(* Where the flash operations of a test lie among its bytes.               *)

(* The first byte of flash operation k of operation i of a test.           *)
FlashStart(t, i, k) == TestBytes(t)[i - 1] + Bytes(t[i].flash)[k - 1]

LEMMA TestTyped ==
  ASSUME NEW t \in Tests
  PROVE  /\ t \in Seq(Operations) /\ Len(t) \in Nat /\ DOMAIN t = 1..Len(t)
         /\ Legal(t)
         /\ \A i \in 1..Len(t) :
              /\ t[i] \in Operations
              /\ t[i].flash \in Seq(Nat)
              /\ Len(t[i].flash) \in Nat
              /\ DOMAIN t[i].flash = 1..Len(t[i].flash)
              /\ t[i].kind = "erase_all" => t[i].area = FirstArea
              /\ t[i].kind \in {"sanity", "verify"} => t[i].flash = << >>
              /\ \A k \in 1..Len(t[i].flash) :
                   t[i].flash[k] \in Nat /\ t[i].flash[k] % WriteSize = 0
<1>1. t \in Seq(Operations) /\ Legal(t)
  BY TestsAssumption, LegalAssumption
<1>2. Len(t) \in Nat /\ DOMAIN t = 1..Len(t)
  BY <1>1, LenProperties
<1>3. ASSUME NEW i \in 1..Len(t)
      PROVE  /\ t[i] \in Operations
             /\ t[i].flash \in Seq(Nat)
             /\ Len(t[i].flash) \in Nat
             /\ DOMAIN t[i].flash = 1..Len(t[i].flash)
             /\ t[i].kind = "erase_all" => t[i].area = FirstArea
             /\ t[i].kind \in {"sanity", "verify"} => t[i].flash = << >>
             /\ \A k \in 1..Len(t[i].flash) :
                  t[i].flash[k] \in Nat /\ t[i].flash[k] % WriteSize = 0
  <2>1. t[i] \in Operations
    BY <1>1, ElementOfSeq
  <2>2. t[i].flash \in Seq(Nat)
    BY <2>1, OperationTyped
  <2>3. Len(t[i].flash) \in Nat /\ DOMAIN t[i].flash = 1..Len(t[i].flash)
    BY <2>2, LenProperties
  <2>4. \A k \in 1..Len(t[i].flash) : t[i].flash[k] \in Nat
    BY <2>2, ElementOfSeq
  <2>5. i \in DOMAIN t
    BY <1>2
  <2> QED BY <2>1, <2>2, <2>3, <2>4, <2>5, TestsAssumption
<1> QED BY <1>1, <1>2, <1>3

(* Everything is a multiple of the write unit.                             *)
LEMMA Aligned ==
  ASSUME NEW t \in Tests
  PROVE  /\ \A n \in 0..Len(t) : TestBytes(t)[n] % WriteSize = 0
         /\ \A i \in 1..Len(t) : \A k \in 0..Len(t[i].flash) :
              Bytes(t[i].flash)[k] % WriteSize = 0
<1>1. ASSUME NEW i \in 1..Len(t), NEW k \in 0..Len(t[i].flash)
      PROVE  Bytes(t[i].flash)[k] % WriteSize = 0
  <2> DEFINE flash == t[i].flash
             B == Bytes(flash)
             L == Len(flash)
  <2>1. flash \in Seq(Nat) /\ \A m \in 1..L : flash[m] \in Nat /\ flash[m] % WriteSize = 0
    BY TestTyped
  <2> HIDE DEF flash
  <2>2. L \in Nat /\ B \in [0..L -> Nat] /\ B[0] = 0
        /\ \A m \in 1..L : B[m] = B[m - 1] + flash[m]
    BY <2>1, OperationBytes
  <2>3. k \in 0..L
    BY DEF flash
  <2> HIDE DEF B, L
  <2>4. \A m \in 1..L : \E d \in Nat : d % WriteSize = 0 /\ B[m] = B[m - 1] + d
    BY <2>1, <2>2 DEF L
  <2>5. B[k] % WriteSize = 0
    BY <2>2, <2>3, <2>4, Multiples, WriteSizeAssumption
  <2> QED BY <2>5 DEF B, flash
<1>2. ASSUME NEW n \in 0..Len(t) PROVE TestBytes(t)[n] % WriteSize = 0
  <2> DEFINE B == TestBytes(t)
             L == Len(t)
  <2>1. L \in Nat /\ B \in [0..L -> Nat] /\ B[0] = 0
        /\ \A m \in 1..L : B[m] = B[m - 1] + OpBytes(t[m])
    BY TestTyped, TestBytesDef
  <2>2. ASSUME NEW m \in 1..L
        PROVE  OpBytes(t[m]) \in Nat /\ OpBytes(t[m]) % WriteSize = 0
    <3>1. t[m] \in Operations /\ Len(t[m].flash) \in 0..Len(t[m].flash)
      BY TestTyped
    <3>2. Bytes(t[m].flash)[Len(t[m].flash)] % WriteSize = 0
      BY <1>1, <3>1
    <3> QED BY <3>1, <3>2, OperationTyped DEF OpBytes
  <2>3. n \in 0..L
    OBVIOUS
  <2> HIDE DEF B, L
  <2>4. \A m \in 1..L : \E d \in Nat : d % WriteSize = 0 /\ B[m] = B[m - 1] + d
    BY <2>1, <2>2
  <2>5. B[n] % WriteSize = 0
    BY <2>1, <2>3, <2>4, Multiples, WriteSizeAssumption
  <2> QED BY <2>5 DEF B
<1> QED BY <1>1, <1>2

(* A flash operation lies inside its call, and its call inside the test.   *)
LEMMA FlashInside ==
  ASSUME NEW t \in Tests, NEW i \in 1..Len(t), NEW k \in 1..Len(t[i].flash)
  PROVE  /\ FlashStart(t, i, k) \in Nat
         /\ t[i].flash[k] \in Nat
         /\ FlashStart(t, i, k) % WriteSize = 0
         /\ FlashStart(t, i, k) + t[i].flash[k] =
              TestBytes(t)[i - 1] + Bytes(t[i].flash)[k]
         /\ TestBytes(t)[i - 1] <= FlashStart(t, i, k)
         /\ FlashStart(t, i, k) + t[i].flash[k] <= TestBytes(t)[i]
         /\ TestBytes(t)[i] <= TestBytes(t)[Len(t)]
         /\ TestBytes(t)[i] \in Nat /\ TestBytes(t)[Len(t)] \in Nat
<1> DEFINE flash == t[i].flash
           B == Bytes(flash)
           L == Len(flash)
           T == TestBytes(t)
           N == Len(t)
<1>1. flash \in Seq(Nat) /\ t[i] \in Operations
  BY TestTyped
<1>2. /\ L \in Nat /\ B \in [0..L -> Nat]
      /\ \A n \in 1..L : flash[n] \in Nat /\ B[n] = B[n - 1] + flash[n] /\ B[n - 1] <= B[n]
  BY <1>1, OperationBytes
<1>3. /\ N \in Nat /\ T \in [0..N -> Nat]
      /\ \A n \in 1..N : T[n] = T[n - 1] + OpBytes(t[n]) /\ T[n - 1] <= T[n]
  BY TestTyped, TestBytesDef
<1>4. OpBytes(t[i]) = B[L]
  BY DEF OpBytes
<1>5. T[i - 1] % WriteSize = 0 /\ B[k - 1] % WriteSize = 0
  <2>1. i - 1 \in 0..Len(t) /\ k - 1 \in 0..Len(t[i].flash)
    BY <1>2, <1>3
  <2> QED BY <2>1, Aligned
<1> HIDE DEF flash, B, L, T, N
<1>6. i \in 1..N /\ k \in 1..L
  BY DEF flash, L, N
<1>7. i - 1 \in 0..N /\ i \in 0..N /\ k - 1 \in 0..L /\ k \in 0..L /\ L \in 0..L /\ N \in 0..N
  BY <1>2, <1>3, <1>6
<1>8. T[i - 1] \in Nat /\ T[i] \in Nat /\ T[N] \in Nat
  BY <1>3, <1>7
<1>9. B[k - 1] \in Nat /\ B[k] \in Nat /\ B[L] \in Nat
  BY <1>2, <1>7
<1>10. B[k] <= B[L]
  <2>1. \A n \in 1..L : B[n - 1] <= B[n]
    BY <1>2
  <2>2. B \in [0..L -> Nat] /\ k <= L
    BY <1>2, <1>6
  <2> QED BY <1>2, <1>7, <2>1, <2>2, Grows
<1>11. T[i] <= T[N]
  <2>1. \A n \in 1..N : T[n - 1] <= T[n]
    BY <1>3
  <2>2. T \in [0..N -> Nat] /\ i <= N
    BY <1>3, <1>6
  <2> QED BY <1>3, <1>7, <2>1, <2>2, Grows
<1>12. flash[k] \in Nat /\ B[k] = B[k - 1] + flash[k]
  BY <1>2, <1>6
<1>13. T[i] = T[i - 1] + B[L]
  BY <1>3, <1>4, <1>6
<1>14. (T[i - 1] + B[k - 1]) % WriteSize = 0
  BY <1>5, <1>8, <1>9, MultipleSum, WriteSizeAssumption
<1>15. FlashStart(t, i, k) = T[i - 1] + B[k - 1]
  BY DEF FlashStart, T, B, flash
<1> DEFINE s == FlashStart(t, i, k)
<1>16. /\ s \in Nat /\ s % WriteSize = 0
       /\ s + flash[k] = T[i - 1] + B[k]
       /\ T[i - 1] <= s
       /\ s + flash[k] <= T[i]
  <2> HIDE DEF s
  <2>1. s = T[i - 1] + B[k - 1]
    BY <1>15 DEF s
  <2>2. s \in Nat /\ s % WriteSize = 0
    BY <1>8, <1>9, <1>14, <2>1
  <2>3. s + flash[k] = T[i - 1] + B[k] /\ T[i - 1] <= s
    <3>1. \A x, y, z \in Nat : (x + y) + z = x + (y + z) /\ x <= x + y
      OBVIOUS
    <3>2. (T[i - 1] + B[k - 1]) + flash[k] = T[i - 1] + (B[k - 1] + flash[k])
          /\ T[i - 1] <= T[i - 1] + B[k - 1]
      BY <1>8, <1>9, <1>12, <3>1
    <3> QED BY <1>12, <2>1, <3>2
  <2>4. T[i - 1] + B[k] <= T[i]
    BY <1>8, <1>9, <1>10, <1>13
  <2> QED BY <2>2, <2>3, <2>4
<1> QED BY <1>8, <1>11, <1>12, <1>16 DEF flash, B, L, T, N

(* Two flash operations of a test have no byte in common.                  *)
LEMMA FlashApart ==
  ASSUME NEW t \in Tests,
         NEW i \in 1..Len(t), NEW k \in 1..Len(t[i].flash),
         NEW j \in 1..Len(t), NEW m \in 1..Len(t[j].flash),
         i < j \/ (i = j /\ k < m)
  PROVE  FlashStart(t, i, k) + t[i].flash[k] <= FlashStart(t, j, m)
<1>1. CASE i < j
  <2> DEFINE T == TestBytes(t)
             N == Len(t)
  <2>1. /\ N \in Nat /\ T \in [0..N -> Nat]
        /\ \A n \in 1..N : T[n - 1] <= T[n]
    BY TestTyped, TestBytesDef
  <2>2. /\ FlashStart(t, i, k) + t[i].flash[k] <= T[i] /\ T[i] \in Nat
        /\ T[j - 1] <= FlashStart(t, j, m)
        /\ FlashStart(t, i, k) \in Nat /\ t[i].flash[k] \in Nat /\ FlashStart(t, j, m) \in Nat
    BY FlashInside
  <2>3. i \in 0..N /\ j - 1 \in 0..N /\ i <= j - 1
    BY <1>1, <2>1
  <2> HIDE DEF T, N
  <2>4. T[i] <= T[j - 1] /\ T[j - 1] \in Nat
    BY <2>1, <2>3, Grows
  <2>5. \A x, y, u, v, z \in Nat : x + y <= u /\ u <= v /\ v <= z => x + y <= z
    OBVIOUS
  <2> QED BY <2>2, <2>4, <2>5, Zenon
<1>2. CASE i = j /\ k < m
  <2> DEFINE flash == t[i].flash
             B == Bytes(flash)
             L == Len(flash)
  <2>1. flash \in Seq(Nat)
    BY TestTyped
  <2>2. /\ L \in Nat /\ B \in [0..L -> Nat]
        /\ \A n \in 1..L : B[n - 1] <= B[n]
    BY <2>1, OperationBytes
  <2>3. /\ FlashStart(t, i, k) + t[i].flash[k] = TestBytes(t)[i - 1] + B[k]
        /\ FlashStart(t, j, m) = TestBytes(t)[i - 1] + B[m - 1]
    BY <1>2, FlashInside DEF FlashStart
  <2>4. TestBytes(t)[i - 1] \in Nat
    <3>1. i - 1 \in 0..Len(t)
      BY TestTyped
    <3> QED BY <3>1, TestTyped, TestBytesDef
  <2>5. k \in 0..L /\ m - 1 \in 0..L /\ k <= m - 1
    BY <1>2, <2>2
  <2> HIDE DEF B, L
  <2>6. B[k] <= B[m - 1] /\ B[k] \in Nat /\ B[m - 1] \in Nat
    BY <2>2, <2>5, Grows
  <2> QED BY <2>3, <2>4, <2>6
<1> QED BY <1>1, <1>2

(* Every byte of a test belongs to a flash operation.                      *)
LEMMA ByteLocated ==
  ASSUME NEW t \in Tests, NEW p \in Nat, p < TestBytes(t)[Len(t)]
  PROVE  \E i \in 1..Len(t) : \E k \in 1..Len(t[i].flash) :
           FlashStart(t, i, k) <= p /\ p < FlashStart(t, i, k) + t[i].flash[k]
<1> DEFINE T == TestBytes(t)
           N == Len(t)
<1>1. /\ N \in Nat /\ T \in [0..N -> Nat] /\ T[0] = 0
      /\ \A n \in 1..N : T[n] = T[n - 1] + OpBytes(t[n])
  BY TestTyped, TestBytesDef
<1>2. p < T[N]
  OBVIOUS
<1> HIDE DEF T, N
<1>3. PICK i \in 1..N : T[i - 1] <= p /\ p < T[i]
  BY <1>1, <1>2, Locate
<1> DEFINE flash == t[i].flash
           B == Bytes(flash)
           L == Len(flash)
           q == p - T[i - 1]
<1>4. flash \in Seq(Nat)
  BY TestTyped DEF N
<1>5. /\ L \in Nat /\ B \in [0..L -> Nat] /\ B[0] = 0
  BY <1>4, OperationBytes
<1>6. B[L] = OpBytes(t[i])
  BY DEF OpBytes
<1> HIDE DEF flash, B, L
<1>7. T[i - 1] \in Nat /\ B[L] \in Nat
  <2>1. i - 1 \in 0..N /\ L \in 0..L
    BY <1>1, <1>5
  <2> QED BY <1>1, <1>5, <2>1
<1>8. T[i] = T[i - 1] + B[L]
  BY <1>1, <1>6
<1>9. q \in Nat /\ q < B[L]
  BY <1>3, <1>7, <1>8
<1> HIDE DEF q
<1>10. PICK k \in 1..L : B[k - 1] <= q /\ q < B[k]
  BY <1>5, <1>9, Locate
<1>11. i \in 1..Len(t) /\ k \in 1..Len(t[i].flash)
  BY DEF N, L, flash
<1>12. /\ FlashStart(t, i, k) = T[i - 1] + B[k - 1]
       /\ FlashStart(t, i, k) + t[i].flash[k] = T[i - 1] + B[k]
  BY <1>11, FlashInside DEF FlashStart, T, B, flash
<1>13. B[k - 1] \in Nat /\ B[k] \in Nat
  <2>1. k - 1 \in 0..L /\ k \in 0..L
    BY <1>5
  <2> QED BY <1>5, <2>1
<1>14. FlashStart(t, i, k) <= p /\ p < FlashStart(t, i, k) + t[i].flash[k]
  BY <1>7, <1>10, <1>12, <1>13 DEF q
<1> QED BY <1>11, <1>14

-----------------------------------------------------------------------------
(* The inductive invariant.                                                *)

TypeOK ==
  /\ cnt \in Nat /\ stop \in Nat \cup {NoTarget}
  /\ dut \in Tests \cup {<< >>} /\ step \in Nat \ {0}
  /\ todo \in Seq(Nat) /\ formats \in Seq(Areas)
  /\ phase \in {"count", "counted", "sweep"}
  /\ pc \in {"begin", "format", "run", "flash", "caught", "handler_format",
             "over", "abort"}
  /\ target \in Nat /\ max \in Nat /\ ran \in Nat
  /\ err_code \in {"ok", "error", "tearing", "internal"}
  /\ held \in [Areas -> Content \cup {None}]
  /\ open \in Transactions
  /\ nvm_ref \in [Areas -> Content]
  /\ nvm_ref_previous_state \in [Areas -> Content]
  /\ transaction_buf_ref \in [Areas -> Content]
  /\ failed \in {"none", "mixed", "refused", "internal"}

(* The flash operations left are the last ones of the current operation.   *)
TodoLeft ==
  /\ Len(todo) <= Len(Op.flash)
  /\ \A j \in DOMAIN todo : todo[j] = Op.flash[Len(Op.flash) - Len(todo) + j]

(* Where the harness is, whatever the library does.  The emulator is armed *)
(* in a run of the sweep only, and a tearing disarms it.                   *)
Control ==
  /\ dut \in Tests \/ (pc = "begin" /\ ran = 0)
  /\ pc = "run" => step \in 1..(Len(dut) + 1)
  /\ pc = "flash" =>
       step \in DOMAIN dut /\ TodoLeft /\ ~Refused(Op, held, open)
  /\ stop # NoTarget => phase = "sweep" /\ cnt <= stop
  /\ pc = "caught" /\ err_code = "tearing" => stop = NoTarget
  /\ pc = "caught" /\ err_code = "internal" => failed = "internal"
  /\ FormatsUntorn

(* A mixed update differs from both references until the harness aborts.   *)
Mixed ==
  failed = "mixed" =>
    \/ pc = "abort"
    \/ /\ pc = "caught" /\ err_code = "tearing"
       /\ \A a \in Areas : held[a] # None
       /\ ~NvmIsEqual(nvm_ref) /\ ~NvmIsEqual(nvm_ref_previous_state)

(* The buffer of each open transaction is what the area will hold.         *)
BuffersFit(buf, h, o) ==
  \A a \in Areas : o[a] # None => buf[a] = Overlay(h[a], o[a])

(* The test has made its first n calls, and nothing else has happened.     *)
Reached(n) ==
  /\ held = Replay(dut)[n].areas
  /\ open = Replay(dut)[n].open

(* The areas that are not waiting for their format are erased.             *)
Formatting ==
  /\ open = NoTransactions
  /\ \A a \in Areas : \/ held[a] = Erased /\ nvm_ref[a] = Erased
                      \/ \E i \in DOMAIN formats : formats[i] = a

(* How the areas and the references relate.                                *)
Following ==
  /\ pc = "run" =>
       /\ Reached(step - 1)
       /\ nvm_ref = held
       /\ BuffersFit(transaction_buf_ref, held, open)
  /\ pc = "flash" =>
       /\ Reached(step - 1)
       /\ Passes(Op, held, open) /\ Op.kind \notin {"sanity", "verify"}
       /\ nvm_ref = Goal
       /\ nvm_ref_previous_state = held \/ Goal = held
       /\ BuffersFit(transaction_buf_ref, Goal, NewTransactions)
  /\ pc = "caught" =>
       \/ NvmIsEqual(nvm_ref)
       \/ NvmIsEqual(nvm_ref_previous_state)
  /\ pc \in {"format", "handler_format"} => Formatting
  /\ pc \in {"begin", "over"} => open = NoTransactions
  /\ pc = "over" /\ phase = "count" => held = nvm_ref
  /\ pc = "over" /\ phase = "sweep" /\ target < max =>
       held = AllErased /\ nvm_ref = AllErased

(* Where in the sweep the harness may be, and what the emulator counts.    *)
Counting ==
  /\ pc # "abort" /\ err_code \in {"ok", "tearing"}
  /\ pc = "begin" => ran = 0 \/ (phase = "sweep" /\ target = max)
  /\ pc \in {"run", "flash", "over"} => phase # "counted"
  /\ pc = "format" => phase # "sweep"
  /\ pc \in {"caught", "handler_format"} => phase = "sweep" /\ target < max
  /\ pc = "caught" => err_code = "tearing"
  /\ pc = "run" => cnt = TestBytes(dut)[step - 1]
  /\ pc = "flash" => cnt = Before
  /\ pc = "over" /\ phase = "count" => cnt = Total
  /\ phase # "count" => max * WriteSize = Total
  /\ phase = "sweep" => target <= max

(* The targets at which the test was torn are the first n.                 *)
Tried ==
  IF pc \in {"caught", "handler_format"} \/ (pc = "over" /\ target < max)
    THEN target + 1 ELSE target

(* The flash operations that start before one of them are inverted whole.  *)
Inverted(n) ==
  \A i \in DOMAIN dut : \A k \in DOMAIN dut[i].flash :
    FlashStart(dut, i, k) < n * WriteSize =>
      FlashStart(dut, i, k)..(FlashStart(dut, i, k) + dut[i].flash[k] - 1)
        \subseteq spoiled

Sweeping ==
  /\ phase # "sweep" => torn = {} /\ spoiled = {}
  /\ phase = "sweep" =>
       /\ pc \in {"run", "flash"} => stop = target * WriteSize
       /\ torn = 0..(Tried - 1)
       /\ Inverted(Tried)
       /\ spoiled \subseteq 0..(Total - 1)

Kept == Following /\ Counting /\ Sweeping

IInv ==
  /\ TypeOK /\ Control /\ Mixed
  /\ failed = "none" => Kept


-----------------------------------------------------------------------------
(* Types and control.                                                      *)

LEMMA AreasExist == FirstArea \in Areas /\ AreaSeq \in Seq(Areas)
<1>1. AreaSeq \in Seq(Areas) /\ AreaSeq # << >>
  BY ConstantsAssumption
<1>2. 1 \in DOMAIN AreaSeq
  BY <1>1, LenProperties, EmptySeq
<1> QED BY <1>1, <1>2 DEF FirstArea, Areas

LEMMA OpTyped ==
  ASSUME TypeOK, step \in DOMAIN dut
  PROVE  /\ dut \in Tests /\ step \in 1..Len(dut) /\ Len(dut) \in Nat
         /\ Op \in Operations /\ Op.area \in Areas /\ Op.writes \in Partial
         /\ Op.flash \in Seq(Nat)
<1>1. dut # << >>
  OBVIOUS
<1>2. dut \in Tests
  BY <1>1 DEF TypeOK
<1>3. step \in 1..Len(dut) /\ Len(dut) \in Nat
  BY <1>2, TestTyped
<1>4. Op \in Operations
  BY <1>2, <1>3, TestTyped DEF Op
<1> QED BY <1>2, <1>3, <1>4, OperationTyped

LEMMA GoalTyped ==
  ASSUME TypeOK, step \in DOMAIN dut, ~Refused(Op, held, open)
  PROVE  /\ Goal \in [Areas -> Content \cup {None}]
         /\ NewTransactions \in Transactions
<1>1. Op \in Operations /\ Op.area \in Areas
  BY OpTyped
<1>2. held \in [Areas -> Content \cup {None}] /\ open \in Transactions
  BY DEF TypeOK
<1>3. Op.kind \in {"write", "commit"} => held[Op.area] \in Content
  BY <1>1, <1>2 DEF Refused
<1>4. Goal \in [Areas -> Content \cup {None}]
  BY <1>1, <1>2, <1>3, ResultTyped DEF Goal
<1> QED BY <1>1, <1>2, <1>4, OpenedTyped DEF NewTransactions

LEMMA WrapTyped ==
  ASSUME TypeOK, step \in DOMAIN dut, Wrap
  PROVE  /\ nvm_ref' \in [Areas -> Content]
         /\ nvm_ref_previous_state' \in [Areas -> Content]
         /\ transaction_buf_ref' \in [Areas -> Content]
<1> DEFINE a == Op.area
<1>1. a \in Areas /\ Op.writes \in Partial
  BY OpTyped
<1>2. /\ nvm_ref \in [Areas -> Content]
      /\ nvm_ref_previous_state \in [Areas -> Content]
      /\ transaction_buf_ref \in [Areas -> Content]
  BY DEF TypeOK
<1>3. /\ nvm_ref[a] \in Content /\ transaction_buf_ref[a] \in Content
      /\ Overlay(nvm_ref[a], Op.writes) \in Content
      /\ Overlay(transaction_buf_ref[a], Op.writes) \in Content
      /\ Erased \in Content /\ FirstArea \in Areas
  BY <1>1, <1>2, OverlayTyped, ErasedTyped, AreasExist
<1>4. CASE RefWrite
  BY <1>2, <1>3, <1>4 DEF RefWrite, SaveState
<1>5. CASE RefEraseAll
  BY <1>2, <1>3, <1>5 DEF RefEraseAll, SaveState
<1>6. CASE RefStart
  BY <1>2, <1>3, <1>6 DEF RefStart
<1>7. CASE RefTransactionWrite
  BY <1>2, <1>3, <1>7 DEF RefTransactionWrite
<1>8. CASE RefCommit
  BY <1>2, <1>3, <1>8 DEF RefCommit, SaveState
<1>9. CASE RefRaw
  BY <1>2, <1>9 DEF RefRaw, SaveState
<1>10. CASE UNCHANGED ref
  BY <1>2, <1>10 DEF ref
<1> QED BY <1>4, <1>5, <1>6, <1>7, <1>8, <1>9, <1>10 DEF Wrap

LEMMA TearingTyped ==
  ASSUME TypeOK, NEW size \in Nat, stop # NoTarget => cnt <= stop
  PROVE  /\ TearingSize(size) \in 0..size
         /\ TearingSize(size) = 0 <=> stop = NoTarget \/ cnt + size <= stop
         /\ TearingSize(size) # 0 =>
              stop # NoTarget /\ TearingSize(size) = cnt + size - stop
         /\ Operate(size) =>
              /\ cnt' \in Nat /\ stop' \in Nat \cup {NoTarget}
              /\ stop' # NoTarget => stop' = stop /\ cnt' <= stop'
              /\ TearingSize(size) # 0 => stop' = NoTarget
              /\ TearingSize(size) = 0 => stop' = stop /\ cnt' = cnt + size
<1>1. cnt \in Nat /\ (stop # NoTarget => stop \in Nat)
  BY DEF TypeOK
<1>2. CASE stop = NoTarget
  BY <1>1, <1>2 DEF TearingSize, Operate
<1>3. CASE stop # NoTarget /\ cnt + size <= stop
  BY <1>1, <1>3 DEF TearingSize, Operate
<1>4. CASE stop # NoTarget /\ ~(cnt + size <= stop)
  <2>1. TearingSize(size) = cnt + size - stop
    BY <1>4 DEF TearingSize
  <2>2. TearingSize(size) # 0 /\ TearingSize(size) \in 0..size
    BY <1>1, <1>4, <2>1
  <2>3. Operate(size) => cnt' = 0 /\ stop' = NoTarget
    BY <2>2 DEF Operate, Disarm
  <2> QED BY <1>1, <1>4, <2>1, <2>2, <2>3
<1> QED BY <1>2, <1>3, <1>4

LEMMA HeadTyped ==
  ASSUME NEW S, NEW q \in Seq(S), q # << >>
  PROVE  /\ Head(q) \in S /\ Head(q) = q[1] /\ Tail(q) \in Seq(S)
         /\ Len(q) \in Nat \ {0} /\ DOMAIN q = 1..Len(q)
         /\ Len(Tail(q)) = Len(q) - 1 /\ DOMAIN Tail(q) = 1..(Len(q) - 1)
         /\ \A j \in 1..(Len(q) - 1) : Tail(q)[j] = q[j + 1]
BY HeadTailProperties, LenProperties, EmptySeq

(* The actions that only move the harness.                                 *)
LEMMA MovesTyped ==
  ASSUME TypeOK, Control,
         \/ Begin \/ FunctionalTest \/ Verify \/ Completed \/ HandleError
         \/ HandlerOver \/ StartSweep \/ NextTarget \/ Pass
  PROVE  TypeOK' /\ Control'
<1>1. AreaSeq \in Seq(Areas) /\ WriteSize \in Nat
  BY AreasExist, WriteSizeAssumption
<1>2. CASE Begin
  <2>1. TypeOK'
    BY <1>1, <1>2 DEF Begin, Disarm, TypeOK, ref
  <2> QED BY <1>2, <2>1 DEF Begin, Disarm, Control, FormatsUntorn
<1>3. CASE FunctionalTest
  <2>1. TypeOK'
    BY <1>3 DEF FunctionalTest, Disarm, TypeOK, ref, loop, history
  <2>2. dut \in Tests
    BY <1>3 DEF FunctionalTest, Control
  <2>3. 1 \in 1..(Len(dut) + 1)
    BY <2>2, TestTyped
  <2> QED BY <1>3, <2>1, <2>2, <2>3 DEF FunctionalTest, Disarm, Control, FormatsUntorn, loop, history
<1>4. CASE Verify
  <2>1. /\ step \in Nat \ {0} /\ step <= Len(dut) /\ pc = "run" /\ dut \in Tests
        /\ \/ step' = step + 1 /\ UNCHANGED <<pc, err_code>>
           \/ err_code' = "error" /\ pc' = "caught" /\ UNCHANGED step
    BY <1>4 DEF Verify, Throw, TypeOK, Control
  <2>2. /\ UNCHANGED <<cnt, stop, loop, todo, formats, held, open, ref, history>>
    BY <1>4 DEF Verify
  <2>3. TypeOK'
    BY <2>1, <2>2 DEF TypeOK, loop, ref, history
  <2>4. pc' = "run" => step' \in 1..(Len(dut') + 1)
    BY <2>1, <2>2, TestTyped DEF loop
  <2> QED BY <2>1, <2>2, <2>3, <2>4 DEF Control, FormatsUntorn, loop, history
<1>5. CASE Completed
  <2>1. TypeOK'
    BY <1>5 DEF Completed, TypeOK, loop, ref, history
  <2> QED BY <1>5, <2>1 DEF Completed, Control, FormatsUntorn, loop, history
<1>6. CASE HandleError
  <2>1. TypeOK'
    BY <1>6 DEF HandleError, TypeOK, loop, ref, history
  <2> QED BY <1>6, <2>1 DEF HandleError, Control, FormatsUntorn, loop, history
<1>7. CASE HandlerOver
  <2>1. TypeOK'
    BY <1>7 DEF HandlerOver, TypeOK, loop, ref, history
  <2> QED BY <1>7, <2>1 DEF HandlerOver, Control, FormatsUntorn, loop, history
<1>8. CASE StartSweep
  <2>1. cnt' = 0 /\ stop' = 0 * WriteSize /\ target' = 0
    BY <1>8 DEF StartSweep, SetTarget
  <2>2. stop' = 0
    BY <1>1, <2>1
  <2>3. TypeOK'
    BY <1>8, <2>1, <2>2 DEF StartSweep, TypeOK, ref, history
  <2>4. dut \in Tests
    BY <1>8 DEF StartSweep, Control
  <2>5. 1 \in 1..(Len(dut) + 1)
    BY <2>4, TestTyped
  <2> QED BY <1>8, <2>1, <2>2, <2>3, <2>4, <2>5 DEF StartSweep, Control, FormatsUntorn, history
<1>9. CASE NextTarget
  <2>1. cnt' = 0 /\ stop' = (target + 1) * WriteSize /\ target' = target + 1
    BY <1>9 DEF NextTarget, SetTarget
  <2>2. stop' \in Nat
    BY <1>1, <2>1 DEF TypeOK
  <2>3. TypeOK'
    BY <1>9, <2>1, <2>2 DEF NextTarget, TypeOK, ref, history
  <2>4. dut \in Tests
    BY <1>9 DEF NextTarget, Control
  <2>5. 1 \in 1..(Len(dut) + 1)
    BY <2>4, TestTyped
  <2> QED BY <1>9, <2>1, <2>2, <2>3, <2>4, <2>5 DEF NextTarget, Control, FormatsUntorn, history
<1>10. CASE Pass
  <2>1. TypeOK' /\ pc' = "begin" /\ UNCHANGED <<cnt, stop, dut, phase>> /\ dut \in Tests
    BY <1>10 DEF Pass, TypeOK, ref, history, Control
  <2> QED BY <2>1 DEF Control, FormatsUntorn
<1> QED BY <1>2, <1>3, <1>4, <1>5, <1>6, <1>7, <1>8, <1>9, <1>10

(* The actions that compare the areas with the references.                 *)
LEMMA ChecksTyped ==
  ASSUME TypeOK, Control, HandleTearing \/ Counted
  PROVE  TypeOK' /\ Control'
<1>1. AreaSeq \in Seq(Areas) /\ NoTransactions \in Transactions
  BY AreasExist, ErasedTyped
<1>2. CASE HandleTearing
  <2>1. /\ pc = "caught" /\ err_code \in {"tearing", "internal"}
        /\ open' = NoTransactions /\ formats' = AreaSeq
        /\ \/ err_code' = "error" /\ pc' = "caught"
           \/ pc' \in {"handler_format", "abort"} /\ UNCHANGED err_code
        /\ UNCHANGED <<cnt, stop, loop, step, todo, held, ref, history>>
    BY <1>2 DEF HandleTearing, CheckNvm, Throw
  <2>2. TypeOK'
    BY <1>1, <2>1 DEF TypeOK, loop, ref, history
  <2> QED BY <2>1, <2>2 DEF Control, FormatsUntorn, loop, history
<1>3. CASE Counted
  <2>1. /\ pc = "over" /\ phase = "count"
        /\ open' = NoTransactions
        /\ \/ /\ err_code' = "error" /\ pc' = "caught"
              /\ UNCHANGED <<max, phase, formats>>
           \/ /\ pc' \in {"format", "abort"} /\ UNCHANGED err_code
              /\ max' = MaxTarget /\ phase' = "counted" /\ formats' = AreaSeq
        /\ UNCHANGED <<cnt, stop, dut, target, ran, step, todo, held, ref, history>>
    BY <1>3 DEF Counted, CheckNvm, Throw
  <2>2. MaxTarget \in Nat
    <3>1. cnt \in Nat
      BY DEF TypeOK
    <3>2. \A w \in Nat \ {0} : cnt \div w \in Nat
      BY <3>1
    <3> QED BY <3>2, WriteSizeAssumption DEF MaxTarget
  <2>3. TypeOK'
    BY <1>1, <2>1, <2>2 DEF TypeOK, ref, history
  <2> QED BY <2>1, <2>3 DEF Control, FormatsUntorn, history
<1> QED BY <1>2, <1>3

LEMMA FormatTyped ==
  ASSUME TypeOK, Control, Format
  PROVE  TypeOK' /\ Control'
<1> DEFINE a == Head(formats)
<1>1. formats \in Seq(Areas) /\ formats # << >> /\ a \in Areas /\ Tail(formats) \in Seq(Areas)
  BY HeadTyped DEF Format, TypeOK
<1>2. FormatBytes \in Nat /\ (stop # NoTarget => cnt <= stop) /\ Operate(FormatBytes)
  BY ConstantsAssumption DEF Control, Format
<1>3. /\ cnt' \in Nat /\ stop' \in Nat \cup {NoTarget}
      /\ stop' # NoTarget => stop' = stop /\ cnt' <= stop'
      /\ TearingSize(FormatBytes) # 0 => stop' = NoTarget
      /\ TearingSize(FormatBytes) = 0 => stop' = stop
  BY <1>2, TearingTyped
<1>4. UNCHANGED <<loop, step, todo, open, nvm_ref_previous_state, transaction_buf_ref, history>>
  BY DEF Format
<1>5. pc \in {"format", "handler_format"}
  BY DEF Format
<1>6. CASE TearingSize(FormatBytes) = 0
  <2>1. /\ held' = [held EXCEPT ![a] = Erased]
        /\ nvm_ref' = [nvm_ref EXCEPT ![a] = Erased]
        /\ formats' = Tail(formats)
        /\ UNCHANGED <<pc, err_code>>
    BY <1>6 DEF Format
  <2>2. TypeOK'
    BY <1>1, <1>3, <1>4, <2>1, ErasedTyped DEF TypeOK, loop, history
  <2> QED BY <1>3, <1>4, <1>5, <1>6, <2>1, <2>2 DEF Control, FormatsUntorn, loop, history
<1>7. CASE TearingSize(FormatBytes) # 0
  <2>1. /\ \E c \in {None, Erased} : held' = [held EXCEPT ![a] = c]
        /\ formats' = << >> /\ err_code' = "tearing" /\ pc' = "caught"
        /\ UNCHANGED nvm_ref
    BY <1>7 DEF Format, Throw
  <2>2. formats' \in Seq(Areas) /\ held' \in [Areas -> Content \cup {None}]
    BY <1>1, <2>1, ErasedTyped DEF TypeOK
  <2>3. TypeOK'
    BY <1>3, <1>4, <2>1, <2>2 DEF TypeOK, loop, history
  <2> QED BY <1>3, <1>4, <1>5, <1>7, <2>1, <2>3 DEF Control, FormatsUntorn, loop, history
<1> QED BY <1>6, <1>7

LEMMA CallTyped ==
  ASSUME TypeOK, Control, Call
  PROVE  TypeOK' /\ Control'
<1>1. pc = "run" /\ step \in DOMAIN dut /\ dut \in Tests
  <2>1. pc = "run" /\ step <= Len(dut) /\ step \in Nat \ {0} /\ dut \in Tests
    BY DEF Call, Control, TypeOK
  <2> QED BY <2>1, TestTyped
<1>2. Op.flash \in Seq(Nat)
  BY <1>1, OpTyped
<1>3. /\ nvm_ref' \in [Areas -> Content]
      /\ nvm_ref_previous_state' \in [Areas -> Content]
      /\ transaction_buf_ref' \in [Areas -> Content]
  BY <1>1, WrapTyped DEF Call
<1>4. UNCHANGED <<cnt, stop, loop, step, formats, held, open, torn, spoiled>>
  BY DEF Call
<1>5. \/ ~Refuses /\ pc' = "flash" /\ todo' = Op.flash /\ UNCHANGED <<err_code, failed>>
      \/ /\ pc' = "caught" /\ UNCHANGED todo
         /\ \/ err_code' = "error" /\ failed' \in {failed, "refused"}
               /\ (failed' = "refused" => failed \in {"none", "refused"})
            \/ err_code' = "internal" /\ failed' = "internal"
  BY DEF Call, Throw, CanFail
<1>6. TypeOK'
  BY <1>2, <1>3, <1>4, <1>5 DEF TypeOK, loop
<1>7. pc' = "flash" => step' \in DOMAIN dut' /\ TodoLeft' /\ ~Refused(Op, held, open)'
  <2> SUFFICES ASSUME pc' = "flash"
               PROVE  step' \in DOMAIN dut' /\ TodoLeft' /\ ~Refused(Op, held, open)'
    OBVIOUS
  <2>1. ~Refuses /\ todo' = Op.flash
    BY <1>5
  <2>2. Op' = Op /\ held' = held /\ open' = open /\ dut' = dut /\ step' = step
    BY <1>4 DEF Op, loop
  <2>3. Len(Op.flash) \in Nat /\ DOMAIN Op.flash = 1..Len(Op.flash)
    BY <1>2, LenProperties
  <2>4. TodoLeft'
    BY <2>1, <2>2, <2>3 DEF TodoLeft
  <2> QED BY <1>1, <2>1, <2>2, <2>4 DEF Refuses
<1> QED BY <1>1, <1>4, <1>5, <1>6, <1>7 DEF Control, FormatsUntorn, loop

LEMMA FlashOperationTyped ==
  ASSUME TypeOK, Control, FlashOperation
  PROVE  TypeOK' /\ Control'
<1> DEFINE size == Head(todo)
<1>1. pc = "flash" /\ todo \in Seq(Nat) /\ todo # << >> /\ step \in DOMAIN dut
      /\ TodoLeft /\ ~Refused(Op, held, open) /\ dut \in Tests
  BY DEF FlashOperation, TypeOK, Control
<1>2. /\ size \in Nat /\ Tail(todo) \in Seq(Nat) /\ Len(todo) \in Nat \ {0}
      /\ DOMAIN todo = 1..Len(todo)
      /\ Len(Tail(todo)) = Len(todo) - 1 /\ DOMAIN Tail(todo) = 1..(Len(todo) - 1)
      /\ \A j \in 1..(Len(todo) - 1) : Tail(todo)[j] = todo[j + 1]
  BY <1>1, HeadTyped
<1>3. Operate(size) /\ (stop # NoTarget => cnt <= stop)
  BY DEF FlashOperation, Control
<1> HIDE DEF size
<1>4. /\ cnt' \in Nat /\ stop' \in Nat \cup {NoTarget}
      /\ stop' # NoTarget => stop' = stop /\ cnt' <= stop'
      /\ TearingSize(size) # 0 => stop' = NoTarget
      /\ TearingSize(size) = 0 => stop' = stop
  BY <1>2, <1>3, TearingTyped
<1>5. UNCHANGED <<loop, step, formats, open, ref>>
  BY DEF FlashOperation
<1>6. CASE TearingSize(size) = 0
  <2>1. todo' = Tail(todo) /\ UNCHANGED <<pc, err_code, held, history>>
    BY <1>6 DEF FlashOperation, size
  <2>2. TypeOK'
    BY <1>2, <1>4, <1>5, <2>1 DEF TypeOK, loop, ref, history
  <2>3. Op' = Op /\ held' = held /\ open' = open /\ dut' = dut /\ step' = step
    BY <1>5, <2>1 DEF Op, loop
  <2>4. Len(Op.flash) \in Nat
    BY <1>1, OpTyped, LenProperties
  <2>5. TodoLeft'
    <3>1. Len(Tail(todo)) <= Len(Op.flash)
      BY <1>1, <1>2, <2>4 DEF TodoLeft
    <3>2. ASSUME NEW j \in DOMAIN Tail(todo)
          PROVE  Tail(todo)[j] = Op.flash[Len(Op.flash) - Len(Tail(todo)) + j]
      <4>1. j + 1 \in DOMAIN todo /\ Tail(todo)[j] = todo[j + 1]
        BY <1>2
      <4>2. todo[j + 1] = Op.flash[Len(Op.flash) - Len(todo) + (j + 1)]
        BY <1>1, <4>1 DEF TodoLeft
      <4>3. Len(Op.flash) - Len(todo) + (j + 1) = Len(Op.flash) - Len(Tail(todo)) + j
        <5> DEFINE x == Len(Op.flash)
                   n == Len(todo)
                   m == Len(Tail(todo))
        <5>1. x \in Nat /\ n \in Nat /\ m \in Nat /\ j \in Nat /\ m = n - 1
          BY <1>2, <2>4
        <5> HIDE DEF x, n, m
        <5>2. x - n + (j + 1) = x - m + j
          BY <5>1
        <5> QED BY <5>2 DEF x, n, m
      <4> QED BY <4>1, <4>2, <4>3
    <3> QED BY <2>1, <2>3, <3>1, <3>2 DEF TodoLeft
  <2> QED BY <1>1, <1>4, <1>5, <1>6, <2>1, <2>2, <2>3, <2>5
          DEF Control, FormatsUntorn, loop, history
<1>7. CASE TearingSize(size) # 0
  <2>1. /\ todo' = << >> /\ err_code' = "tearing" /\ pc' = "caught"
        /\ \/ held' \in {held, Goal} /\ UNCHANGED failed
           \/ held' \in Mixtures /\ failed' = "mixed"
    BY <1>7 DEF FlashOperation, Throw, size
  <2>2. Goal \in [Areas -> Content \cup {None}]
    BY <1>1, GoalTyped
  <2>3. Mixtures \subseteq [Areas -> Content \cup {None}]
    BY DEF Mixtures, TypeOK
  <2>4. held' \in [Areas -> Content \cup {None}] /\ todo' \in Seq(Nat)
    BY <2>1, <2>2, <2>3 DEF TypeOK
  <2>5. TypeOK'
    BY <1>4, <1>5, <2>1, <2>4 DEF TypeOK, loop, ref
  <2> QED BY <1>1, <1>4, <1>5, <1>7, <2>1, <2>5 DEF Control, FormatsUntorn, loop
<1> QED BY <1>6, <1>7

LEMMA ReturnTyped ==
  ASSUME TypeOK, Control, Return
  PROVE  TypeOK' /\ Control'
<1>1. /\ pc = "flash" /\ step \in DOMAIN dut /\ dut \in Tests /\ ~Refused(Op, held, open)
      /\ held' = Goal /\ open' = NewTransactions /\ step' = step + 1 /\ pc' = "run"
      /\ UNCHANGED <<cnt, stop, loop, todo, formats, err_code, ref, history>>
  BY DEF Return, Control
<1>2. Goal \in [Areas -> Content \cup {None}] /\ NewTransactions \in Transactions
  BY <1>1, GoalTyped
<1>3. TypeOK'
  BY <1>1, <1>2 DEF TypeOK, loop, ref, history
<1>4. step + 1 \in 1..(Len(dut) + 1)
  BY <1>1, OpTyped
<1> QED BY <1>1, <1>3, <1>4 DEF Control, FormatsUntorn, loop, history

LEMMA NextTyped ==
  ASSUME TypeOK, Control, [Next]_vars
  PROVE  TypeOK' /\ Control'
<1>1. CASE Next
  BY <1>1, MovesTyped, ChecksTyped, FormatTyped, CallTyped, FlashOperationTyped,
     ReturnTyped DEF Next
<1>2. CASE UNCHANGED vars
  <2>1. Op' = Op
    BY <1>2 DEF vars, Op, loop
  <2> QED BY <1>2, <2>1 DEF vars, loop, ref, history, TypeOK, Control, FormatsUntorn, TodoLeft
<1> QED BY <1>1, <1>2

LEMMA InitTyped == Init => TypeOK /\ Control
<1> SUFFICES ASSUME Init PROVE TypeOK /\ Control
  OBVIOUS
<1>1. AllErased \in [Areas -> Content \cup {None}] /\ AllErased \in [Areas -> Content]
      /\ NoTransactions \in Transactions
  BY ErasedTyped
<1>2. << >> \in Seq(Nat) /\ << >> \in Seq(Areas)
  OBVIOUS
<1> QED BY <1>1, <1>2 DEF Init, TypeOK, Control, FormatsUntorn

(* No format is torn: the emulator is disarmed by the tearing or before the*)
(* first run, unless LFTL_INTERNAL_ERROR was taken for a tearing.          *)
THEOREM FormatsNotTorn == Spec => []FormatsUntorn
<1>1. Init => TypeOK /\ Control
  BY InitTyped
<1>2. TypeOK /\ Control /\ [Next]_vars => (TypeOK /\ Control)'
  BY NextTyped
<1>3. Control => FormatsUntorn
  BY DEF Control
<1> QED BY <1>1, <1>2, <1>3, PTL DEF Spec

-----------------------------------------------------------------------------
(* Following the test: a library that keeps its promise.                   *)

(* Between the calls and in them the areas are where the replay is, and the*)
(* call being made is the next one of the replay.                          *)
LEMMA AtOperation ==
  ASSUME TypeOK, Control, step \in DOMAIN dut, Reached(step - 1)
  PROVE  /\ dut \in Tests /\ step \in 1..Len(dut) /\ Len(dut) \in Nat
         /\ held \in [Areas -> Content] /\ open \in Transactions
         /\ Passes(Op, held, open)
         /\ Replay(dut)[step] = [areas |-> Goal, open |-> NewTransactions]
<1>1. dut \in Tests /\ step \in 1..Len(dut) /\ Len(dut) \in Nat
  BY OpTyped
<1>2. dut \in Seq(Operations) /\ Legal(dut) /\ DOMAIN dut = 1..Len(dut)
  BY <1>1, TestTyped
<1>3. /\ \A n \in 0..Len(dut) : Replay(dut)[n] \in States
      /\ Replay(dut)[step] =
           [areas |-> Result(dut[step], Replay(dut)[step - 1].areas, Replay(dut)[step - 1].open),
            open  |-> Opened(dut[step], Replay(dut)[step - 1].areas, Replay(dut)[step - 1].open)]
  BY <1>1, <1>2, ReplayDef
<1>4. held = Replay(dut)[step - 1].areas /\ open = Replay(dut)[step - 1].open
  BY DEF Reached
<1>5. Replay(dut)[step - 1] \in States
  BY <1>1, <1>3
<1>6. held \in [Areas -> Content] /\ open \in Transactions
  BY <1>4, <1>5 DEF States
<1>7. Passes(dut[step], Replay(dut)[step - 1].areas, Replay(dut)[step - 1].open)
  BY <1>1, <1>2 DEF Legal
<1> QED BY <1>1, <1>3, <1>4, <1>6, <1>7 DEF Op, Goal, NewTransactions

(* The wrapper brings the references to where the call will bring the areas*)
LEMMA WrapFollows ==
  ASSUME TypeOK, step \in DOMAIN dut, Wrap,
         held \in [Areas -> Content], open \in Transactions,
         Passes(Op, held, open), Op.kind \notin {"sanity", "verify"},
         nvm_ref = held, BuffersFit(transaction_buf_ref, held, open)
  PROVE  /\ nvm_ref' = Goal
         /\ nvm_ref_previous_state' = held \/ Goal = held
         /\ BuffersFit(transaction_buf_ref', Goal, NewTransactions)
<1> DEFINE a == Op.area
           buf == transaction_buf_ref
<1>1. /\ Op \in Operations /\ a \in Areas /\ Op.writes \in Partial
      /\ buf \in [Areas -> Content]
      /\ Op.kind = "erase_all" => a = FirstArea
  <2>1. dut \in Tests /\ step \in 1..Len(dut)
    BY OpTyped
  <2>2. Op.kind = "erase_all" => a = FirstArea
    BY <2>1, TestTyped DEF Op
  <2> QED BY <2>2, OpTyped DEF TypeOK
<1>2. ~Refused(Op, held, open) /\ (Op.kind = "write" => open[a] = None)
  BY DEF Passes
<1>3. /\ Op.kind \in {"start", "erase_all"} => open[a] = None
      /\ Op.kind \in {"transaction_write", "commit"} => open[a] # None
  BY <1>2 DEF Refused
<1>4. \A x \in Areas : open[x] # None => buf[x] = Overlay(held[x], open[x])
  BY DEF BuffersFit
<1>5. CASE Op.kind = "write"
  <2>1. Goal = [held EXCEPT ![a] = Overlay(held[a], Op.writes)]
    BY <1>2, <1>5 DEF Goal, Result
  <2>2. NewTransactions = open
    BY <1>2, <1>5 DEF NewTransactions, Opened
  <2>3. RefWrite
    BY <1>5 DEF Wrap
  <2> QED BY <1>1, <1>2, <1>4, <1>5, <2>1, <2>2, <2>3 DEF RefWrite, SaveState, BuffersFit
<1>6. CASE Op.kind = "erase_all"
  <2>1. Goal = [held EXCEPT ![a] = Erased]
    BY <1>6 DEF Goal, Result
  <2>2. NewTransactions = open
    BY <1>6 DEF NewTransactions, Opened
  <2>3. RefEraseAll
    BY <1>6 DEF Wrap
  <2> QED BY <1>1, <1>3, <1>4, <1>6, <2>1, <2>2, <2>3 DEF RefEraseAll, SaveState, BuffersFit
<1>7. CASE Op.kind = "start"
  <2>1. Goal = held
    BY <1>7 DEF Goal, Result
  <2>2. NewTransactions = [open EXCEPT ![a] = << >>]
    BY <1>7 DEF NewTransactions, Opened
  <2>3. RefStart
    BY <1>7 DEF Wrap
  <2>4. Overlay(held[a], << >>) = held[a]
    BY <1>1, NothingWritten
  <2> QED BY <1>1, <1>4, <1>7, <2>1, <2>2, <2>3, <2>4 DEF RefStart, BuffersFit, Transactions
<1>8. CASE Op.kind = "transaction_write"
  <2>1. Goal = held
    BY <1>8 DEF Goal, Result
  <2>2. NewTransactions = [open EXCEPT ![a] = Joined(open[a], Op.writes)]
    BY <1>3, <1>8 DEF NewTransactions, Opened, Joined
  <2>3. RefTransactionWrite
    BY <1>8 DEF Wrap
  <2>4. open[a] \in Partial /\ held[a] \in Content /\ buf[a] = Overlay(held[a], open[a])
    BY <1>1, <1>3, <1>4, <1>8 DEF Transactions
  <2>5. Overlay(buf[a], Op.writes) = Overlay(held[a], Joined(open[a], Op.writes))
    BY <1>1, <2>4, JoinedTyped
  <2> QED BY <1>1, <1>4, <1>8, <2>1, <2>2, <2>3, <2>5
          DEF RefTransactionWrite, BuffersFit, Transactions
<1>9. CASE Op.kind = "commit"
  <2>1. Goal = [held EXCEPT ![a] = Overlay(held[a], open[a])]
    BY <1>3, <1>9 DEF Goal, Result
  <2>2. NewTransactions = [open EXCEPT ![a] = None]
    BY <1>9 DEF NewTransactions, Opened
  <2>3. RefCommit
    BY <1>9 DEF Wrap
  <2>4. buf[a] = Overlay(held[a], open[a])
    BY <1>1, <1>3, <1>4, <1>9
  <2> QED BY <1>1, <1>4, <1>9, <2>1, <2>2, <2>3, <2>4
          DEF RefCommit, SaveState, BuffersFit, Transactions
<1>10. CASE Op.kind = "raw"
  <2>1. Goal = held /\ NewTransactions = open
    BY <1>10 DEF Goal, Result, NewTransactions, Opened
  <2>2. RefRaw
    BY <1>10 DEF Wrap
  <2> QED BY <1>4, <2>1, <2>2 DEF RefRaw, SaveState, BuffersFit
<1>11. CASE Op.kind = "abort"
  <2>1. Goal = held
    BY <1>11 DEF Goal, Result
  <2>2. NewTransactions = [open EXCEPT ![a] = None]
    BY <1>11 DEF NewTransactions, Opened
  <2>3. UNCHANGED ref
    BY <1>11 DEF Wrap
  <2> QED BY <1>1, <1>4, <2>1, <2>2, <2>3 DEF ref, BuffersFit, Transactions
<1> QED BY <1>5, <1>6, <1>7, <1>8, <1>9, <1>10, <1>11 DEF Wrap

(* The references agree with areas that all hold something.                *)
LEMMA Compared ==
  ASSUME TypeOK, NvmIsEqual(nvm_ref) \/ NvmIsEqual(nvm_ref_previous_state)
  PROVE  ~ReadFails
<1>1. \A a \in Areas : held[a] \in Content
  BY DEF TypeOK, NvmIsEqual
<1>2. \A i \in DOMAIN AreaSeq : AreaSeq[i] \in Areas
  BY DEF Areas
<1> QED BY <1>1, <1>2, ConstantsAssumption DEF ReadFails

(* A run of the test starts with erased areas and no transaction.          *)
LEMMA FreshRun ==
  ASSUME TypeOK, dut \in Tests,
         held = AllErased, nvm_ref = AllErased, open = NoTransactions,
         step' = 1, UNCHANGED <<dut, held, open, ref>>
  PROVE  /\ Reached(step - 1)'
         /\ nvm_ref' = held'
         /\ BuffersFit(transaction_buf_ref, held, open)'
         /\ TestBytes(dut')[step' - 1] = 0
<1>1. dut \in Seq(Operations)
  BY TestTyped
<1>2. TestBytes(dut)[0] = 0
  BY <1>1, TestBytesDef
<1>3. Replay(dut)[0] = [areas |-> AllErased, open |-> NoTransactions]
  BY <1>1, ReplayDef
<1>4. step' - 1 = 0
  OBVIOUS
<1>5. Reached(step - 1)'
  BY <1>3, <1>4 DEF Reached
<1>6. BuffersFit(transaction_buf_ref, held, open)'
  BY DEF BuffersFit, NoTransactions
<1> QED BY <1>2, <1>4, <1>5, <1>6 DEF ref

LEMMA AllFormatted ==
  ASSUME TypeOK, Formatting, formats = << >>
  PROVE  held = AllErased /\ nvm_ref = AllErased /\ open = NoTransactions
<1>1. \A a \in Areas : held[a] = Erased /\ nvm_ref[a] = Erased
  BY DEF Formatting
<1> QED BY <1>1 DEF Formatting, TypeOK, AllErased

LEMMA ToFormat ==
  ASSUME formats' = AreaSeq, open' = NoTransactions
  PROVE  Formatting'
BY DEF Formatting, Areas

LEMMA BeginKept ==
  ASSUME TypeOK, Control, Kept, failed = "none", Begin
  PROVE  Kept'
<1>1. /\ pc' = "format" /\ phase' = "count" /\ torn' = {} /\ spoiled' = {}
      /\ formats' = AreaSeq /\ open' = NoTransactions /\ err_code' = err_code
  BY DEF Begin, Kept, Following
<1>2. Following'
  BY <1>1, ToFormat DEF Following
<1>3. Counting'
  BY <1>1 DEF Kept, Counting
<1>4. Sweeping'
  BY <1>1 DEF Sweeping
<1> QED BY <1>2, <1>3, <1>4 DEF Kept

LEMMA FunctionalTestKept ==
  ASSUME TypeOK, Control, Kept, failed = "none", FunctionalTest
  PROVE  Kept'
<1>1. /\ pc = "format" /\ formats = << >> /\ phase = "count" /\ cnt' = 0
      /\ step' = 1 /\ pc' = "run"
      /\ UNCHANGED <<loop, todo, formats, err_code, held, open, ref, history>>
  BY DEF FunctionalTest, Formatted, Disarm
<1>2. held = AllErased /\ nvm_ref = AllErased /\ open = NoTransactions
  BY <1>1, AllFormatted DEF Kept, Following
<1>3. dut \in Tests
  BY <1>1 DEF Control
<1>4. /\ Reached(step - 1)' /\ nvm_ref' = held'
      /\ BuffersFit(transaction_buf_ref, held, open)' /\ TestBytes(dut')[step' - 1] = 0
  BY <1>1, <1>2, <1>3, FreshRun DEF loop
<1>5. Following'
  BY <1>1, <1>4 DEF Following
<1>6. Counting'
  BY <1>1, <1>4 DEF Kept, Counting, loop
<1>7. Sweeping'
  BY <1>1 DEF Kept, Sweeping, loop, history
<1> QED BY <1>5, <1>6, <1>7 DEF Kept

LEMMA StartSweepKept ==
  ASSUME TypeOK, Control, Kept, failed = "none", StartSweep
  PROVE  Kept'
<1>1. /\ pc = "format" /\ formats = << >> /\ phase = "counted"
      /\ cnt' = 0 /\ stop' = 0 * WriteSize /\ target' = 0 /\ phase' = "sweep"
      /\ step' = 1 /\ pc' = "run"
      /\ UNCHANGED <<dut, max, ran, todo, formats, err_code, held, open, ref, history>>
  BY DEF StartSweep, Formatted, SetTarget
<1>2. held = AllErased /\ nvm_ref = AllErased /\ open = NoTransactions
  BY <1>1, AllFormatted DEF Kept, Following
<1>3. dut \in Tests /\ max \in Nat
  BY <1>1 DEF Control, TypeOK
<1>4. /\ Reached(step - 1)' /\ nvm_ref' = held'
      /\ BuffersFit(transaction_buf_ref, held, open)' /\ TestBytes(dut')[step' - 1] = 0
  BY <1>1, <1>2, <1>3, FreshRun
<1>5. Following'
  BY <1>1, <1>4 DEF Following
<1>6. Counting'
  BY <1>1, <1>3, <1>4 DEF Kept, Counting, Total
<1>7. torn' = {} /\ spoiled' = {} /\ Tried' = 0
  BY <1>1 DEF Kept, Sweeping, history, Tried
<1>8. Inverted(Tried)'
  <2> SUFFICES ASSUME NEW i \in DOMAIN dut', NEW k \in DOMAIN dut'[i].flash,
                      FlashStart(dut', i, k) < Tried' * WriteSize
               PROVE  FALSE
    BY DEF Inverted
  <2>1. dut' = dut /\ i \in 1..Len(dut) /\ k \in 1..Len(dut[i].flash)
    BY <1>1, <1>3, TestTyped
  <2>2. FlashStart(dut, i, k) \in Nat
    BY <1>3, <2>1, FlashInside
  <2>3. Tried' * WriteSize = 0
    BY <1>7, WriteSizeAssumption
  <2> QED BY <2>1, <2>2, <2>3
<1>9. Sweeping'
  BY <1>1, <1>7, <1>8 DEF Sweeping
<1> QED BY <1>5, <1>6, <1>9 DEF Kept

LEMMA NextTargetKept ==
  ASSUME TypeOK, Control, Kept, failed = "none", NextTarget
  PROVE  Kept'
<1>1. /\ pc = "over" /\ phase = "sweep" /\ target < max
      /\ cnt' = 0 /\ stop' = (target + 1) * WriteSize /\ target' = target + 1
      /\ step' = 1 /\ pc' = "run"
      /\ UNCHANGED <<dut, phase, max, ran, todo, formats, err_code, held, open, ref, history>>
  BY DEF NextTarget, SetTarget
<1>2. held = AllErased /\ nvm_ref = AllErased /\ open = NoTransactions
  BY <1>1 DEF Kept, Following
<1>3. dut \in Tests /\ max \in Nat /\ target \in Nat
  BY <1>1 DEF Control, TypeOK
<1>4. /\ Reached(step - 1)' /\ nvm_ref' = held'
      /\ BuffersFit(transaction_buf_ref, held, open)' /\ TestBytes(dut')[step' - 1] = 0
  BY <1>1, <1>2, <1>3, FreshRun
<1>5. Following'
  BY <1>1, <1>4 DEF Following
<1>6. Counting'
  BY <1>1, <1>3, <1>4 DEF Kept, Counting, Total
<1>7. Tried' = Tried
  BY <1>1 DEF Tried
<1>8. Sweeping'
  BY <1>1, <1>7 DEF Kept, Sweeping, Inverted, Total, history
<1> QED BY <1>5, <1>6, <1>8 DEF Kept

LEMMA PassKept ==
  ASSUME TypeOK, Control, Kept, failed = "none", Pass
  PROVE  Kept'
<1>1. /\ pc = "over" /\ phase = "sweep" /\ target = max /\ err_code' = "ok" /\ pc' = "begin"
      /\ UNCHANGED <<cnt, stop, dut, phase, target, max, step, todo, formats, held, open,
                     ref, history>>
  BY DEF Pass
<1>2. Following'
  BY <1>1 DEF Kept, Following
<1>3. Counting'
  BY <1>1 DEF Kept, Counting, Total
<1>4. Tried' = Tried
  BY <1>1 DEF Tried, TypeOK
<1>5. Sweeping'
  BY <1>1, <1>4 DEF Kept, Sweeping, Inverted, Total, history
<1> QED BY <1>2, <1>3, <1>5 DEF Kept

LEMMA HandlerOverKept ==
  ASSUME TypeOK, Control, Kept, failed = "none", HandlerOver
  PROVE  Kept'
<1>1. /\ pc = "handler_format" /\ formats = << >> /\ pc' = "over"
      /\ UNCHANGED <<cnt, stop, loop, step, todo, formats, err_code, held, open, ref, history>>
  BY DEF HandlerOver, Formatted
<1>2. held = AllErased /\ nvm_ref = AllErased /\ open = NoTransactions
  BY <1>1, AllFormatted DEF Kept, Following
<1>3. phase = "sweep" /\ target < max
  BY <1>1 DEF Kept, Counting
<1>4. Following'
  BY <1>1, <1>2, <1>3 DEF Following, loop, ref
<1>5. Counting'
  BY <1>1, <1>3 DEF Kept, Counting, Total, loop
<1>6. Tried' = Tried
  BY <1>1, <1>3 DEF Tried, loop
<1>7. Sweeping'
  BY <1>1, <1>6 DEF Kept, Sweeping, Inverted, Total, loop, history
<1> QED BY <1>4, <1>5, <1>7 DEF Kept

LEMMA HandleTearingKept ==
  ASSUME TypeOK, Control, Kept, failed = "none", HandleTearing
  PROVE  Kept'
<1>1. /\ pc = "caught" /\ open' = NoTransactions /\ formats' = AreaSeq
      /\ UNCHANGED <<cnt, stop, loop, step, todo, held, ref, history>>
  BY DEF HandleTearing, CheckNvm
<1>2. NvmIsEqual(nvm_ref) \/ NvmIsEqual(nvm_ref_previous_state)
  BY <1>1 DEF Kept, Following
<1>3. pc' = "handler_format" /\ UNCHANGED err_code
  BY <1>2, Compared DEF HandleTearing, CheckNvm
<1>4. phase = "sweep" /\ target < max
  BY <1>1 DEF Kept, Counting
<1>5. Following'
  BY <1>1, <1>3, ToFormat DEF Following
<1>6. Counting'
  BY <1>1, <1>3, <1>4 DEF Kept, Counting, Total, loop
<1>7. Tried' = Tried
  BY <1>1, <1>3 DEF Tried, loop
<1>8. Sweeping'
  BY <1>1, <1>3, <1>7 DEF Kept, Sweeping, Inverted, Total, loop, history
<1> QED BY <1>5, <1>6, <1>8 DEF Kept

LEMMA CountedKept ==
  ASSUME TypeOK, Control, Kept, failed = "none", Counted
  PROVE  Kept'
<1>1. /\ pc = "over" /\ phase = "count" /\ open' = NoTransactions
      /\ UNCHANGED <<cnt, stop, dut, target, ran, step, todo, held, ref, history>>
  BY DEF Counted, CheckNvm
<1>2. held = nvm_ref /\ cnt = Total
  BY <1>1 DEF Kept, Following, Counting
<1>3. NvmIsEqual(nvm_ref)
  BY <1>2 DEF NvmIsEqual
<1>4. pc' = "format" /\ UNCHANGED err_code /\ ~ReadFails
  BY <1>3, Compared DEF Counted, CheckNvm
<1>5. max' = MaxTarget /\ phase' = "counted" /\ formats' = AreaSeq
  BY <1>4 DEF Counted
<1>6. max' * WriteSize = Total'
  <2>1. dut \in Tests /\ Total' = Total /\ cnt \in Nat
    BY <1>1 DEF Control, Total, TypeOK
  <2>2. Len(dut) \in 0..Len(dut)
    BY <2>1, TestTyped
  <2>3. cnt % WriteSize = 0
    BY <1>2, <2>1, <2>2, Aligned DEF Total
  <2>4. \A w \in Nat \ {0} : cnt % w = 0 => (cnt \div w) * w = cnt
    BY <2>1
  <2> QED BY <1>2, <1>5, <2>1, <2>3, <2>4, WriteSizeAssumption DEF MaxTarget
<1>7. Following'
  BY <1>1, <1>4, <1>5, ToFormat DEF Following
<1>8. Counting'
  BY <1>1, <1>4, <1>5, <1>6 DEF Kept, Counting
<1>9. Sweeping'
  BY <1>1, <1>5 DEF Kept, Sweeping, history
<1> QED BY <1>7, <1>8, <1>9 DEF Kept

LEMMA FormatKept ==
  ASSUME TypeOK, Control, Kept, failed = "none", Format
  PROVE  Kept'
<1> DEFINE f == Head(formats)
<1>1. /\ pc \in {"format", "handler_format"} /\ formats \in Seq(Areas) /\ formats # << >>
      /\ UNCHANGED <<loop, step, todo, open, nvm_ref_previous_state,
                     transaction_buf_ref, history>>
  BY DEF Format, TypeOK
<1>2. stop = NoTarget
  BY <1>1 DEF Control, FormatsUntorn
<1>3. TearingSize(FormatBytes) = 0
  BY <1>2 DEF TearingSize
<1>4. /\ held' = [held EXCEPT ![f] = Erased]
      /\ nvm_ref' = [nvm_ref EXCEPT ![f] = Erased]
      /\ formats' = Tail(formats) /\ UNCHANGED <<pc, err_code>>
  BY <1>3 DEF Format
<1>5. Formatting'
  <2>1. Formatting
    BY <1>1 DEF Kept, Following
  <2>2. ASSUME NEW x \in Areas, x # f
        PROVE  \/ held[x] = Erased /\ nvm_ref[x] = Erased
               \/ \E i \in DOMAIN Tail(formats) : Tail(formats)[i] = x
    <3>1. CASE held[x] = Erased /\ nvm_ref[x] = Erased
      BY <3>1
    <3>2. CASE \E i \in DOMAIN formats : formats[i] = x
      <4>1. PICK i \in DOMAIN formats : formats[i] = x
        BY <3>2
      <4>2. /\ f = formats[1] /\ DOMAIN formats = 1..Len(formats) /\ Len(formats) \in Nat
            /\ DOMAIN Tail(formats) = 1..(Len(formats) - 1)
            /\ \A j \in 1..(Len(formats) - 1) : Tail(formats)[j] = formats[j + 1]
        BY <1>1, HeadTyped
      <4>3. i - 1 \in 1..(Len(formats) - 1) /\ (i - 1) + 1 = i
        BY <2>2, <4>1, <4>2
      <4> QED BY <4>1, <4>2, <4>3
    <3> QED BY <2>1, <3>1, <3>2 DEF Formatting
  <2> HIDE DEF f
  <2>3. ASSUME NEW x \in Areas
        PROVE  \/ held'[x] = Erased /\ nvm_ref'[x] = Erased
               \/ \E i \in DOMAIN formats' : formats'[i] = x
    <3>1. held \in [Areas -> Content \cup {None}] /\ nvm_ref \in [Areas -> Content]
      BY DEF TypeOK
    <3>2. CASE x = f
      BY <1>4, <3>1, <3>2
    <3>3. CASE x # f
      BY <1>4, <2>2, <3>1, <3>3
    <3> QED BY <3>2, <3>3
  <2> QED BY <1>1, <2>1, <2>3 DEF Formatting
<1>6. Following'
  BY <1>1, <1>4, <1>5 DEF Following
<1>7. Counting'
  BY <1>1, <1>4 DEF Kept, Counting, Total, loop
<1>8. Tried' = Tried
  BY <1>1, <1>4 DEF Tried, loop
<1>9. Sweeping'
  BY <1>1, <1>4, <1>8 DEF Kept, Sweeping, Inverted, Total, loop, history
<1> QED BY <1>6, <1>7, <1>9 DEF Kept

LEMMA CallKept ==
  ASSUME TypeOK, Control, Kept, failed = "none", failed' = "none", Call
  PROVE  Kept'
<1>1. /\ pc = "run" /\ Wrap /\ Op.kind \notin {"sanity", "verify"}
      /\ UNCHANGED <<cnt, stop, loop, step, formats, held, open, torn, spoiled>>
  BY DEF Call
<1>2. step \in DOMAIN dut
  <2>1. step <= Len(dut) /\ step \in Nat \ {0} /\ dut \in Tests
    BY <1>1 DEF Call, Control, TypeOK
  <2> QED BY <2>1, TestTyped
<1>3. /\ Reached(step - 1) /\ nvm_ref = held
      /\ BuffersFit(transaction_buf_ref, held, open) /\ cnt = TestBytes(dut)[step - 1]
      /\ phase # "counted" /\ err_code \in {"ok", "tearing"}
  BY <1>1 DEF Kept, Following, Counting
<1>4. /\ dut \in Tests /\ step \in 1..Len(dut) /\ Len(dut) \in Nat
      /\ held \in [Areas -> Content] /\ open \in Transactions /\ Passes(Op, held, open)
  BY <1>2, <1>3, AtOperation
<1>5. ~Refuses
  BY <1>1, <1>4 DEF Passes, Refuses
<1>6. pc' = "flash" /\ todo' = Op.flash /\ UNCHANGED <<err_code, failed>>
  BY <1>5 DEF Call, CanFail
<1>7. /\ nvm_ref' = Goal
      /\ nvm_ref_previous_state' = held \/ Goal = held
      /\ BuffersFit(transaction_buf_ref', Goal, NewTransactions)
  BY <1>1, <1>2, <1>3, <1>4, WrapFollows
<1>8. /\ Op' = Op /\ Goal' = Goal /\ NewTransactions' = NewTransactions
      /\ Reached(step - 1)' /\ Passes(Op, held, open)'
  BY <1>1, <1>3, <1>4 DEF Op, Goal, NewTransactions, Reached, loop
<1>9. Following'
  BY <1>1, <1>6, <1>7, <1>8 DEF Following
<1>10. cnt' = Before'
  <2>1. Op.flash \in Seq(Nat)
    BY <1>2, OpTyped
  <2>2. Bytes(Op.flash)[0] = 0 /\ Len(Op.flash) - Len(Op.flash) = 0
    BY <2>1, OperationBytes
  <2>3. TestBytes(dut)[step - 1] \in Nat
    <3>1. step - 1 \in 0..Len(dut)
      BY <1>4
    <3> QED BY <1>4, <3>1, TestTyped, TestBytesDef
  <2> QED BY <1>1, <1>3, <1>6, <1>8, <2>2, <2>3 DEF Before, loop
<1>11. Counting'
  BY <1>1, <1>6, <1>10 DEF Kept, Counting, Total, loop
<1>12. Tried' = Tried
  BY <1>1, <1>6 DEF Tried, loop
<1>13. Sweeping'
  BY <1>1, <1>6, <1>12 DEF Kept, Sweeping, Inverted, Total, loop
<1> QED BY <1>9, <1>11, <1>13 DEF Kept

LEMMA ReturnKept ==
  ASSUME TypeOK, Control, Kept, failed = "none", Return
  PROVE  Kept'
<1>1. /\ pc = "flash" /\ todo = << >> /\ held' = Goal /\ open' = NewTransactions
      /\ step' = step + 1 /\ pc' = "run" /\ step \in DOMAIN dut
      /\ UNCHANGED <<cnt, stop, loop, todo, formats, err_code, ref, history>>
  BY DEF Return, Control
<1>2. /\ Reached(step - 1) /\ nvm_ref = Goal
      /\ BuffersFit(transaction_buf_ref, Goal, NewTransactions) /\ cnt = Before
      /\ phase # "counted"
  BY <1>1 DEF Kept, Following, Counting
<1>3. /\ dut \in Tests /\ step \in 1..Len(dut) /\ Len(dut) \in Nat
      /\ Replay(dut)[step] = [areas |-> Goal, open |-> NewTransactions]
  BY <1>1, <1>2, AtOperation
<1>4. step' - 1 = step
  BY <1>1, <1>3
<1>5. Following'
  BY <1>1, <1>2, <1>3, <1>4 DEF Following, Reached, loop, ref
<1>6. cnt' = TestBytes(dut')[step' - 1]
  <2>1. dut \in Seq(Operations) /\ Len(Op.flash) \in Nat
    BY <1>3, TestTyped DEF Op
  <2>2. TestBytes(dut)[step] = TestBytes(dut)[step - 1] + OpBytes(Op)
    BY <1>3, <2>1, TestBytesDef DEF Op
  <2>3. Len(Op.flash) - Len(todo) = Len(Op.flash)
    BY <1>1, <2>1
  <2> QED BY <1>1, <1>2, <1>4, <2>2, <2>3 DEF Before, OpBytes, loop
<1>7. Counting'
  BY <1>1, <1>2, <1>6 DEF Kept, Counting, Total, loop
<1>8. Tried' = Tried
  BY <1>1 DEF Tried, loop
<1>9. Sweeping'
  BY <1>1, <1>8 DEF Kept, Sweeping, Inverted, Total, loop, history
<1> QED BY <1>5, <1>7, <1>9 DEF Kept

LEMMA VerifyKept ==
  ASSUME TypeOK, Control, Kept, failed = "none", Verify
  PROVE  Kept'
<1>1. /\ pc = "run" /\ Op.kind \in {"sanity", "verify"}
      /\ UNCHANGED <<cnt, stop, loop, todo, formats, held, open, ref, history>>
  BY DEF Verify
<1>2. step \in DOMAIN dut
  <2>1. step <= Len(dut) /\ step \in Nat \ {0} /\ dut \in Tests
    BY <1>1 DEF Verify, Control, TypeOK
  <2> QED BY <2>1, TestTyped
<1>3. /\ Reached(step - 1) /\ nvm_ref = held
      /\ BuffersFit(transaction_buf_ref, held, open) /\ cnt = TestBytes(dut)[step - 1]
      /\ phase # "counted"
  BY <1>1 DEF Kept, Following, Counting
<1>4. /\ dut \in Tests /\ step \in 1..Len(dut) /\ Len(dut) \in Nat
      /\ held \in [Areas -> Content] /\ open \in Transactions
      /\ Passes(Op, held, open)
      /\ Replay(dut)[step] = [areas |-> Goal, open |-> NewTransactions]
  BY <1>2, <1>3, AtOperation
<1>5. Agrees
  <2>1. CASE Op.kind = "sanity"
    BY <1>3, <2>1 DEF Agrees, NvmIsEqual
  <2>2. CASE Op.kind = "verify"
    <3>1. held[Op.area] \in Content
      BY <1>2, <1>4, OpTyped
    <3> QED BY <1>4, <2>2, <3>1, ConstantsAssumption DEF Agrees, Passes
  <2> QED BY <1>1, <2>1, <2>2
<1>6. step' = step + 1 /\ UNCHANGED <<pc, err_code>>
  BY <1>5 DEF Verify
<1>7. step' - 1 = step
  BY <1>4, <1>6
<1>8. Goal = held /\ NewTransactions = open
  BY <1>1 DEF Goal, Result, NewTransactions, Opened
<1>9. Following'
  BY <1>1, <1>3, <1>4, <1>6, <1>7, <1>8 DEF Following, Reached, loop, ref
<1>10. cnt' = TestBytes(dut')[step' - 1]
  <2>1. dut \in Seq(Operations) /\ Op.flash = << >>
    BY <1>1, <1>4, TestTyped DEF Op
  <2>2. TestBytes(dut)[step] = TestBytes(dut)[step - 1] + OpBytes(Op)
    BY <1>4, <2>1, TestBytesDef DEF Op
  <2>3. OpBytes(Op) = 0
    <3>1. << >> \in Seq(Nat) /\ Len(<< >>) = 0
      OBVIOUS
    <3> QED BY <2>1, <3>1, OperationBytes DEF OpBytes
  <2>4. TestBytes(dut)[step - 1] \in Nat
    <3>1. step - 1 \in 0..Len(dut)
      BY <1>4
    <3> QED BY <2>1, <3>1, TestBytesDef
  <2> QED BY <1>1, <1>3, <1>7, <2>2, <2>3, <2>4 DEF loop
<1>11. Counting'
  BY <1>1, <1>3, <1>6, <1>10 DEF Kept, Counting, Total, loop
<1>12. Tried' = Tried
  BY <1>1, <1>6 DEF Tried, loop
<1>13. Sweeping'
  BY <1>1, <1>6, <1>12 DEF Kept, Sweeping, Inverted, Total, loop, history
<1> QED BY <1>9, <1>11, <1>13 DEF Kept

LEMMA CompletedKept ==
  ASSUME TypeOK, Control, Kept, failed = "none", Completed
  PROVE  Kept'
<1>1. /\ pc = "run" /\ err_code' = "ok" /\ pc' = "over"
      /\ UNCHANGED <<cnt, stop, loop, step, todo, formats, held, open, ref, history>>
  BY DEF Completed
<1>2. /\ Reached(step - 1) /\ nvm_ref = held /\ cnt = TestBytes(dut)[step - 1]
      /\ phase # "counted"
  BY <1>1 DEF Kept, Following, Counting
<1>3. /\ dut \in Tests /\ Len(dut) \in Nat /\ step - 1 = Len(dut)
  <2>1. step > Len(dut) /\ step \in 1..(Len(dut) + 1) /\ dut \in Tests
    BY <1>1 DEF Completed, Control
  <2> QED BY <2>1, TestTyped
<1>4. open = NoTransactions /\ cnt = Total
  BY <1>2, <1>3, TestTyped DEF Legal, Reached, Total
<1>5. ASSUME phase = "sweep" PROVE ~(target < max)
  <2>1. /\ stop = target * WriteSize /\ max * WriteSize = Total
        /\ target \in Nat /\ max \in Nat
    BY <1>1, <1>5 DEF Kept, Sweeping, Counting, TypeOK
  <2>2. \A w \in Nat \ {0} : /\ target * w \in Nat
                             /\ max * w <= target * w => max <= target
    BY <2>1
  <2>3. stop \in Nat
    BY <2>1, <2>2, WriteSizeAssumption
  <2>4. cnt <= stop
    BY <2>3, ConstantsAssumption DEF Control
  <2>5. max <= target
    BY <1>4, <2>1, <2>2, <2>4, WriteSizeAssumption
  <2> QED BY <2>1, <2>5
<1>6. Following'
  BY <1>1, <1>2, <1>4, <1>5 DEF Following, loop, ref
<1>7. Counting'
  BY <1>1, <1>2, <1>4 DEF Kept, Counting, Total, loop
<1>8. phase = "sweep" => Tried' = Tried
  BY <1>1, <1>5 DEF Tried, loop
<1>9. Sweeping'
  BY <1>1, <1>8 DEF Kept, Sweeping, Inverted, Total, loop, history
<1> QED BY <1>6, <1>7, <1>9 DEF Kept

(* The flash operation being made, and its place in the test.              *)
LEMMA AtFlash ==
  ASSUME TypeOK, Control, pc = "flash", todo # << >>
  PROVE  /\ dut \in Tests /\ step \in 1..Len(dut)
         /\ \E k \in 1..Len(dut[step].flash) :
              /\ k = Len(Op.flash) - Len(todo) + 1
              /\ dut[step].flash[k] = Head(todo)
              /\ FlashStart(dut, step, k) = Before
<1> DEFINE L == Len(Op.flash)
           n == Len(todo)
           k == L - n + 1
<1>1. step \in DOMAIN dut /\ TodoLeft
  BY DEF Control
<1>2. dut \in Tests /\ step \in 1..Len(dut) /\ Op = dut[step] /\ Op.flash \in Seq(Nat)
  BY <1>1, OpTyped DEF Op
<1>3. L \in Nat
  BY <1>2, LenProperties
<1>4. n \in Nat \ {0} /\ 1 \in DOMAIN todo /\ Head(todo) = todo[1]
  BY HeadTyped DEF TypeOK
<1>5. n <= L /\ todo[1] = Op.flash[L - n + 1]
  BY <1>1, <1>4 DEF TodoLeft
<1> HIDE DEF L, n
<1>6. k \in 1..L /\ k - 1 = L - n
  BY <1>3, <1>4, <1>5
<1>7. FlashStart(dut, step, k) = Before
  BY <1>2, <1>6 DEF FlashStart, Before, L, n
<1>8. Op.flash[k] = Head(todo)
  BY <1>4, <1>5
<1> HIDE DEF k
<1>9. k \in 1..Len(dut[step].flash) /\ dut[step].flash[k] = Head(todo)
  BY <1>2, <1>6, <1>8 DEF L
<1>10. k = Len(Op.flash) - Len(todo) + 1
  BY DEF k, L, n
<1> QED BY <1>2, <1>7, <1>9, <1>10

(* What the torn run adds: its target, and the flash operations that start *)
(* in the write unit of the target.                                        *)
LEMMA TornRun ==
  ASSUME TypeOK, Inverted(target),
         dut \in Tests, NEW i \in 1..Len(dut), NEW k \in 1..Len(dut[i].flash),
         NEW s, s = FlashStart(dut, i, k),
         NEW size, size = dut[i].flash[k],
         s <= target * WriteSize, target * WriteSize < s + size,
         UNCHANGED <<dut, target>>,
         spoiled' = spoiled \cup {s + b : b \in Corrupted(size, s + size - target * WriteSize)}
  PROVE  Inverted(target + 1)'
<1> DEFINE w == WriteSize
           goal == target * w
<1>1. w \in Nat \ {0} /\ target \in Nat /\ goal \in Nat
  BY WriteSizeAssumption DEF TypeOK
<1>2. s \in Nat /\ size \in Nat
  BY FlashInside
<1> SUFFICES ASSUME NEW j \in DOMAIN dut, NEW m \in DOMAIN dut[j].flash,
                    FlashStart(dut, j, m) < (target + 1) * w
             PROVE  FlashStart(dut, j, m)..(FlashStart(dut, j, m) + dut[j].flash[m] - 1)
                      \subseteq spoiled'
  BY DEF Inverted
<1> DEFINE r == FlashStart(dut, j, m)
           len == dut[j].flash[m]
<1>3. j \in 1..Len(dut) /\ m \in 1..Len(dut[j].flash)
  BY TestTyped
<1>4. r \in Nat /\ len \in Nat /\ r % w = 0
  BY <1>3, FlashInside
<1>5. CASE r < goal
  BY <1>5 DEF Inverted
<1>6. CASE ~(r < goal)
  <2>1. r = goal
    <3> HIDE DEF w, r
    <3>1. r < goal + w
      <4>1. (target + 1) * w = target * w + w
        BY <1>1
      <4>2. r < (target + 1) * w
        BY DEF r, w
      <4> QED BY <4>1, <4>2
    <3>2. goal % w = 0
      <4>1. goal = w * target
        BY <1>1
      <4>2. (w * target) % w = 0
        BY <1>1
      <4> HIDE DEF goal
      <4> QED BY <4>1, <4>2
    <3> HIDE DEF goal
    <3>7. goal <= r
      BY <1>1, <1>4, <1>6
    <3>3. PICK x \in Nat : r = w * x
      <4>1. r = w * (r \div w) /\ r \div w \in Nat
        BY <1>1, <1>4
      <4> QED BY <4>1
    <3>4. PICK y \in Nat : goal = w * y
      <4>1. goal = w * (goal \div w) /\ goal \div w \in Nat
        BY <1>1, <3>2
      <4> QED BY <4>1
    <3>5. y <= x
      BY <1>1, <3>3, <3>4, <3>7
    <3>6. ~(y + 1 <= x)
      <4> SUFFICES ASSUME y + 1 <= x PROVE FALSE
        OBVIOUS
      <4>1. w * (y + 1) <= w * x /\ w * (y + 1) = w * y + w
        BY <1>1
      <4>2. w * x \in Nat /\ w * y \in Nat
        BY <1>1
      <4> QED BY <1>1, <3>1, <3>3, <3>4, <4>1, <4>2
    <3> QED BY <3>3, <3>4, <3>5, <3>6
  <2>2. CASE j = i /\ m = k
    <3>1. r = s /\ len = size /\ s = goal
      BY <2>1, <2>2
    <3> HIDE DEF r, len, goal
    <3>2. ASSUME NEW p \in r..(r + len - 1) PROVE p \in spoiled'
      <4>1. p - s \in 0..(size - 1) /\ s + (p - s) = p
        <5>1. p \in s..(s + size - 1)
          BY <3>1
        <5>2. \A x, y \in Nat : \A z \in x..(x + y - 1) :
                z - x \in 0..(y - 1) /\ x + (z - x) = z
          OBVIOUS
        <5> QED BY <1>2, <5>1, <5>2
      <4>2. s + size - target * WriteSize = size
        <5>1. s + size - goal = size
          BY <1>2, <3>1
        <5> QED BY <5>1 DEF goal, w
      <4>3. p - s \in Corrupted(size, s + size - target * WriteSize)
        <5>1. size - size = 0
          BY <1>2
        <5> QED BY <4>1, <4>2, <5>1 DEF Corrupted
      <4> QED BY <4>1, <4>3
    <3> QED BY <3>2 DEF r, len
  <2>3. CASE j < i \/ (j = i /\ m < k)
    <3>1. r + len <= s
      BY <1>3, <2>3, FlashApart
    <3>2. len = 0
      <4> HIDE DEF r, len, goal
      <4> QED BY <1>2, <1>4, <2>1, <3>1 DEF goal, w
    <3>3. r..(r + len - 1) = {}
      <4> HIDE DEF r, len
      <4> QED BY <1>4, <3>2
    <3> QED BY <3>3
  <2>4. CASE i < j \/ (i = j /\ k < m)
    <3>1. s + size <= r
      BY <1>3, <2>4, FlashApart
    <3>2. goal < s + size
      OBVIOUS
    <3> HIDE DEF r, goal
    <3>3. \A x, y, z \in Nat : z < x + y => ~(x + y <= z)
      OBVIOUS
    <3> QED BY <1>1, <1>2, <2>1, <3>1, <3>2, <3>3
  <2>5. i \in Nat /\ j \in Nat /\ k \in Nat /\ m \in Nat
    BY <1>3
  <2> HIDE DEF r, len
  <2>6. (j = i /\ m = k) \/ (j < i \/ (j = i /\ m < k)) \/ (i < j \/ (i = j /\ k < m))
    BY <2>5
  <2> QED BY <2>2, <2>3, <2>4, <2>6 DEF r, len
<1> QED BY <1>5, <1>6

LEMMA FlashOperationKept ==
  ASSUME TypeOK, Control, Kept, failed = "none", failed' = "none", FlashOperation
  PROVE  Kept'
<1> DEFINE size == Head(todo)
           w == WriteSize
<1>1. /\ pc = "flash" /\ todo # << >> /\ Operate(size)
      /\ step \in DOMAIN dut
      /\ UNCHANGED <<loop, step, formats, open, ref>>
  BY DEF FlashOperation, Control
<1>2. /\ Reached(step - 1) /\ Passes(Op, held, open) /\ Op.kind \notin {"sanity", "verify"}
      /\ nvm_ref = Goal /\ (nvm_ref_previous_state = held \/ Goal = held)
      /\ BuffersFit(transaction_buf_ref, Goal, NewTransactions)
      /\ cnt = Before /\ phase # "counted" /\ err_code \in {"ok", "tearing"}
  BY <1>1 DEF Kept, Following, Counting
<1>3. dut \in Tests /\ step \in 1..Len(dut)
  BY <1>1, AtFlash
<1>4. PICK k \in 1..Len(dut[step].flash) :
              /\ k = Len(Op.flash) - Len(todo) + 1
              /\ dut[step].flash[k] = size
              /\ FlashStart(dut, step, k) = Before
  BY <1>1, AtFlash
<1>5. /\ Before \in Nat /\ size \in Nat
      /\ Before + size = TestBytes(dut)[step - 1] + Bytes(Op.flash)[k]
      /\ Before + size <= Total /\ Total \in Nat
  <2>1. /\ Before \in Nat /\ size \in Nat
        /\ Before + size = TestBytes(dut)[step - 1] + Bytes(dut[step].flash)[k]
        /\ Before + size <= TestBytes(dut)[step]
        /\ TestBytes(dut)[step] <= TestBytes(dut)[Len(dut)]
        /\ TestBytes(dut)[step] \in Nat /\ TestBytes(dut)[Len(dut)] \in Nat
    <3>1. FlashStart(dut, step, k) = Before /\ dut[step].flash[k] = size
      BY <1>4
    <3> HIDE DEF size
    <3>2. /\ FlashStart(dut, step, k) \in Nat /\ dut[step].flash[k] \in Nat
          /\ FlashStart(dut, step, k) + dut[step].flash[k]
               = TestBytes(dut)[step - 1] + Bytes(dut[step].flash)[k]
          /\ FlashStart(dut, step, k) + dut[step].flash[k] <= TestBytes(dut)[step]
          /\ TestBytes(dut)[step] <= TestBytes(dut)[Len(dut)]
          /\ TestBytes(dut)[step] \in Nat /\ TestBytes(dut)[Len(dut)] \in Nat
      BY <1>3, FlashInside
    <3> QED BY <3>1, <3>2
  <2> HIDE DEF size
  <2>2. Before + size <= TestBytes(dut)[Len(dut)]
    BY <2>1
  <2> QED BY <2>1, <2>2 DEF Total, Op
<1>6. stop # NoTarget => cnt <= stop /\ phase = "sweep"
  BY DEF Control
<1> HIDE DEF size
<1>7. /\ TearingSize(size) = 0 <=> stop = NoTarget \/ cnt + size <= stop
      /\ TearingSize(size) # 0 => stop # NoTarget /\ TearingSize(size) = cnt + size - stop
      /\ TearingSize(size) = 0 => stop' = stop /\ cnt' = cnt + size
  BY <1>1, <1>5, <1>6, TearingTyped
<1>8. CASE TearingSize(size) = 0
  <2>1. todo' = Tail(todo) /\ UNCHANGED <<pc, err_code, held, history>>
    BY <1>8 DEF FlashOperation, size
  <2>2. /\ Op' = Op /\ Goal' = Goal /\ NewTransactions' = NewTransactions
        /\ Reached(step - 1)' /\ Passes(Op, held, open)'
    BY <1>1, <1>2, <2>1 DEF Op, Goal, NewTransactions, Reached, loop
  <2>3. Following'
    BY <1>1, <1>2, <2>1, <2>2 DEF Following, loop, ref
  <2>4. cnt' = Before'
    <3>1. Len(todo) \in Nat /\ Len(Tail(todo)) = Len(todo) - 1 /\ Len(Op.flash) \in Nat
      BY <1>1, HeadTyped, OpTyped, LenProperties DEF TypeOK
    <3> DEFINE x == Len(Op.flash)
               n == Len(todo)
               m == Len(Tail(todo))
    <3>2. x \in Nat /\ n \in Nat /\ m = n - 1 /\ k = x - n + 1
      BY <1>4, <3>1
    <3> HIDE DEF x, n, m
    <3>3. x - m = k
      BY <3>2
    <3>4. Before' = TestBytes(dut)[step - 1] + Bytes(Op.flash)[k]
      BY <1>1, <2>1, <2>2, <3>3 DEF Before, loop, x, m
    <3> QED BY <1>2, <1>5, <1>7, <1>8, <3>4
  <2>5. Counting'
    BY <1>1, <2>1, <2>4 DEF Kept, Counting, Total, loop
  <2>6. Tried' = Tried /\ stop' = stop
    BY <1>1, <1>7, <1>8, <2>1 DEF Tried, loop
  <2>7. Sweeping'
    BY <1>1, <2>1, <2>6 DEF Kept, Sweeping, Inverted, Total, loop, history
  <2> QED BY <2>3, <2>5, <2>7 DEF Kept
<1>9. CASE TearingSize(size) # 0
  <2> DEFINE tsize == TearingSize(size)
  <2>1. /\ err_code' = "tearing" /\ pc' = "caught" /\ UNCHANGED failed
        /\ held' \in {held, Goal}
        /\ torn' = torn \cup {(Before + size - tsize) \div w}
        /\ spoiled' = spoiled \cup {Before + b : b \in Corrupted(size, tsize)}
    BY <1>9 DEF FlashOperation, Throw, size
  <2>2. /\ phase = "sweep" /\ stop = target * w /\ tsize = cnt + size - stop
        /\ cnt <= stop /\ stop < cnt + size
        /\ target \in Nat /\ max \in Nat /\ w \in Nat \ {0} /\ stop \in Nat
        /\ torn = 0..(target - 1) /\ Inverted(target) /\ spoiled \subseteq 0..(Total - 1)
        /\ max * w = Total
    <3>1. stop # NoTarget /\ tsize = cnt + size - stop /\ ~(cnt + size <= stop)
      BY <1>7, <1>9
    <3>2. phase = "sweep" /\ cnt <= stop
      BY <1>6, <3>1
    <3>3. Tried = target
      BY <1>1 DEF Tried
    <3>4. /\ stop = target * w /\ max * w = Total
          /\ torn = 0..(target - 1) /\ Inverted(target) /\ spoiled \subseteq 0..(Total - 1)
      BY <1>1, <3>2, <3>3 DEF Kept, Sweeping, Counting
    <3>5. /\ stop \in Nat /\ target \in Nat /\ max \in Nat /\ w \in Nat \ {0}
      BY <3>1, WriteSizeAssumption DEF TypeOK
    <3>6. stop < cnt + size
      BY <1>2, <1>5, <3>1, <3>5
    <3> QED BY <3>1, <3>2, <3>4, <3>5, <3>6
  <2> HIDE DEF tsize, w
  <2>3. target < max
    <3>1. target * w < max * w
      BY <1>2, <1>5, <2>2
    <3> QED BY <2>2, <3>1
  <2>4. Following'
    <3>1. NvmIsEqual(nvm_ref)' \/ NvmIsEqual(nvm_ref_previous_state)'
      BY <1>1, <1>2, <2>1 DEF NvmIsEqual, ref
    <3> QED BY <2>1, <3>1 DEF Following
  <2>5. Counting'
    BY <1>1, <2>1, <2>2, <2>3 DEF Kept, Counting, Total, loop, w
  <2>6. Tried' = target' + 1
    BY <1>1, <2>1 DEF Tried, loop
  <2>7. torn' = 0..target
    <3>1. Before + size - tsize = target * w
      BY <1>2, <1>5, <2>2
    <3>2. (target * w) \div w = target
      BY <2>2
    <3> QED BY <2>1, <2>2, <3>1, <3>2
  <2>8. Inverted(target + 1)'
    <3>1. tsize = Before + size - target * WriteSize
      BY <1>2, <2>2 DEF w
    <3>2. Before <= target * WriteSize /\ target * WriteSize < Before + size
      BY <1>2, <2>2 DEF w
    <3> QED BY <1>1, <1>3, <1>4, <2>1, <2>2, <3>1, <3>2, TornRun DEF loop
  <2>9. spoiled' \subseteq 0..(Total - 1)
    <3>1. ASSUME NEW b \in Corrupted(size, tsize) PROVE Before + b \in 0..(Total - 1)
      <4>1. b \in (size - tsize)..(tsize - 1)
        BY DEF Corrupted
      <4>2. size - tsize \in Nat /\ tsize \in Nat /\ tsize <= size
        BY <1>2, <1>5, <2>2
      <4> QED BY <1>5, <4>1, <4>2
    <3> QED BY <2>1, <2>2, <3>1
  <2>10. target' = target /\ dut' = dut /\ phase' = phase
    BY <1>1 DEF loop
  <2>11. Sweeping'
    <3>1. torn' = 0..(Tried' - 1)
      <4>1. Tried' - 1 = target
        BY <2>2, <2>6, <2>10
      <4> QED BY <2>7, <4>1
    <3>3. Inverted(Tried)'
      BY <2>6, <2>8 DEF Inverted
    <3>2. Total' = Total
      BY <2>10 DEF Total
    <3> QED BY <2>1, <2>2, <2>9, <2>10, <3>1, <3>2, <3>3 DEF Sweeping
  <2> QED BY <2>4, <2>5, <2>11 DEF Kept
<1> QED BY <1>8, <1>9

-----------------------------------------------------------------------------
(* A library that is not atomic.                                           *)

(* What it leaves is neither of the states that the handler accepts.       *)
LEMMA MixtureDiffers ==
  ASSUME TypeOK, Control, Kept, pc = "flash", NEW h \in Mixtures
  PROVE  /\ \A a \in Areas : h[a] # None
         /\ h # nvm_ref /\ h # nvm_ref_previous_state
<1>1. step \in DOMAIN dut /\ Reached(step - 1)
  BY DEF Control, Kept, Following
<1>2. held \in [Areas -> Content] /\ Op.area \in Areas
  BY <1>1, AtOperation, OpTyped
<1>3. /\ nvm_ref = Goal /\ (nvm_ref_previous_state = held \/ Goal = held)
  BY DEF Kept, Following
<1>4. PICK c \in Content :
        /\ h = [held EXCEPT ![Op.area] = c]
        /\ \A u \in Units : c[u] \in {held[Op.area][u], Goal[Op.area][u]}
        /\ c # held[Op.area] /\ c # Goal[Op.area]
  BY DEF Mixtures
<1>5. h[Op.area] = c /\ \A a \in Areas : h[a] \in Content
  BY <1>2, <1>4
<1>6. Goal # held
  <2> SUFFICES ASSUME Goal = held PROVE FALSE
    OBVIOUS
  <2>1. held[Op.area] \in Content /\ \A u \in Units : c[u] = held[Op.area][u]
    BY <1>2, <1>4
  <2>2. c = held[Op.area]
    BY <2>1 DEF Content
  <2> QED BY <1>4, <2>2
<1>7. h # nvm_ref /\ h # held
  BY <1>3, <1>4, <1>5
<1> QED BY <1>3, <1>5, <1>6, <1>7, ConstantsAssumption

LEMMA MixedNext ==
  ASSUME TypeOK, Control, Mixed, failed = "none" => Kept, Next, failed' = "mixed"
  PROVE  Mixed'
<1>1. CASE failed = "mixed"
  <2>1. /\ pc = "caught" /\ err_code = "tearing" /\ \A a \in Areas : held[a] # None
        /\ ~NvmIsEqual(nvm_ref) /\ ~NvmIsEqual(nvm_ref_previous_state)
    BY <1>1 DEF Mixed, Next, Begin, Format, FunctionalTest, Call, FlashOperation,
       Return, Verify, Completed, HandleTearing, HandleError, HandlerOver, Counted,
       StartSweep, NextTarget, Pass
  <2>2. HandleTearing
    BY <2>1 DEF Next, Begin, Format, FunctionalTest, Call, FlashOperation,
       Return, Verify, Completed, HandleError, HandlerOver, Counted,
       StartSweep, NextTarget, Pass
  <2>3. ~ReadFails
    BY <2>1 DEF ReadFails, Areas
  <2>4. pc' = "abort"
    BY <2>1, <2>2, <2>3 DEF HandleTearing, CheckNvm
  <2> QED BY <2>4 DEF Mixed
<1>2. CASE failed # "mixed"
  <2>1. FlashOperation /\ failed = "none"
    BY <1>2 DEF Next, Begin, Format, FunctionalTest, Call, FlashOperation,
       Return, Verify, Completed, HandleTearing, HandleError, HandlerOver, Counted,
       StartSweep, NextTarget, Pass, history, CanFail
  <2>2. /\ pc = "flash" /\ held' \in Mixtures /\ err_code' = "tearing" /\ pc' = "caught"
        /\ UNCHANGED ref
    BY <1>2, <2>1 DEF FlashOperation, history, Throw
  <2>3. /\ \A a \in Areas : held'[a] # None
        /\ held' # nvm_ref /\ held' # nvm_ref_previous_state
    BY <2>1, <2>2, MixtureDiffers
  <2>4. /\ held' \in [Areas -> Content \cup {None}]
        /\ nvm_ref \in [Areas -> Content] /\ nvm_ref_previous_state \in [Areas -> Content]
    <3>1. held' \in [Areas -> Content \cup {None}]
      BY <2>2 DEF Mixtures, TypeOK
    <3> QED BY <3>1 DEF TypeOK
  <2>5. /\ ~NvmIsEqual(nvm_ref)' /\ ~NvmIsEqual(nvm_ref_previous_state)'
    BY <2>2, <2>3, <2>4 DEF NvmIsEqual, ref
  <2> QED BY <2>2, <2>3, <2>5 DEF Mixed
<1> QED BY <1>1, <1>2

-----------------------------------------------------------------------------
(* The invariant, and what it says of the harness.                         *)

LEMMA Initially == Init => IInv
<1> SUFFICES ASSUME Init PROVE IInv
  OBVIOUS
<1>1. TypeOK /\ Control
  BY InitTyped
<1>2. Mixed
  BY DEF Init, Mixed
<1>3. Following /\ Counting /\ Sweeping
  BY DEF Init, Following, Counting, Sweeping
<1> QED BY <1>1, <1>2, <1>3 DEF IInv, Kept

LEMMA KeptNext ==
  ASSUME TypeOK, Control, Kept, failed = "none", failed' = "none", Next
  PROVE  Kept'
BY BeginKept, FormatKept, FunctionalTestKept, CallKept, FlashOperationKept,
   ReturnKept, VerifyKept, CompletedKept, HandleTearingKept, HandlerOverKept,
   CountedKept, StartSweepKept, NextTargetKept, PassKept
   DEF Next, HandleError, Kept, Counting

LEMMA Inductive == IInv /\ [Next]_vars => IInv'
<1> SUFFICES ASSUME IInv, [Next]_vars PROVE IInv'
  OBVIOUS
<1>1. TypeOK' /\ Control'
  BY NextTyped DEF IInv
<1>2. CASE Next
  <2>1. failed' = "mixed" => Mixed'
    BY <1>2, MixedNext DEF IInv
  <2>2. failed' = "none" => failed = "none"
    BY <1>2 DEF Next, Begin, Format, FunctionalTest, Call, FlashOperation,
       Return, Verify, Completed, HandleTearing, HandleError, HandlerOver, Counted,
       StartSweep, NextTarget, Pass, history
  <2>3. failed' = "none" => Kept'
    BY <1>2, <2>2, KeptNext DEF IInv
  <2> QED BY <1>1, <2>1, <2>3 DEF IInv, Mixed
<1>3. CASE UNCHANGED vars
  <2>1. Mixed'
    BY <1>3 DEF IInv, Mixed, NvmIsEqual, vars, ref, history
  <2>2. /\ Op' = Op /\ Goal' = Goal /\ NewTransactions' = NewTransactions
        /\ Before' = Before /\ Total' = Total /\ Tried' = Tried
    BY <1>3 DEF vars, loop, Op, Goal, NewTransactions, Before, Total, Tried
  <2>3. Following => Following'
    BY <1>3, <2>2 DEF Following, Formatting, Reached, NvmIsEqual, vars, ref, loop
  <2>4. Counting => Counting'
    BY <1>3, <2>2 DEF Counting, vars, loop
  <2>5. Sweeping => Sweeping'
    BY <1>3, <2>2 DEF Sweeping, Inverted, vars, loop, history
  <2> QED BY <1>1, <1>3, <2>1, <2>3, <2>4, <2>5 DEF IInv, Kept, vars, history
<1> QED BY <1>2, <1>3

LEMMA Invariant == Spec => []IInv
BY Initially, Inductive, PTL DEF Spec

(* The references that the wrappers keep are what the areas hold before    *)
(* every call, after any tearing, format and transaction that came before. *)
THEOREM ReferenceInSync == Spec => []InSync
<1>1. IInv => InSync
  BY DEF IInv, Kept, Following, InSync, NvmIsEqual
<1> QED BY <1>1, Invariant, PTL

(* A library that keeps its promise passes every legal test, wherever it   *)
(* is torn: the harness raises no alarm of its own.                        *)
THEOREM NoAlarmIsFalse == Spec => []NoFalseAlarm
<1>1. IInv => NoFalseAlarm
  BY DEF IInv, Kept, Counting, NoFalseAlarm
<1> QED BY <1>1, Invariant, PTL

(* An update left half done by a tearing never passes: it differs from the *)
(* reference and from the one before, and the handler aborts.              *)
THEOREM MixingIsReported == Spec => []MixingReported
<1>1. IInv => MixingReported
  BY DEF IInv, Mixed, MixingReported
<1> QED BY <1>1, Invariant, PTL

(* A run of the sweep is torn at its own target, unless it is the last.    *)
THEOREM EachRunTornOnce == Spec => []TornAtTarget
<1>1. ASSUME IInv PROVE TornAtTarget
  <2> SUFFICES ASSUME phase = "sweep", failed = "none"
               PROVE  /\ torn \subseteq 0..target
                      /\ pc = "over" => (target \in torn <=> target < max)
    BY DEF TornAtTarget
  <2>1. torn = 0..(Tried - 1) /\ target \in Nat /\ max \in Nat
    BY <1>1 DEF IInv, Kept, Sweeping, TypeOK
  <2>2. Tried \in {target, target + 1}
    BY DEF Tried
  <2>3. pc = "over" => Tried = IF target < max THEN target + 1 ELSE target
    BY DEF Tried
  <2> QED BY <2>1, <2>2, <2>3
<1> QED BY <1>1, Invariant, PTL

(* When the sweep is over the power has failed before each write unit that *)
(* the test programs, and each byte was inverted in some run.              *)
THEOREM SweepIsExhaustive == Spec => []Exhaustive
<1>1. ASSUME IInv PROVE Exhaustive
  <2> SUFFICES ASSUME pc = "begin", ran > 0, failed = "none"
               PROVE  /\ torn = 0..((Total \div WriteSize) - 1)
                      /\ spoiled = 0..(Total - 1)
    BY DEF Exhaustive
  <2>1. /\ TypeOK /\ Control /\ Following /\ Counting /\ Sweeping
    BY <1>1 DEF IInv, Kept
  <2>2. /\ dut \in Tests /\ phase = "sweep" /\ target = max /\ max \in Nat
        /\ max * WriteSize = Total
    BY <2>1 DEF TypeOK, Control, Counting
  <2>3. Tried = max
    BY <2>2 DEF Tried
  <2>4. torn = 0..(max - 1) /\ Inverted(max) /\ spoiled \subseteq 0..(Total - 1)
    BY <2>1, <2>2, <2>3 DEF Sweeping
  <2>5. Total \div WriteSize = max /\ Total \in Nat
    <3>1. \A w \in Nat \ {0} : (max * w) \div w = max /\ max * w \in Nat
      BY <2>2
    <3> QED BY <2>2, <3>1, WriteSizeAssumption
  <2>6. ASSUME NEW p \in 0..(Total - 1) PROVE p \in spoiled
    <3>1. p \in Nat /\ p < max * WriteSize /\ p < TestBytes(dut)[Len(dut)]
      BY <2>2, <2>5 DEF Total
    <3>2. PICK i \in 1..Len(dut) : \E k \in 1..Len(dut[i].flash) :
            FlashStart(dut, i, k) <= p /\ p < FlashStart(dut, i, k) + dut[i].flash[k]
      BY <2>2, <3>1, ByteLocated
    <3>3. PICK k \in 1..Len(dut[i].flash) :
            FlashStart(dut, i, k) <= p /\ p < FlashStart(dut, i, k) + dut[i].flash[k]
      BY <3>2
    <3>4. /\ i \in DOMAIN dut /\ k \in DOMAIN dut[i].flash
          /\ FlashStart(dut, i, k) \in Nat /\ dut[i].flash[k] \in Nat
      BY <2>2, TestTyped, FlashInside
    <3>5. FlashStart(dut, i, k) < max * WriteSize
      BY <2>2, <2>5, <3>1, <3>3, <3>4
    <3>6. FlashStart(dut, i, k)..(FlashStart(dut, i, k) + dut[i].flash[k] - 1)
            \subseteq spoiled
      BY <2>4, <3>4, <3>5 DEF Inverted
    <3>7. p \in FlashStart(dut, i, k)..(FlashStart(dut, i, k) + dut[i].flash[k] - 1)
      BY <3>1, <3>3, <3>4
    <3> QED BY <3>6, <3>7
  <2> QED BY <2>4, <2>5, <2>6
<1> QED BY <1>1, Invariant, PTL

-----------------------------------------------------------------------------
(* The end of a test.                                                      *)

LEMMA Lexical ==
  ASSUME NEW a1, NEW a2, NEW a3, NEW a4, NEW a5,
         NEW b1, NEW b2, NEW b3, NEW b4, NEW b5,
         \/ b1 < a1
         \/ b1 = a1 /\ b2 < a2
         \/ b1 = a1 /\ b2 = a2 /\ b3 < a3
         \/ b1 = a1 /\ b2 = a2 /\ b3 = a3 /\ b4 < a4
         \/ b1 = a1 /\ b2 = a2 /\ b3 = a3 /\ b4 = a4 /\ b5 < a5
  PROVE  Below(<<b1, b2, b3, b4, b5>>, <<a1, a2, a3, a4, a5>>)
<1> DEFINE r == <<b1, b2, b3, b4, b5>>
           s == <<a1, a2, a3, a4, a5>>
<1>1. /\ r[1] = b1 /\ r[2] = b2 /\ r[3] = b3 /\ r[4] = b4 /\ r[5] = b5
      /\ s[1] = a1 /\ s[2] = a2 /\ s[3] = a3 /\ s[4] = a4 /\ s[5] = a5
  OBVIOUS
<1> HIDE DEF r, s
<1>2. CASE b1 < a1
  <2>1. 1 \in 1..5 /\ r[1] < s[1]
    BY <1>1, <1>2
  <2>2. \A j \in 1..(1 - 1) : r[j] = s[j]
    OBVIOUS
  <2> QED BY <2>1, <2>2 DEF Below
<1>3. CASE b1 = a1 /\ b2 < a2
  <2>1. 2 \in 1..5 /\ r[2] < s[2]
    BY <1>1, <1>3
  <2>2. \A j \in 1..(2 - 1) : r[j] = s[j]
    <3>1. 1..(2 - 1) = {1}
      OBVIOUS
    <3> QED BY <1>1, <1>3, <3>1
  <2> QED BY <2>1, <2>2 DEF Below
<1>4. CASE b1 = a1 /\ b2 = a2 /\ b3 < a3
  <2>1. 3 \in 1..5 /\ r[3] < s[3]
    BY <1>1, <1>4
  <2>2. \A j \in 1..(3 - 1) : r[j] = s[j]
    <3>1. 1..(3 - 1) = {1, 2}
      OBVIOUS
    <3> QED BY <1>1, <1>4, <3>1
  <2> QED BY <2>1, <2>2 DEF Below
<1>5. CASE b1 = a1 /\ b2 = a2 /\ b3 = a3 /\ b4 < a4
  <2>1. 4 \in 1..5 /\ r[4] < s[4]
    BY <1>1, <1>5
  <2>2. \A j \in 1..(4 - 1) : r[j] = s[j]
    <3>1. 1..(4 - 1) = {1, 2, 3}
      OBVIOUS
    <3> QED BY <1>1, <1>5, <3>1
  <2> QED BY <2>1, <2>2 DEF Below
<1>6. CASE b1 = a1 /\ b2 = a2 /\ b3 = a3 /\ b4 = a4 /\ b5 < a5
  <2>1. 5 \in 1..5 /\ r[5] < s[5]
    BY <1>1, <1>6
  <2>2. \A j \in 1..(5 - 1) : r[j] = s[j]
    <3>1. 1..(5 - 1) = {1, 2, 3, 4}
      OBVIOUS
    <3> QED BY <1>1, <1>6, <3>1
  <2> QED BY <2>1, <2>2 DEF Below
<1> QED BY <1>2, <1>3, <1>4, <1>5, <1>6 DEF r, s

LEMMA DistanceTyped ==
  TypeOK /\ Control /\ Kept =>
    /\ Total \div WriteSize \in Nat
    /\ phase # "count" => Total \div WriteSize = max
    /\ Distance \in [1..5 -> Nat]
<1> SUFFICES ASSUME TypeOK, Control, Kept
             PROVE  /\ Total \div WriteSize \in Nat
                    /\ phase # "count" => Total \div WriteSize = max
                    /\ Distance \in [1..5 -> Nat]
  OBVIOUS
<1>1. WriteSize \in Nat \ {0} /\ target \in Nat /\ max \in Nat
  BY WriteSizeAssumption DEF TypeOK
<1>2. dut \in Seq(Operations) /\ Len(dut) \in Nat
  <2>1. CASE dut \in Tests
    BY <2>1, TestTyped
  <2>2. CASE dut = << >>
    BY <2>2, EmptySeq
  <2> QED BY <2>1, <2>2, LenProperties DEF TypeOK
<1>3. Total \in Nat
  BY <1>2, TestBytesDef DEF Total
<1>4. \A w \in Nat \ {0} : Total \div w \in Nat /\ (max * w) \div w = max
  BY <1>1, <1>3
<1>5. /\ Total \div WriteSize \in Nat
      /\ phase # "count" => Total \div WriteSize = max
  <2>1. phase # "count" => max * WriteSize = Total
    BY DEF Kept, Counting
  <2> QED BY <1>1, <1>4, <2>1
<1>6. RunsLeft \in Nat
  <2> DEFINE units == Total \div WriteSize
  <2>1. /\ units \in Nat /\ phase \in {"count", "counted", "sweep"}
        /\ phase = "sweep" => target <= units
    BY <1>5 DEF TypeOK, Kept, Counting
  <2>2. RunsLeft = CASE phase = "count" -> units + 2
                     [] phase = "counted" -> units + 1
                     [] phase = "sweep" -> units - target
    BY DEF RunsLeft
  <2> HIDE DEF units
  <2> QED BY <1>1, <2>1, <2>2
<1>7. StageLeft \in Nat
  BY DEF StageLeft
<1>8. WorkLeft \in Nat
  <2>1. formats \in Seq(Areas) /\ Len(formats) \in Nat
    BY LenProperties DEF TypeOK
  <2>2. pc \in {"run", "flash"} => step \in 1..(Len(dut) + 1)
    <3>1. CASE pc = "flash"
      BY <1>2, <3>1, OpTyped DEF Control
    <3>2. CASE pc = "run"
      BY <3>2 DEF Control
    <3> QED BY <3>1, <3>2
  <2> QED BY <1>2, <2>1, <2>2 DEF WorkLeft
<1>9. Len(todo) \in Nat
  BY LenProperties DEF TypeOK
<1>10. (IF pc = "run" THEN 1 ELSE 0) \in Nat
  OBVIOUS
<1> QED BY <1>5, <1>6, <1>7, <1>8, <1>9, <1>10 DEF Distance

(* What each action lowers.                                                *)
LEMMA Closer ==
  ASSUME TypeOK, Control, Kept, TypeOK', Control', Kept',
         failed = "none", failed' = "none", pc # "begin", Next
  PROVE  Below(Distance', Distance)
<1> DEFINE Open == IF pc = "run" THEN 1 ELSE 0
<1>1. \/ RunsLeft' < RunsLeft
      \/ RunsLeft' = RunsLeft /\ StageLeft' < StageLeft
      \/ /\ RunsLeft' = RunsLeft /\ StageLeft' = StageLeft
         /\ WorkLeft' < WorkLeft
      \/ /\ RunsLeft' = RunsLeft /\ StageLeft' = StageLeft
         /\ WorkLeft' = WorkLeft /\ Open' < Open
      \/ /\ RunsLeft' = RunsLeft /\ StageLeft' = StageLeft
         /\ WorkLeft' = WorkLeft /\ Open' = Open
         /\ Len(todo') < Len(todo)
  <2>1. UNCHANGED loop => RunsLeft' = RunsLeft
    BY DEF loop, RunsLeft, Total
  <2>2. CASE Format
    <3>1. /\ pc \in {"format", "handler_format"} /\ formats \in Seq(Areas)
          /\ formats # << >> /\ UNCHANGED loop
      BY <2>2 DEF Format, TypeOK
    <3>2. stop = NoTarget
      BY <3>1 DEF Control, FormatsUntorn
    <3>3. TearingSize(FormatBytes) = 0
      BY <3>2 DEF TearingSize
    <3>4. formats' = Tail(formats) /\ pc' = pc
      BY <2>2, <3>3 DEF Format
    <3>5. Len(formats') < Len(formats)
      BY <3>1, <3>4, HeadTyped
    <3> QED BY <2>1, <3>1, <3>4, <3>5 DEF StageLeft, WorkLeft
  <2>3. CASE FunctionalTest
    <3>1. pc = "format" /\ pc' = "run" /\ UNCHANGED loop
      BY <2>3 DEF FunctionalTest
    <3> QED BY <2>1, <3>1 DEF StageLeft
  <2>4. CASE Call
    <3>1. pc = "run" /\ step \in DOMAIN dut
      <4>1. pc = "run" /\ step <= Len(dut) /\ step \in Nat \ {0} /\ dut \in Tests
        BY <2>4 DEF Call, TypeOK, Control
      <4>2. DOMAIN dut = 1..Len(dut) /\ Len(dut) \in Nat
        BY <4>1, TestTyped
      <4> QED BY <4>1, <4>2
    <3>2. Passes(Op, held, open) /\ Op.kind \notin {"sanity", "verify"}
      BY <2>4, <3>1, AtOperation DEF Kept, Following, Call
    <3>3. ~Refuses
      BY <3>2 DEF Passes, Refuses
    <3>4. pc' = "flash" /\ UNCHANGED <<loop, step>>
      BY <2>4, <3>3 DEF Call, Throw
    <3> QED BY <2>1, <3>1, <3>4 DEF StageLeft, WorkLeft, loop
  <2>5. CASE FlashOperation
    <3>1. /\ pc = "flash" /\ todo \in Seq(Nat) /\ todo # << >>
          /\ UNCHANGED <<loop, step, formats>>
      BY <2>5 DEF FlashOperation, TypeOK
    <3>2. CASE TearingSize(Head(todo)) = 0
      <4>1. todo' = Tail(todo) /\ pc' = pc
        BY <2>5, <3>2 DEF FlashOperation
      <4>2. Len(todo') < Len(todo)
        BY <3>1, <4>1, HeadTyped
      <4> QED BY <2>1, <3>1, <4>1, <4>2 DEF StageLeft, WorkLeft, loop
    <3>3. CASE TearingSize(Head(todo)) # 0
      <4>1. pc' = "caught"
        BY <2>5, <3>3 DEF FlashOperation, Throw
      <4> QED BY <2>1, <3>1, <4>1 DEF StageLeft
    <3> QED BY <3>2, <3>3
  <2>6. ASSUME pc \in {"run", "flash"}, pc' = "run", step' = step + 1,
               UNCHANGED loop
        PROVE  /\ RunsLeft' = RunsLeft /\ StageLeft' = StageLeft
               /\ WorkLeft' < WorkLeft
    <3>1. step \in Nat /\ Len(dut) \in Nat
      BY <2>6, TestTyped DEF TypeOK, Control
    <3> QED BY <2>1, <2>6, <3>1 DEF StageLeft, WorkLeft, loop
  <2>7. CASE Return
    BY <2>6, <2>7 DEF Return
  <2>8. CASE Verify
    <3>1. err_code' # "error"
      BY DEF Kept, Counting
    <3>2. pc = "run" /\ pc' = "run" /\ step' = step + 1 /\ UNCHANGED loop
      BY <2>8, <3>1 DEF Verify, Throw
    <3> QED BY <2>6, <3>2
  <2>9. CASE Completed
    <3>1. pc = "run" /\ pc' = "over" /\ UNCHANGED loop
      BY <2>9 DEF Completed
    <3> QED BY <2>1, <3>1 DEF StageLeft
  <2>10. CASE HandleTearing
    <3>1. err_code' # "error" /\ pc' # "abort"
      BY DEF Kept, Counting
    <3>2. pc = "caught" /\ pc' = "handler_format" /\ UNCHANGED loop
      BY <2>10, <3>1 DEF HandleTearing, CheckNvm, Throw
    <3> QED BY <2>1, <3>2 DEF StageLeft
  <2>11. CASE HandleError
    BY <2>11 DEF HandleError, Kept, Counting
  <2>12. CASE HandlerOver
    <3>1. pc = "handler_format" /\ pc' = "over" /\ UNCHANGED loop
      BY <2>12 DEF HandlerOver
    <3> QED BY <2>1, <3>1 DEF StageLeft
  <2>13. CASE Counted
    <3>1. err_code' # "error"
      BY DEF Kept, Counting
    <3>2. pc' # "caught" /\ phase = "count" /\ phase' = "counted" /\ dut' = dut
      BY <2>13, <3>1 DEF Counted, CheckNvm, Throw, Kept, Counting
    <3>3. Total' \div WriteSize \in Nat /\ Total' = Total
      BY <3>2, DistanceTyped DEF Total
    <3> QED BY <3>2, <3>3 DEF RunsLeft
  <2>14. CASE StartSweep
    <3>1. /\ phase = "counted" /\ phase' = "sweep" /\ target' = 0 /\ dut' = dut
      BY <2>14 DEF StartSweep
    <3>2. Total' \div WriteSize \in Nat /\ Total' = Total
      BY <3>1, DistanceTyped DEF Total
    <3> QED BY <3>1, <3>2 DEF RunsLeft
  <2>15. CASE NextTarget
    <3>1. /\ phase = "sweep" /\ phase' = "sweep" /\ target' = target + 1
          /\ dut' = dut /\ target \in Nat
      BY <2>15 DEF NextTarget, TypeOK
    <3>2. Total' \div WriteSize \in Nat /\ Total' = Total
      BY <3>1, DistanceTyped DEF Total
    <3> QED BY <3>1, <3>2 DEF RunsLeft
  <2>16. CASE Pass
    <3>1. /\ pc = "over" /\ pc' = "begin"
          /\ UNCHANGED <<dut, phase, target>>
      BY <2>16 DEF Pass
    <3>2. RunsLeft' = RunsLeft
      BY <3>1 DEF RunsLeft, Total
    <3> QED BY <3>1, <3>2 DEF StageLeft
  <2>17. ~Begin
    BY DEF Begin
  <2> QED BY <2>2, <2>3, <2>4, <2>5, <2>7, <2>8, <2>9, <2>10, <2>11, <2>12,
             <2>13, <2>14, <2>15, <2>16, <2>17 DEF Next
<1>2. /\ Distance = <<RunsLeft, StageLeft, WorkLeft, Open, Len(todo)>>
      /\ Distance' = <<RunsLeft', StageLeft', WorkLeft', Open', Len(todo')>>
  BY DEF Distance
<1> HIDE DEF Open
<1>3. Below(<<RunsLeft', StageLeft', WorkLeft', Open', Len(todo')>>,
            <<RunsLeft, StageLeft, WorkLeft, Open, Len(todo)>>)
  BY <1>1, Lexical
<1> QED BY <1>2, <1>3

(* A test of n write units takes at most n + 2 runs: each step of a library*)
(* that works brings the harness closer to the end of the test.            *)
THEOREM EachStepAdvances == Spec => SweepAdvances
<1> DEFINE Advance == pc # "begin" /\ failed' = "none" =>
                        Distance' \in [1..5 -> Nat] /\ Below(Distance', Distance)
<1>1. IInv /\ IInv' /\ [Next]_vars => [Advance]_vars
  <2> SUFFICES ASSUME IInv, IInv', Next, pc # "begin", failed' = "none"
               PROVE  Distance' \in [1..5 -> Nat] /\ Below(Distance', Distance)
    OBVIOUS
  <2>1. failed = "none"
    BY DEF Next, Begin, Format, FunctionalTest, Call, FlashOperation,
       Return, Verify, Completed, HandleTearing, HandleError, HandlerOver, Counted,
       StartSweep, NextTarget, Pass, history
  <2>2. TypeOK /\ Control /\ Kept /\ TypeOK' /\ Control' /\ Kept'
    BY <2>1 DEF IInv
  <2>3. Distance' \in [1..5 -> Nat]
    <3>1. TypeOK' /\ Control' /\ Kept' => (Distance \in [1..5 -> Nat])'
      BY DistanceTyped, PTL
    <3> QED BY <2>2, <3>1
  <2> QED BY <2>1, <2>2, <2>3, Closer
<1> QED BY <1>1, Invariant, PTL DEF Spec, SweepAdvances

=============================================================================
