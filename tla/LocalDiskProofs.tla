-------------------------- MODULE LocalDiskProofs --------------------------
(***************************************************************************)
(* Proofs about what keeps to the local disk.  The output store: for any   *)
(* number of operations and any limits, quota, slots, files and entries    *)
(* agree, and nothing is left behind but what a tombstone names.  The      *)
(* installer: for any releases, any number of processes and any fault, a   *)
(* command that reports an error has put back what it found, and one that  *)
(* reports success has done what it is for.                                *)
(***************************************************************************)
EXTENDS OutputStore, Install, SumTheorems

-----------------------------------------------------------------------------
(*                           THE OUTPUT STORE                              *)

(* The inductive invariant *)

HeldFiles == {f \in Files : Held(holders, tombs, f)}
Pinned(c) == \E x \in tombs : x.op = c
Named(c, s) == \E x \in tombs : x.op = c /\ x.stream = s

Registering == {"register stdout", "register stderr", "register accounting"}
Writing == {"open", "store", "over"}
Capturing == Registering \cup Writing

\* Who holds the accounting of an operation at each of its places.
HoldersKnown(c) ==
  /\ "sink" \in holders[c] <=> op[c] \in Capturing \cup {"serialize"}
  /\ "owner" \in holders[c] => owner[c] /\ op[c] \in Writing \cup {"done"}
  /\ kind[c] = "internal" /\ op[c] \in Writing /\ owner[c] => "owner" \in holders[c]
  /\ "entry" \in holders[c] <=> entry[c] # "absent"
  /\ "lease" \in holders[c] <=> access[c] = "open"
  /\ "owner" \in holders[c] \/ op[c] \in Registering => kind[c] = "internal"
  /\ op[c] \in {"queued", "serialize"} => kind[c] = "retain"
  /\ kind[c] = "retain" => op[c] \notin Capturing
  /\ entry[c] # "absent" \/ access[c] # "no" => op[c] = "done" /\ kind[c] # "internal"

\* When a tombstone can name files of an operation.
TombsLate(c) ==
  Pinned(c) => /\ op[c] = "done" \/ (op[c] \in Capturing /\ kind[c] = "internal" /\ ~owner[c])
               /\ entry[c] = "absent"

\* What an operation has reserved and put into its files.
Previewed(c) ==
  /\ Aggregate(c) <= MaxOutput
  /\ op[c] \notin Capturing => ~spooled[c] /\ seen[c] = Nothing
  /\ op[c] \in Capturing =>
       /\ reserved[c] = seen[c]
       /\ op[c] \in Registering => seen[c] = Nothing
       /\ kind[c] = "internal" => spooled[c]
       /\ ~spooled[c] => file[c] = NoFiles
       /\ op[c] \in Registering \cup {"open", "over"} =>
            \A s \in Streams : file[c][s] \in {Absent, seen[c][s]}
       /\ op[c] = "store" => /\ \A s \in Streams : file[c][s] <= seen[c][s]
                             /\ chunk[c].bytes \in 1 .. seen[c][chunk[c].stream]
       /\ spooled[c] /\ kind[c] = "capture" => \A s \in Streams : file[c][s] # Absent
  /\ op[c] = "serialize" =>
       /\ reserved[c]["stdout"] = MaxOutput /\ reserved[c]["stderr"] = 0
       /\ file[c]["stdout"] # Absent /\ file[c]["stderr"] = Absent
  /\ entry[c] # "absent" =>
       \A s \in Streams : file[c][s] = length[c][s] \/ (kind[c] = "retain" /\ s = "stderr")

\* What no accounting holds is not charged; a file is charged, has a slot, and
\* somebody who will unlink it.
Charged(c) ==
  /\ \A s \in Streams : ~Held(holders, tombs, <<c, s>>) => reserved[c][s] = 0
  /\ \A s \in Streams : file[c][s] # Absent =>
       /\ c \in slots
       /\ file[c][s] <= reserved[c][s]
       /\ Named(c, s) \/ {"sink", "entry", "owner"} \cap holders[c] # {}
       /\ op[c] \in Writing /\ kind[c] = "internal" /\ ~owner[c] => Named(c, s)
  /\ spooled[c] \/ op[c] = "serialize" => c \in slots
  /\ c \in slots => SlotHeld(holders, tombs, c)
  /\ holders[c] = {} /\ ~Pinned(c) => file[c] = NoFiles

OpInv(c) == HoldersKnown(c) /\ TombsLate(c) /\ Previewed(c) /\ Charged(c)

Finite == IsFiniteSet(HeldFiles) /\ IsFiniteSet(slots) /\ Cardinality(slots) <= maxEntries

Exact == used = Sum(reserved, HeldFiles) /\ used <= Limit

StoreInv == TypeOK /\ Finite /\ Exact /\ \A c \in Op : OpInv(c)

-----------------------------------------------------------------------------
(* Sums of reservations *)

LEMMA SumSame ==
  ASSUME NEW S, IsFiniteSet(S), NEW r, NEW q, \A x \in S : r[x[1]][x[2]] = q[x[1]][x[2]]
  PROVE  Sum(r, S) = Sum(q, S)
BY SumAgree DEF Sum

LEMMA SumNatural ==
  ASSUME NEW S, IsFiniteSet(S), NEW r, \A x \in S : r[x[1]][x[2]] \in Nat
  PROVE  Sum(r, S) \in Nat
<1> DEFINE f == [x \in S |-> r[x[1]][x[2]]]
<1>1. \A x \in S : f[x] \in Nat
  OBVIOUS
<1> HIDE DEF f
<1>2. SumFunctionOnSet(f, S) \in Nat
  BY <1>1, SumNat
<1> QED
  BY <1>2 DEF Sum, f

LEMMA SumParts ==
  ASSUME NEW S, IsFiniteSet(S), NEW R, IsFiniteSet(R), S \cap R = {},
         NEW r, \A x \in S \cup R : r[x[1]][x[2]] \in Nat
  PROVE  Sum(r, S \cup R) = Sum(r, S) + Sum(r, R)
<1> DEFINE f == [x \in S \cup R |-> r[x[1]][x[2]]]
           g == [x \in S |-> r[x[1]][x[2]]]
           h == [x \in R |-> r[x[1]][x[2]]]
<1>1. /\ \A x \in S \cup R : f[x] \in Int
      /\ \A x \in S : f[x] = g[x]
      /\ \A x \in R : f[x] = h[x]
  OBVIOUS
<1> HIDE DEF f, g, h
<1>2. SumFunctionOnSet(f, S \cup R) = SumFunctionOnSet(f, S) + SumFunctionOnSet(f, R)
  BY <1>1, SumSplit
<1>3. SumFunctionOnSet(f, S) = SumFunctionOnSet(g, S)
  BY <1>1, SumAgree
<1>4. SumFunctionOnSet(f, R) = SumFunctionOnSet(h, R)
  BY <1>1, SumAgree
<1> QED
  BY <1>2, <1>3, <1>4 DEF Sum, f, g, h

LEMMA SumOne ==
  ASSUME NEW a, NEW r, r[a[1]][a[2]] \in Nat
  PROVE  Sum(r, {a}) = r[a[1]][a[2]] /\ Sum(r, {}) = 0
<1> DEFINE f == [x \in {a} |-> r[x[1]][x[2]]]
<1>1. f[a] = r[a[1]][a[2]] /\ IsFiniteSet({}) /\ {} \cup {a} = {a}
  BY FS_EmptySet
<1>2. Sum(r, {a}) = SumFunctionOnSet(f, {a})
  BY DEF Sum
<1> HIDE DEF f
<1>3. SumFunctionOnSet(f, {} \cup {a}) = f[a] + SumFunctionOnSet(f, {})
  BY <1>1, SumAdd
<1> QED
  BY <1>1, <1>2, <1>3, SumEmpty DEF Sum

\* What the streams of an operation that are in S add up to.
Part(r, S, c) == (IF <<c, "stdout">> \in S THEN r[c]["stdout"] ELSE 0)
                 + (IF <<c, "stderr">> \in S THEN r[c]["stderr"] ELSE 0)

LEMMA SumStreams ==
  ASSUME NEW c, NEW S, S \subseteq {<<c, "stdout">>, <<c, "stderr">>},
         NEW r, \A s \in Streams : r[c][s] \in Nat
  PROVE  IsFiniteSet(S) /\ Sum(r, S) = Part(r, S, c)
<1> DEFINE a == <<c, "stdout">>
           b == <<c, "stderr">>
<1>1. /\ r[a[1]][a[2]] \in Nat /\ r[b[1]][b[2]] \in Nat /\ a # b
      /\ r[a[1]][a[2]] = r[c]["stdout"] /\ r[b[1]][b[2]] = r[c]["stderr"]
  BY DEF Streams
<1> HIDE DEF a, b
<1>0. {a} \cup {b} = {a, b} /\ {a} \cap {b} = {}
  BY <1>1
<1>2. IsFiniteSet({}) /\ IsFiniteSet({a}) /\ IsFiniteSet({b}) /\ IsFiniteSet({a, b})
  <2>1. \A x : IsFiniteSet({x})
    BY FS_Singleton
  <2>2. IsFiniteSet({a} \cup {b})
    BY <2>1, FS_Union
  <2> QED
    BY <1>0, <2>1, <2>2, FS_EmptySet
<1>3. /\ Sum(r, {}) = 0 /\ Sum(r, {a}) = r[c]["stdout"] /\ Sum(r, {b}) = r[c]["stderr"]
  BY <1>1, SumOne
<1>4. Sum(r, {a} \cup {b}) = Sum(r, {a}) + Sum(r, {b})
  <2>1. \A x \in {a} \cup {b} : r[x[1]][x[2]] \in Nat
    BY <1>1
  <2> QED
    BY <1>0, <1>2, <2>1, SumParts
<1>5. S = {} \/ S = {a} \/ S = {b} \/ S = {a, b}
  BY DEF a, b
<1>6. Part(r, S, c) = (IF a \in S THEN r[c]["stdout"] ELSE 0)
                      + (IF b \in S THEN r[c]["stderr"] ELSE 0)
  BY DEF Part, a, b
<1>7. r[c]["stdout"] \in Nat /\ r[c]["stderr"] \in Nat
  BY DEF Streams
<1>8. IsFiniteSet(S)
  BY <1>2, <1>5
<1>9. Sum(r, S) = Part(r, S, c)
  <2>1. CASE S = {}
    BY <1>3, <1>6, <2>1
  <2>2. CASE S = {a}
    BY <1>1, <1>3, <1>6, <1>7, <2>2
  <2>3. CASE S = {b}
    BY <1>1, <1>3, <1>6, <1>7, <2>3
  <2>4. CASE S = {a, b}
    BY <1>0, <1>1, <1>3, <1>4, <1>6, <1>7, <2>4
  <2> QED
    BY <1>5, <2>1, <2>2, <2>3, <2>4
<1> QED
  BY <1>8, <1>9

\* The share of one operation, apart from the others.
LEMMA ShareApart ==
  ASSUME NEW c, NEW S, IsFiniteSet(S), S \subseteq Op \X Streams,
         NEW r, \A x \in S : r[x[1]][x[2]] \in Nat, \A s \in Streams : r[c][s] \in Nat
  PROVE  /\ IsFiniteSet({x \in S : x[1] # c}) /\ Sum(r, {x \in S : x[1] # c}) \in Nat
         /\ Sum(r, S) = Sum(r, {x \in S : x[1] # c}) + Part(r, S, c)
<1> DEFINE Rest == {x \in S : x[1] # c}
           Own == S \cap {<<c, "stdout">>, <<c, "stderr">>}
<1>1. Rest \cup Own = S /\ Rest \cap Own = {} /\ Rest \subseteq S
  BY DEF Streams
<1>2. IsFiniteSet(Rest) /\ IsFiniteSet(Own)
  BY FS_Subset
<1>3. Sum(r, Own) = Part(r, Own, c)
  BY SumStreams
<1>4. Part(r, Own, c) = Part(r, S, c)
  BY DEF Part
<1> HIDE DEF Rest, Own
<1>5. Sum(r, Rest \cup Own) = Sum(r, Rest) + Sum(r, Own)
  BY <1>1, <1>2, SumParts
<1>6. Sum(r, Rest) \in Nat
  BY <1>1, <1>2, SumNatural
<1> QED
  BY <1>1, <1>2, <1>3, <1>4, <1>5, <1>6 DEF Rest

-----------------------------------------------------------------------------
(* What one operation does to the others                                   *)

Owed(c) == reserved[c]["stdout"] + reserved[c]["stderr"]

\* The other operations have what they had.
Others(c) ==
  \A d \in Op \ {c} :
    /\ kind'[d] = kind[d] /\ op'[d] = op[d] /\ spooled'[d] = spooled[d]
    /\ seen'[d] = seen[d] /\ chunk'[d] = chunk[d] /\ reserved'[d] = reserved[d]
    /\ file'[d] = file[d] /\ length'[d] = length[d] /\ holders'[d] = holders[d]
    /\ entry'[d] = entry[d] /\ owner'[d] = owner[d] /\ access'[d] = access[d]
    /\ d \in slots' <=> d \in slots
    /\ \A x : x.op = d => (x \in tombs' <=> x \in tombs)

LEMMA HeldSame ==
  ASSUME NEW c, NEW d \in Op \ {c}, Others(c), NEW s \in Streams
  PROVE  /\ Held(holders, tombs, <<d, s>>)' <=> Held(holders, tombs, <<d, s>>)
         /\ SlotHeld(holders, tombs, d)' <=> SlotHeld(holders, tombs, d)
         /\ Pinned(d)' <=> Pinned(d)
         /\ Named(d, s)' <=> Named(d, s)
<1>1. holders'[d] = holders[d] /\ \A x : x.op = d => (x \in tombs' <=> x \in tombs)
  BY DEF Others
<1>2. Target(d, s, TRUE).op = d
  BY DEF Target
<1>3. Target(d, s, TRUE) \in tombs' <=> Target(d, s, TRUE) \in tombs
  BY <1>1, <1>2
<1>4. (\E x \in tombs' : x.op = d) <=> (\E x \in tombs : x.op = d)
  BY <1>1
<1>5. (\E x \in tombs' : x.op = d /\ x.stream = s) <=> (\E x \in tombs : x.op = d /\ x.stream = s)
  BY <1>1
<1> QED
  BY <1>1, <1>3, <1>4, <1>5 DEF Held, SlotHeld, Pinned, Named

LEMMA OthersKeep ==
  ASSUME NEW c, NEW d \in Op \ {c}, Others(c), OpInv(d)
  PROVE  OpInv(d)'
<1>1. /\ kind'[d] = kind[d] /\ op'[d] = op[d] /\ spooled'[d] = spooled[d]
      /\ seen'[d] = seen[d] /\ chunk'[d] = chunk[d] /\ reserved'[d] = reserved[d]
      /\ file'[d] = file[d] /\ length'[d] = length[d] /\ holders'[d] = holders[d]
      /\ entry'[d] = entry[d] /\ owner'[d] = owner[d] /\ access'[d] = access[d]
      /\ d \in slots' <=> d \in slots
  BY DEF Others
<1>2. \A s \in Streams : /\ Held(holders, tombs, <<d, s>>)' <=> Held(holders, tombs, <<d, s>>)
                         /\ Named(d, s)' <=> Named(d, s)
  BY HeldSame
<1>3. (SlotHeld(holders, tombs, d)' <=> SlotHeld(holders, tombs, d)) /\ (Pinned(d)' <=> Pinned(d))
  BY HeldSame DEF Streams
<1>4. HoldersKnown(d)'
  BY <1>1 DEF OpInv, HoldersKnown
<1>5. TombsLate(d)'
  BY <1>1, <1>3 DEF OpInv, TombsLate
<1>6. Previewed(d)'
  BY <1>1 DEF OpInv, Previewed, Aggregate
<1>7. Charged(d)'
  BY <1>1, <1>2, <1>3 DEF OpInv, Charged
<1> QED
  BY <1>4, <1>5, <1>6, <1>7 DEF OpInv

\* What an operation owes is what its held reservations add up to.
LEMMA OwedPart ==
  ASSUME NEW c \in Op, \A s \in Streams : ~Held(holders, tombs, <<c, s>>) => reserved[c][s] = 0
  PROVE  Part(reserved, HeldFiles, c) = Owed(c)
<1>1. \A s \in Streams : <<c, s>> \in HeldFiles <=> Held(holders, tombs, <<c, s>>)
  BY DEF HeldFiles, Files
<1>2. \A s \in Streams : (IF <<c, s>> \in HeldFiles THEN reserved[c][s] ELSE 0) = reserved[c][s]
  BY <1>1
<1> QED
  BY <1>2 DEF Part, Owed, Streams

\* The quota follows what the operation owes.
LEMMA QuotaFollows ==
  ASSUME StoreInv, NEW c \in Op, Others(c), Charged(c)',
         reserved' \in [Op -> [Streams -> 0 .. MaxOutput]],
         used' = used - Owed(c) + Owed(c)'
  PROVE  IsFiniteSet(HeldFiles)' /\ used' = Sum(reserved, HeldFiles)' /\ used' \in Nat
<1> DEFINE Rest == {x \in HeldFiles : x[1] # c}
<1>t. /\ reserved \in [Op -> [Streams -> 0 .. MaxOutput]] /\ IsFiniteSet(HeldFiles)
      /\ used = Sum(reserved, HeldFiles) /\ Charged(c) /\ MaxOutput \in Nat
  BY OutputStoreAssumption DEF StoreInv, TypeOK, Finite, Exact, OpInv, OutputStoreAssumption
<1>u. /\ \A x \in Files : reserved[x[1]][x[2]] \in Nat /\ reserved'[x[1]][x[2]] \in Nat
      /\ \A s \in Streams : reserved[c][s] \in Nat /\ reserved'[c][s] \in Nat
  BY <1>t DEF Files
<1>1. {x \in HeldFiles' : x[1] # c} = Rest
  <2>1. ASSUME NEW x \in Files, x[1] # c
        PROVE  Held(holders, tombs, x)' <=> Held(holders, tombs, x)
    <3>1. PICK d \in Op, s \in Streams : x = <<d, s>>
      BY DEF Files
    <3>2. d \in Op \ {c}
      BY <2>1, <3>1
    <3> QED
      BY <3>1, <3>2, HeldSame
  <2> QED
    BY <2>1 DEF HeldFiles
<1>2. IsFiniteSet(HeldFiles')
  <2>1. IsFiniteSet(Rest)
    BY <1>t, FS_Subset
  <2>2. IsFiniteSet({<<c, "stdout">>} \cup {<<c, "stderr">>})
    BY FS_Singleton, FS_Union
  <2>3. IsFiniteSet(Rest \cup ({<<c, "stdout">>} \cup {<<c, "stderr">>}))
    BY <2>1, <2>2, FS_Union
  <2>4. HeldFiles' \subseteq Rest \cup ({<<c, "stdout">>} \cup {<<c, "stderr">>})
    BY <1>1 DEF HeldFiles, Files, Streams
  <2> HIDE DEF Rest
  <2> QED
    BY <2>3, <2>4, FS_Subset
<1>3. /\ Sum(reserved, HeldFiles) = Sum(reserved, Rest) + Part(reserved, HeldFiles, c)
      /\ IsFiniteSet(Rest) /\ Sum(reserved, Rest) \in Nat
  <2>1. HeldFiles \subseteq Op \X Streams
    BY DEF HeldFiles, Files
  <2>2. \A x \in HeldFiles : reserved[x[1]][x[2]] \in Nat
    BY <1>u DEF HeldFiles
  <2> HIDE DEF HeldFiles
  <2> QED
    BY <1>t, <1>u, <2>1, <2>2, ShareApart
<1>4. Sum(reserved', HeldFiles') = Sum(reserved', Rest) + Part(reserved', HeldFiles', c)
  <2>1. HeldFiles' \subseteq Op \X Streams
    BY DEF HeldFiles, Files
  <2>2. \A x \in HeldFiles' : reserved'[x[1]][x[2]] \in Nat
    BY <1>u DEF HeldFiles
  <2> HIDE DEF HeldFiles
  <2>3. Sum(reserved', HeldFiles') =
          Sum(reserved', {x \in HeldFiles' : x[1] # c}) + Part(reserved', HeldFiles', c)
    BY <1>2, <1>u, <2>1, <2>2, ShareApart
  <2> QED
    BY <1>1, <2>3
<1>5. Sum(reserved', Rest) = Sum(reserved, Rest)
  <2>1. \A x \in Rest : reserved'[x[1]][x[2]] = reserved[x[1]][x[2]]
    BY DEF HeldFiles, Files, Others
  <2> HIDE DEF Rest
  <2> QED
    BY <1>3, <2>1, SumSame
<1>6. Part(reserved, HeldFiles, c) = Owed(c)
  BY <1>t, OwedPart DEF Charged
<1>7. Part(reserved', HeldFiles', c) = Owed(c)'
  <2>1. \A s \in Streams : ~Held(holders', tombs', <<c, s>>) => reserved'[c][s] = 0
    BY DEF Charged, Held, Target
  <2>2. \A s \in Streams : <<c, s>> \in HeldFiles' <=> Held(holders', tombs', <<c, s>>)
    BY DEF HeldFiles, Files, Held, Target
  <2> QED
    BY <2>1, <2>2 DEF Part, Owed, Streams
<1>8. Owed(c) \in Nat /\ Owed(c)' \in Nat
  BY <1>u DEF Owed, Streams
<1> HIDE DEF Rest
<1> QED
  BY <1>2, <1>3, <1>4, <1>5, <1>6, <1>7, <1>8, <1>t DEF Sum

LEMMA SlotsFinite ==
  ASSUME TypeOK, Finite, NEW c, maxEntries' = maxEntries, slots' \subseteq slots \cup {c},
         SlotFree \/ c \in slots \/ slots' \subseteq slots
  PROVE  IsFiniteSet(slots') /\ Cardinality(slots') <= maxEntries
<1>1. IsFiniteSet(slots) /\ Cardinality(slots) \in Nat /\ maxEntries \in Nat
      /\ Cardinality(slots) <= maxEntries
  BY FS_CardinalityType, OutputStoreAssumption DEF Finite, TypeOK, OutputStoreAssumption
<1>2. CASE slots' \subseteq slots
  BY <1>1, <1>2, FS_Subset, FS_CardinalityType
<1>3. CASE SlotFree /\ c \notin slots
  <2>1. IsFiniteSet(slots \cup {c}) /\ Cardinality(slots \cup {c}) = Cardinality(slots) + 1
    BY <1>1, <1>3, FS_AddElement
  <2>2. IsFiniteSet(slots') /\ Cardinality(slots') <= Cardinality(slots \cup {c})
        /\ Cardinality(slots') \in Nat
    BY <2>1, FS_Subset, FS_CardinalityType
  <2> QED
    BY <1>1, <1>3, <2>1, <2>2 DEF SlotFree
<1> QED
  BY <1>2, <1>3

\* What is left to show of a step of one operation.
LEMMA StepKeeps ==
  ASSUME StoreInv, NEW c \in Op, maxEntries' = maxEntries, Others(c), OpInv(c)',
         used' \in Nat => TypeOK', reserved' \in [Op -> [Streams -> 0 .. MaxOutput]],
         slots' \subseteq slots \cup {c}, SlotFree \/ c \in slots \/ slots' \subseteq slots,
         used' = used - Owed(c) + Owed(c)', used' <= Limit
  PROVE  StoreInv'
<1>1. /\ IsFiniteSet(HeldFiles)' /\ used' = Sum(reserved, HeldFiles)' /\ used' \in Nat
  BY QuotaFollows DEF OpInv
<1>2. IsFiniteSet(slots') /\ Cardinality(slots') <= maxEntries
  BY SlotsFinite DEF StoreInv
<1>3. \A d \in Op \ {c} : OpInv(d)'
  BY OthersKeep DEF StoreInv
<1> QED
  BY <1>1, <1>2, <1>3 DEF StoreInv, Finite, Exact

-----------------------------------------------------------------------------
(* Giving back                                                             *)

\* An account with r for reserved, and u for used, in which only c differs.
Account(c, r, u) ==
  /\ r \in [Op -> [Streams -> 0 .. MaxOutput]]
  /\ \A d \in Op \ {c} : r[d] = reserved[d]
  /\ \A s \in Streams : Held(holders, tombs, <<c, s>>) \/ r[c][s] = 0
  /\ u = used - Owed(c) + (r[c]["stdout"] + r[c]["stderr"])
  /\ u <= Limit

\* When Arcs are dropped the quota gets back what nothing holds any more.
LEMMA DropsBalance ==
  ASSUME StoreInv, NEW c \in Op, NEW h, NEW t, NEW r, NEW u, NEW sl, Drops(h, t, r, u, sl),
         \A d \in Op \ {c} : h[d] = holders[d] /\ (d \in sl <=> d \in slots),
         \A x : x.op # c => (x \in t <=> x \in tombs),
         Account(c, r, u), sl \subseteq Op
  PROVE  /\ used' = used - Owed(c) + Owed(c)' /\ used' <= Limit
         /\ reserved' \in [Op -> [Streams -> 0 .. MaxOutput]]
         /\ \A d \in Op \ {c} : reserved'[d] = reserved[d] /\ (d \in slots' <=> d \in slots)
         /\ slots' \subseteq sl
<1>t. /\ reserved \in [Op -> [Streams -> 0 .. MaxOutput]] /\ MaxOutput \in Nat /\ used \in Nat
      /\ r \in [Op -> [Streams -> 0 .. MaxOutput]] /\ Limit \in Nat
      /\ \A d \in Op : Charged(d)
  BY OutputStoreAssumption DEF StoreInv, TypeOK, OpInv, OutputStoreAssumption, Account
<1>u. reserved[c]["stdout"] \in Nat /\ reserved[c]["stderr"] \in Nat
  BY <1>t DEF Streams
<1>1. ASSUME NEW d \in Op \ {c}, NEW s \in Streams
      PROVE  /\ Held(h, t, <<d, s>>) <=> Held(holders, tombs, <<d, s>>)
             /\ SlotHeld(h, t, d) <=> SlotHeld(holders, tombs, d)
  <2>1. Target(d, s, TRUE).op # c
    BY DEF Target
  <2>2. \A x : x.op = d => (x \in t <=> x \in tombs)
    OBVIOUS
  <2>3. (\E x \in t : x.op = d) <=> (\E x \in tombs : x.op = d)
    BY <2>2
  <2> QED
    BY <2>1, <2>3 DEF Held, SlotHeld
<1>2. /\ reserved' = [d \in Op |-> [s \in Streams |-> IF Held(h, t, <<d, s>>) THEN r[d][s] ELSE 0]]
      /\ slots' = {d \in sl : SlotHeld(h, t, d)}
      /\ used' = u - Sum(r, {f \in Files : Held(holders, tombs, f) /\ ~Held(h, t, f)})
  BY DEF Drops
<1>3. reserved' \in [Op -> [Streams -> 0 .. MaxOutput]]
  BY <1>2, <1>t
<1>4. ASSUME NEW d \in Op \ {c}
      PROVE  reserved'[d] = reserved[d] /\ (d \in slots' <=> d \in slots)
  <2>1. \A s \in Streams : reserved'[d][s] = reserved[d][s]
    <3>1. \A s \in Streams : r[d][s] = reserved[d][s]
      BY DEF Account
    <3> QED
      BY <1>1, <1>2, <1>t, <3>1 DEF Charged
  <2>2. reserved'[d] = reserved[d]
    BY <2>1, <1>3, <1>t
  <2>3. d \in slots => SlotHeld(holders, tombs, d)
    BY <1>t DEF Charged
  <2> QED
    BY <2>2, <2>3, <1>1, <1>2 DEF Streams
<1> DEFINE Freed == {f \in Files : Held(holders, tombs, f) /\ ~Held(h, t, f)}
<1>5. Freed \subseteq {<<c, "stdout">>, <<c, "stderr">>}
  <2>1. ASSUME NEW f \in Freed PROVE f \in {<<c, "stdout">>, <<c, "stderr">>}
    <3>1. PICK d \in Op, s \in Streams : f = <<d, s>>
      BY <2>1 DEF Files
    <3>2. d = c
      BY <1>1, <2>1, <3>1
    <3> QED
      BY <3>1, <3>2 DEF Streams
  <2> QED
    BY <2>1
<1>6. \A s \in Streams : <<c, s>> \in Freed <=> Held(holders, tombs, <<c, s>>) /\ ~Held(h, t, <<c, s>>)
  BY DEF Files
<1>7. used' = u - Sum(r, Freed)
  BY <1>2
<1>8. \A s \in Streams : r[c][s] \in Nat
  BY <1>t
<1> HIDE DEF Freed
<1>9. Sum(r, Freed) = Part(r, Freed, c)
  BY <1>5, <1>8, SumStreams
<1>10. \A s \in Streams : (IF <<c, s>> \in Freed THEN r[c][s] ELSE 0) = r[c][s] - reserved'[c][s]
  <2>1. \A s \in Streams : reserved'[c][s] = IF Held(h, t, <<c, s>>) THEN r[c][s] ELSE 0
    BY <1>2
  <2>2. \A s \in Streams : Held(holders, tombs, <<c, s>>) \/ r[c][s] = 0
    BY DEF Account
  <2> QED
    BY <1>6, <1>8, <2>1, <2>2
<1>11. Part(r, Freed, c) = (r[c]["stdout"] - reserved'[c]["stdout"])
                           + (r[c]["stderr"] - reserved'[c]["stderr"])
  BY <1>10 DEF Part, Streams
<1>12. \A s \in Streams : reserved'[c][s] \in 0 .. r[c][s]
  BY <1>2, <1>8
<1>13. /\ used' = used - Owed(c) + Owed(c)' /\ used' <= Limit
  <2>1. /\ r[c]["stdout"] \in Nat /\ r[c]["stderr"] \in Nat
        /\ reserved'[c]["stdout"] \in 0 .. r[c]["stdout"]
        /\ reserved'[c]["stderr"] \in 0 .. r[c]["stderr"]
    BY <1>8, <1>12 DEF Streams
  <2>2. Owed(c) \in Nat
    BY <1>u DEF Owed
  <2>3. u = used - Owed(c) + (r[c]["stdout"] + r[c]["stderr"]) /\ u <= Limit
    BY DEF Account
  <2>4. Owed(c)' = reserved'[c]["stdout"] + reserved'[c]["stderr"]
    BY DEF Owed
  <2> HIDE DEF Owed
  <2> QED
    BY <1>7, <1>9, <1>11, <1>t, <2>1, <2>2, <2>3, <2>4
<1>14. slots' \subseteq sl
  BY <1>2
<1> QED
  BY <1>3, <1>4, <1>13, <1>14

\* What cleanup_paths does to c, if it leaves these files behind.
Left(c, who, files, r, sl, left) ==
  /\ left \subseteq {s \in Streams : files[s] # Absent}
  /\ holders'[c] = holders[c] \ {who}
  /\ \A s \in Streams :
       /\ file'[c][s] = IF s \in left THEN files[s] ELSE Absent
       /\ reserved'[c][s] = IF Held(holders', tombs', <<c, s>>) THEN r[c][s] ELSE 0
       /\ Named(c, s)' <=> Named(c, s) \/ s \in left
       /\ s \in left => Held(holders', tombs', <<c, s>>)
  /\ Pinned(c)' <=> Pinned(c) \/ left # {}
  /\ c \in slots' <=> c \in sl /\ SlotHeld(holders', tombs', c)

StoreTypes ==
  /\ reserved \in [Op -> [Streams -> 0 .. MaxOutput]]
  /\ file \in [Op -> [Streams -> Absent .. MaxOutput]]
  /\ holders \in [Op -> SUBSET {"sink", "owner", "entry", "lease"}]
  /\ tombs \subseteq [op : Op, stream : Streams, own : BOOLEAN]
  /\ slots \subseteq Op

OthersStored(c) ==
  \A d \in Op \ {c} :
    /\ reserved'[d] = reserved[d] /\ file'[d] = file[d] /\ holders'[d] = holders[d]
    /\ d \in slots' <=> d \in slots
    /\ \A x : x.op = d => (x \in tombs' <=> x \in tombs)

LEMMA CleanUpGoes ==
  ASSUME StoreInv, NEW c \in Op, NEW who, NEW files \in [Streams -> Absent .. MaxOutput],
         NEW r, NEW u, NEW sl, CleanUp(c, who, files, r, u, sl), Account(c, r, u),
         sl \in {slots, slots \cup {c}}
  PROVE  /\ StoreTypes' /\ OthersStored(c) /\ slots' \subseteq sl
         /\ used' = used - Owed(c) + Owed(c)' /\ used' <= Limit
         /\ \E left \in SUBSET Streams : Left(c, who, files, r, sl, left)
<1>1. PICK left \in Survivors(files) :
        /\ file' = [file EXCEPT ![c] = [s \in Streams |-> IF s \in left THEN files[s] ELSE Absent]]
        /\ Drops([holders EXCEPT ![c] = @ \ {who}],
                 tombs \cup {Target(c, s, TRUE) : s \in left}, r, u, sl)
  BY DEF CleanUp
<1>t. StoreTypes
  BY DEF StoreInv, TypeOK, StoreTypes
<1>2. left \subseteq {s \in Streams : files[s] # Absent} /\ left \in SUBSET Streams
  BY DEF Survivors
<1> DEFINE h == [holders EXCEPT ![c] = @ \ {who}]
           t == tombs \cup {Target(c, s, TRUE) : s \in left}
<1>3. /\ \A d \in Op \ {c} : h[d] = holders[d] /\ (d \in sl <=> d \in slots)
      /\ h[c] = holders[c] \ {who} /\ h \in [Op -> SUBSET {"sink", "owner", "entry", "lease"}]
      /\ sl \subseteq Op
  BY <1>t DEF StoreTypes
<1>a. \A s \in Streams : /\ Target(c, s, TRUE).op = c /\ Target(c, s, TRUE).stream = s
                         /\ Target(c, s, TRUE) \in [op : Op, stream : Streams, own : BOOLEAN]
  BY DEF Target
<1>b. \A x : x \in t <=> x \in tombs \/ \E s \in left : x = Target(c, s, TRUE)
  OBVIOUS
<1> HIDE DEF t
<1>4. /\ \A x : x.op # c => (x \in t <=> x \in tombs)
      /\ \A s \in Streams : s \in left => Target(c, s, TRUE) \in t
      /\ t \subseteq [op : Op, stream : Streams, own : BOOLEAN]
  <2>1. tombs \subseteq [op : Op, stream : Streams, own : BOOLEAN]
    BY <1>t DEF StoreTypes
  <2>2. ASSUME NEW x, x \in t, x \notin tombs
        PROVE  x.op = c /\ x \in [op : Op, stream : Streams, own : BOOLEAN]
    <3>1. PICK s \in left : x = Target(c, s, TRUE)
      BY <1>b, <2>2
    <3> QED
      BY <1>a, <1>2, <3>1
  <2> QED
    BY <1>a, <1>b, <1>2, <2>1, <2>2
<1>5. (\E x \in t : x.op = c) <=> (\E x \in tombs : x.op = c) \/ left # {}
  <2>1. ASSUME NEW s \in left PROVE Target(c, s, TRUE).op = c /\ Target(c, s, TRUE) \in t
    BY <1>a, <1>b, <1>2
  <2> QED
    BY <1>b, <2>1
<1>6. \A s \in Streams : (\E x \in t : x.op = c /\ x.stream = s)
                         <=> (\E x \in tombs : x.op = c /\ x.stream = s) \/ s \in left
  <2>1. ASSUME NEW s \in Streams, s \in left
        PROVE  Target(c, s, TRUE) \in t /\ Target(c, s, TRUE).op = c /\ Target(c, s, TRUE).stream = s
    BY <1>a, <1>b, <2>1
  <2>2. ASSUME NEW s \in Streams, NEW x \in t, x.op = c, x.stream = s, x \notin tombs
        PROVE  s \in left
    <3>1. PICK q \in left : x = Target(c, q, TRUE)
      BY <1>b, <2>2
    <3>2. q \in Streams
      BY <1>2
    <3>3. x.stream = q
      BY <1>a, <3>1, <3>2
    <3> QED
      BY <2>2, <3>3
  <2> QED
    BY <1>b, <2>1, <2>2
<1> HIDE DEF h, t
<1>7. Drops(h, t, r, u, sl)
  BY <1>1 DEF h, t
<1>8. /\ used' = used - Owed(c) + Owed(c)' /\ used' <= Limit
      /\ reserved' \in [Op -> [Streams -> 0 .. MaxOutput]]
      /\ \A d \in Op \ {c} : reserved'[d] = reserved[d] /\ (d \in slots' <=> d \in slots)
      /\ slots' \subseteq sl
  BY <1>3, <1>4, <1>7, DropsBalance
<1>9. holders' = h /\ tombs' = t
  BY <1>7 DEF Drops
<1>10. StoreTypes'
  <2>1. file' \in [Op -> [Streams -> Absent .. MaxOutput]]
    <3>1. [s \in Streams |-> IF s \in left THEN files[s] ELSE Absent]
            \in [Streams -> Absent .. MaxOutput]
      BY OutputStoreAssumption DEF OutputStoreAssumption, Absent
    <3> QED
      BY <1>1, <1>t, <3>1 DEF StoreTypes
  <2> QED
    BY <1>3, <1>4, <1>8, <1>9, <2>1 DEF StoreTypes
<1>11. OthersStored(c)
  <2>1. \A d \in Op \ {c} : file'[d] = file[d]
    BY <1>1
  <2> QED
    BY <1>3, <1>4, <1>8, <1>9, <2>1 DEF OthersStored
<1>12. Left(c, who, files, r, sl, left)
  <2>1. \A s \in Streams : file'[c][s] = IF s \in left THEN files[s] ELSE Absent
    BY <1>1, <1>t DEF StoreTypes
  <2>2. \A s \in Streams : reserved'[c][s] = IF Held(h, t, <<c, s>>) THEN r[c][s] ELSE 0
    BY <1>7 DEF Drops
  <2>3. c \in slots' <=> c \in sl /\ SlotHeld(h, t, c)
    BY <1>7 DEF Drops
  <2>4. \A s \in left : Held(h, t, <<c, s>>)
    BY <1>2, <1>4 DEF Held
  <2>5. Pinned(c)' <=> Pinned(c) \/ left # {}
    BY <1>5, <1>9 DEF Pinned
  <2>6. \A s \in Streams : Named(c, s)' <=> Named(c, s) \/ s \in left
    BY <1>6, <1>9 DEF Named
  <2> QED
    BY <1>2, <1>3, <1>9, <2>1, <2>2, <2>3, <2>4, <2>5, <2>6 DEF Left
<1> QED
  BY <1>2, <1>8, <1>10, <1>11, <1>12

\* What a step of c leaves to the others when it only stores or gives back.
LEMMA OthersFrame ==
  ASSUME TypeOK, NEW c \in Op, OthersStored(c), UNCHANGED <<kind, entry, length, owner, access>>,
         \/ Over(c)
         \/ UNCHANGED <<op, spooled, seen, chunk>>
  PROVE  Others(c)
<1>1. \A d \in Op \ {c} : op'[d] = op[d] /\ spooled'[d] = spooled[d] /\ seen'[d] = seen[d]
                          /\ chunk'[d] = chunk[d]
  <2>1. CASE Over(c)
    BY <2>1 DEF Over, TypeOK
  <2>2. CASE UNCHANGED <<op, spooled, seen, chunk>>
    BY <2>2
  <2> QED
    BY <2>1, <2>2
<1> QED
  BY <1>1 DEF Others, OthersStored

LEMMA OverTypes ==
  ASSUME TypeOK, NEW c \in Op, Over(c)
  PROVE  /\ op' \in [Op -> {"none", "register stdout", "register stderr", "register accounting",
                            "open", "store", "over", "queued", "serialize", "done"}]
         /\ spooled' \in [Op -> BOOLEAN] /\ seen' \in [Op -> [Streams -> 0 .. MaxOutput]]
         /\ chunk' \in [Op -> [stream : Streams, bytes : 0 .. MaxOutput, over : BOOLEAN]]
         /\ op'[c] = "done" /\ ~spooled'[c] /\ seen'[c] = Nothing
<1>1. Nothing \in [Streams -> 0 .. MaxOutput]
      /\ NoChunk \in [stream : Streams, bytes : 0 .. MaxOutput, over : BOOLEAN]
  BY OutputStoreAssumption DEF OutputStoreAssumption, Nothing, NoChunk, Streams
<1> QED
  BY <1>1 DEF TypeOK, Over

\* An operation that is over without an entry has what its invariant wants.
LEMMA OverInv ==
  ASSUME NEW c \in Op, HoldersKnown(c), op[c] \notin {"done"}, Over(c),
         op'[c] = "done", ~spooled'[c], seen'[c] = Nothing,
         UNCHANGED <<kind, entry, length, owner, access>>,
         holders'[c] = holders[c] \ {"sink"}
  PROVE  HoldersKnown(c)' /\ TombsLate(c)' /\ Previewed(c)'
<1>1. entry[c] = "absent" /\ access[c] = "no"
  BY DEF HoldersKnown
<1>2. entry'[c] = "absent" /\ access'[c] = "no" /\ kind'[c] = kind[c] /\ owner'[c] = owner[c]
  BY <1>1
<1>3. HoldersKnown(c)'
  BY <1>1, <1>2 DEF HoldersKnown, Capturing, Registering, Writing
<1>4. TombsLate(c)'
  BY <1>2 DEF TombsLate
<1>5. Previewed(c)'
  <2>1. Aggregate(c)' = 0
    BY DEF Aggregate, Nothing, Streams
  <2> QED
    BY <1>2, <2>1, OutputStoreAssumption
       DEF Previewed, Capturing, Registering, Writing, OutputStoreAssumption
<1> QED
  BY <1>3, <1>4, <1>5

LEMMA SinkGoesKeeps ==
  ASSUME StoreInv, NEW c \in Op, maxEntries' = maxEntries,
         NEW files \in [Streams -> Absent .. MaxOutput], NEW r, NEW u, NEW sl,
         SinkGoes(c, files, r, u, sl), Account(c, r, u), sl \in {slots, slots \cup {c}},
         op[c] # "done", SlotFree \/ c \in slots \/ sl = slots,
         \A s \in Streams : files[s] # Absent => c \in sl /\ files[s] <= r[c][s]
  PROVE  StoreInv'
<1>t. TypeOK /\ OpInv(c)
  BY DEF StoreInv
<1>0. CleanUp(c, "sink", files, r, u, sl) /\ Over(c) /\ UNCHANGED <<kind, entry, length, owner, access>>
  BY DEF SinkGoes
<1>1. /\ StoreTypes' /\ OthersStored(c) /\ slots' \subseteq sl
      /\ used' = used - Owed(c) + Owed(c)' /\ used' <= Limit
      /\ \E left \in SUBSET Streams : Left(c, "sink", files, r, sl, left)
  BY <1>0, CleanUpGoes
<1>2. PICK left \in SUBSET Streams : Left(c, "sink", files, r, sl, left)
  BY <1>1
<1>3. op'[c] = "done" /\ ~spooled'[c] /\ seen'[c] = Nothing
  BY <1>0, <1>t, OverTypes
<1>4. HoldersKnown(c)' /\ TombsLate(c)' /\ Previewed(c)'
  BY <1>0, <1>2, <1>3, <1>t, OverInv DEF Left, OpInv
<1>5. Charged(c)'
  <2>1. \A s \in Streams : ~Held(holders, tombs, <<c, s>>)' => reserved'[c][s] = 0
    BY <1>2 DEF Left, Held, Target
  <2>2. ASSUME NEW s \in Streams, file'[c][s] # Absent
        PROVE  c \in slots' /\ file'[c][s] <= reserved'[c][s] /\ Named(c, s)'
    <3>1. s \in left /\ file'[c][s] = files[s] /\ Held(holders', tombs', <<c, s>>)
      BY <1>2, <2>2 DEF Left
    <3>2. Pinned(c)' /\ Named(c, s)' /\ reserved'[c][s] = r[c][s]
      BY <1>2, <3>1 DEF Left
    <3>3. SlotHeld(holders', tombs', c)
      BY <3>2 DEF Pinned, SlotHeld
    <3> QED
      BY <1>2, <2>2, <3>1, <3>2, <3>3 DEF Left
  <2>3. c \in slots' => SlotHeld(holders, tombs, c)'
    BY <1>2 DEF Left, SlotHeld
  <2>4. ~Pinned(c)' => file'[c] = NoFiles
    <3>1. file'[c] \in [Streams -> Absent .. MaxOutput]
      BY <1>1 DEF StoreTypes
    <3>2. ~Pinned(c)' => \A s \in Streams : file'[c][s] = Absent
      BY <1>2 DEF Left
    <3> QED
      BY <3>1, <3>2 DEF NoFiles
  <2> QED
    BY <1>3, <2>1, <2>2, <2>3, <2>4 DEF Charged, Writing
<1>6. Others(c)
  BY <1>0, <1>1, <1>t, OthersFrame
<1>7. used' \in Nat => TypeOK'
  BY <1>0, <1>1, <1>t, OverTypes DEF TypeOK, StoreTypes
<1> QED
  BY <1>1, <1>4, <1>5, <1>6, <1>7, StepKeeps DEF OpInv, StoreTypes

-----------------------------------------------------------------------------
(* Operations that fail                                                    *)

\* The account as it stands.
LEMMA OwnAccount ==
  ASSUME StoreInv, NEW c \in Op
  PROVE  Account(c, reserved, used)
<1>t. /\ Charged(c) /\ reserved \in [Op -> [Streams -> 0 .. MaxOutput]]
      /\ used \in Nat /\ used <= Limit
  BY DEF StoreInv, TypeOK, OpInv, Exact
<1>1. used = used - Owed(c) + (reserved[c]["stdout"] + reserved[c]["stderr"])
  <2>1. reserved[c]["stdout"] \in Int /\ reserved[c]["stderr"] \in Int
    BY <1>t DEF Streams
  <2> QED
    BY <2>1, <1>t DEF Owed
<1> QED
  BY <1>t, <1>1 DEF Account, Charged

LEMMA SinkFailsKeeps ==
  ASSUME StoreInv, NEW c \in Op, maxEntries' = maxEntries, SinkFails(c), op[c] # "done"
  PROVE  StoreInv'
<1>t. file[c] \in [Streams -> Absent .. MaxOutput] /\ Charged(c)
  BY DEF StoreInv, TypeOK, OpInv
<1>1. Account(c, reserved, used)
  BY OwnAccount
<1>2. \A s \in Streams : file[c][s] # Absent => c \in slots /\ file[c][s] <= reserved[c][s]
  BY <1>t DEF Charged
<1> QED
  BY <1>t, <1>1, <1>2, SinkGoesKeeps DEF SinkFails

\* Wherever writing stops, no file has more than was to be written to it.
LEMMA CutBounds ==
  ASSUME StoreInv, NEW c \in Op, op[c] = "store", NEW cut \in Cut(c)
  PROVE  /\ cut \in [Streams -> 0 .. MaxOutput]
         /\ \A s \in Streams : cut[s] <= seen[c][s]
<1> DEFINE q == chunk[c].stream
           n == chunk[c].bytes
           earlier == [seen[c] EXCEPT ![q] = @ - n]
           out == earlier["stdout"]
           err == earlier["stderr"]
<1>t. /\ seen[c] \in [Streams -> 0 .. MaxOutput] /\ q \in Streams /\ MaxOutput \in Nat
      /\ n \in 1 .. seen[c][q]
  <2>1. chunk[c] \in [stream : Streams, bytes : 0 .. MaxOutput, over : BOOLEAN]
        /\ seen[c] \in [Streams -> 0 .. MaxOutput]
    BY DEF StoreInv, TypeOK
  <2>2. chunk[c].bytes \in 1 .. seen[c][chunk[c].stream]
    BY DEF StoreInv, OpInv, Previewed, Capturing, Writing
  <2> QED
    BY <2>1, <2>2, OutputStoreAssumption DEF OutputStoreAssumption
<1>1. /\ earlier \in [Streams -> 0 .. MaxOutput]
      /\ \A s \in Streams : earlier[s] <= seen[c][s]
      /\ earlier[q] + n = seen[c][q]
  BY <1>t
<1>2. \/ \E k \in 0 .. n - 1 : cut = [earlier EXCEPT ![q] = @ + k]
      \/ \E k \in 0 .. out - 1 : cut = [Nothing EXCEPT !["stdout"] = k]
      \/ \E k \in 0 .. err - 1 : cut = [earlier EXCEPT !["stderr"] = k]
  BY DEF Cut
<1> HIDE DEF earlier, n, q
<1>3. out \in 0 .. seen[c]["stdout"] /\ err \in 0 .. seen[c]["stderr"]
      /\ seen[c]["stdout"] \in 0 .. MaxOutput /\ seen[c]["stderr"] \in 0 .. MaxOutput
  BY <1>1, <1>t DEF Streams
<1>4. CASE \E k \in 0 .. n - 1 : cut = [earlier EXCEPT ![q] = @ + k]
  <2>1. PICK k \in 0 .. n - 1 : cut = [earlier EXCEPT ![q] = @ + k]
    BY <1>4
  <2>2. earlier[q] + k \in 0 .. seen[c][q] /\ seen[c][q] \in 0 .. MaxOutput
    BY <1>1, <1>t, <2>1
  <2> QED
    BY <1>1, <1>t, <2>1, <2>2
<1>5. CASE \E k \in 0 .. out - 1 : cut = [Nothing EXCEPT !["stdout"] = k]
  <2>1. PICK k \in 0 .. out - 1 : cut = [Nothing EXCEPT !["stdout"] = k]
    BY <1>5
  <2>2. k \in 0 .. seen[c]["stdout"]
    BY <1>3, <2>1
  <2>3. cut = [s \in Streams |-> IF s = "stdout" THEN k ELSE 0]
    BY <2>1 DEF Nothing, Streams
  <2> QED
    BY <1>3, <1>t, <2>2, <2>3
<1>6. CASE \E k \in 0 .. err - 1 : cut = [earlier EXCEPT !["stderr"] = k]
  <2>1. PICK k \in 0 .. err - 1 : cut = [earlier EXCEPT !["stderr"] = k]
    BY <1>6
  <2>2. k \in 0 .. seen[c]["stderr"] /\ k \in 0 .. MaxOutput
    BY <1>3, <1>t, <2>1
  <2>3. cut \in [Streams -> 0 .. MaxOutput]
    BY <1>1, <2>1, <2>2
  <2>4. ASSUME NEW s \in Streams PROVE cut[s] <= seen[c][s]
    <3>1. cut[s] = IF s = "stderr" THEN k ELSE earlier[s]
      BY <1>1, <2>1
    <3> QED
      BY <1>1, <2>2, <3>1
  <2> QED
    BY <2>3, <2>4
<1> QED
  BY <1>2, <1>4, <1>5, <1>6

LEMMA StoreFailsKeeps ==
  ASSUME StoreInv, NEW c \in Op, maxEntries' = maxEntries, StoreFails(c)
  PROVE  StoreInv'
<1> DEFINE files(cut) == [s \in Streams |-> IF spooled[c] /\ file[c][s] = Absent THEN Absent
                                            ELSE cut[s]]
           r(cut) == [reserved EXCEPT ![c] = cut]
           u(cut) == used - (Aggregate(c) - cut["stdout"] - cut["stderr"])
<1>1. /\ op[c] = "store"
      /\ spooled[c] \/ (NeedsSpool(c) /\ SlotFree)
  BY DEF StoreFails
<1>2. PICK cut \in Cut(c) : SinkGoes(c, files(cut), r(cut), u(cut), slots \cup {c})
  BY DEF StoreFails
<1>t. /\ reserved \in [Op -> [Streams -> 0 .. MaxOutput]] /\ used \in Nat /\ used <= Limit
      /\ MaxOutput \in Nat /\ Limit \in Nat /\ reserved[c] = seen[c]
      /\ "sink" \in holders[c] /\ (spooled[c] => c \in slots)
  <2>1. op[c] \in Capturing
    BY <1>1 DEF Capturing, Writing
  <2> QED
    BY <2>1, OutputStoreAssumption DEF StoreInv, TypeOK, Exact, OpInv, Previewed, HoldersKnown,
       Charged, OutputStoreAssumption
<1>3. /\ cut \in [Streams -> 0 .. MaxOutput]
      /\ \A s \in Streams : cut[s] <= seen[c][s]
  BY <1>1, CutBounds
<1>4. r(cut) \in [Op -> [Streams -> 0 .. MaxOutput]] /\ r(cut)[c] = cut
      /\ \A d \in Op \ {c} : r(cut)[d] = reserved[d]
  BY <1>3, <1>t
<1>5. u(cut) = used - Owed(c) + (r(cut)[c]["stdout"] + r(cut)[c]["stderr"]) /\ u(cut) <= Limit
  <2>1. Owed(c) = Aggregate(c)
    BY <1>t DEF Owed, Aggregate
  <2>2. /\ cut["stdout"] \in Nat /\ cut["stderr"] \in Nat /\ seen[c]["stdout"] \in Nat
        /\ seen[c]["stderr"] \in Nat /\ cut["stdout"] <= seen[c]["stdout"]
        /\ cut["stderr"] <= seen[c]["stderr"]
    <3>1. seen[c] \in [Streams -> 0 .. MaxOutput]
      BY <1>t
    <3> QED
      BY <1>3, <3>1 DEF Streams
  <2> QED
    BY <1>4, <1>t, <2>1, <2>2 DEF Aggregate
<1>6. files(cut) \in [Streams -> Absent .. MaxOutput]
      /\ \A s \in Streams : files(cut)[s] # Absent => files(cut)[s] <= r(cut)[c][s]
  BY <1>3, <1>4, <1>t DEF Absent
<1> HIDE DEF files, r, u
<1>7. Account(c, r(cut), u(cut))
  <2>1. \A s \in Streams : Held(holders, tombs, <<c, s>>)
    BY <1>t DEF Held
  <2> QED
    BY <1>4, <1>5, <2>1 DEF Account
<1>8. SlotFree \/ c \in slots
  BY <1>1, <1>t
<1> QED
  BY <1>1, <1>2, <1>6, <1>7, <1>8, SinkGoesKeeps

LEMMA RetainFailsKeeps ==
  ASSUME StoreInv, NEW c \in Op, maxEntries' = maxEntries, RetainFails(c)
  PROVE  StoreInv'
<1>1. /\ op[c] = "serialize"
      /\ SinkGoes(c, file[c], Reconciled(c), used - Surplus(c), slots)
  BY DEF RetainFails
<1>t. /\ reserved \in [Op -> [Streams -> 0 .. MaxOutput]] /\ used \in Nat /\ used <= Limit
      /\ file[c] \in [Streams -> Absent .. MaxOutput]
      /\ MaxOutput \in Nat /\ Limit \in Nat /\ "sink" \in holders[c] /\ Charged(c)
      /\ file[c]["stdout"] # Absent /\ reserved[c]["stdout"] = MaxOutput
      /\ reserved[c]["stderr"] = 0
  <2>1. op[c] \notin Capturing
    BY <1>1 DEF Capturing, Writing, Registering
  <2>2. TypeOK /\ Exact /\ OpInv(c)
    BY DEF StoreInv
  <2>3. /\ reserved \in [Op -> [Streams -> 0 .. MaxOutput]] /\ used \in Nat /\ used <= Limit
        /\ file[c] \in [Streams -> Absent .. MaxOutput]
    BY <2>2 DEF TypeOK, Exact
  <2>4. "sink" \in holders[c] /\ Charged(c)
    BY <1>1, <2>2 DEF OpInv, HoldersKnown
  <2>5. /\ file[c]["stdout"] # Absent /\ reserved[c]["stdout"] = MaxOutput
        /\ reserved[c]["stderr"] = 0
    BY <1>1, <2>2 DEF OpInv, Previewed
  <2> QED
    BY <2>3, <2>4, <2>5, OutputStoreAssumption DEF OutputStoreAssumption
<1>2. file[c]["stdout"] \in 0 .. MaxOutput
  BY <1>t DEF Streams, Absent
<1>3. /\ Reconciled(c) \in [Op -> [Streams -> 0 .. MaxOutput]]
      /\ Reconciled(c)[c]["stdout"] = file[c]["stdout"] /\ Reconciled(c)[c]["stderr"] = 0
      /\ \A d \in Op \ {c} : Reconciled(c)[d] = reserved[d]
  BY <1>2, <1>t DEF Reconciled, Streams
<1>4. Account(c, Reconciled(c), used - Surplus(c))
  <2>1. used - Surplus(c) = used - Owed(c) + (Reconciled(c)[c]["stdout"] + Reconciled(c)[c]["stderr"])
        /\ used - Surplus(c) <= Limit
    BY <1>2, <1>3, <1>t DEF Surplus, Owed
  <2>2. \A s \in Streams : Held(holders, tombs, <<c, s>>)
    BY <1>t DEF Held
  <2> QED
    BY <1>3, <2>1, <2>2 DEF Account
<1>5. \A s \in Streams : file[c][s] # Absent => c \in slots /\ file[c][s] <= Reconciled(c)[c][s]
  <2>1. \A s \in Streams : file[c][s] # Absent => c \in slots /\ file[c][s] <= reserved[c][s]
    BY <1>t DEF Charged
  <2> QED
    BY <1>2, <1>3, <1>t, <2>1 DEF Streams
<1> QED
  BY <1>1, <1>t, <1>4, <1>5, SinkGoesKeeps

\* PartialSpool: nothing of it is charged, but its file keeps the slot.
LEMMA PartialSpoolKeeps ==
  ASSUME StoreInv, NEW c \in Op, maxEntries' = maxEntries, PartialSpool(c)
  PROVE  StoreInv'
<1>1. /\ SlotFree /\ Over(c) /\ UNCHANGED <<kind, entry, length, owner, access>>
      /\ \/ op[c] = "store" /\ ~spooled[c]
         \/ op[c] = "none" /\ kind[c] = "internal"
      /\ file' = [file EXCEPT ![c]["stdout"] = 0]
      /\ Drops([holders EXCEPT ![c] = {}], tombs \cup {Target(c, "stdout", FALSE)},
               reserved, used, slots \cup {c})
  BY DEF PartialSpool, NeedsSpool
<1>t. /\ TypeOK /\ OpInv(c) /\ used <= Limit /\ StoreTypes
  BY DEF StoreInv, Exact, TypeOK, StoreTypes
<1>2. ~Pinned(c)
  <2>1. CASE op[c] = "none"
    BY <1>t, <2>1 DEF OpInv, TombsLate, Capturing, Writing, Registering
  <2>2. CASE op[c] = "store" /\ ~spooled[c]
    BY <1>t, <2>2 DEF OpInv, TombsLate, Previewed, Capturing, Writing
  <2> QED
    BY <1>1, <2>1, <2>2
<1>3. file[c] = NoFiles
  <2>1. CASE op[c] = "none"
    <3>1. holders[c] = {}
      BY <1>t, <2>1 DEF OpInv, HoldersKnown, TypeOK, Capturing, Writing, Registering
    <3> QED
      BY <1>t, <1>2, <3>1 DEF OpInv, Charged
  <2>2. CASE op[c] = "store" /\ ~spooled[c]
    BY <1>t, <2>2 DEF OpInv, Previewed, Capturing, Writing
  <2> QED
    BY <1>1, <2>1, <2>2
<1>4. holders[c] \subseteq {"sink"}
  BY <1>1, <1>t, <1>2
     DEF OpInv, HoldersKnown, Previewed, TypeOK, Capturing, Writing, Registering
<1> DEFINE h == [holders EXCEPT ![c] = {}]
           x == Target(c, "stdout", FALSE)
           t == tombs \cup {x}
<1>5. /\ x.op = c /\ x.stream = "stdout" /\ x \in [op : Op, stream : Streams, own : BOOLEAN]
      /\ \A s \in Streams : x # Target(c, s, TRUE) /\ Target(c, s, TRUE).op = c
  BY DEF Target, Streams
<1> HIDE DEF x
<1>6. Account(c, reserved, used)
  BY OwnAccount
<1>7. /\ \A d \in Op \ {c} : h[d] = holders[d] /\ (d \in slots \cup {c} <=> d \in slots)
      /\ h[c] = {} /\ h \in [Op -> SUBSET {"sink", "owner", "entry", "lease"}]
      /\ slots \cup {c} \subseteq Op
      /\ \A y : y.op # c => (y \in t <=> y \in tombs)
  BY <1>5, <1>t DEF StoreTypes
<1>8. \A s \in Streams : ~Held(h, t, <<c, s>>)
  BY <1>2, <1>5, <1>7 DEF Held, Pinned
<1> HIDE DEF h
<1>9. Drops(h, t, reserved, used, slots \cup {c})
  BY <1>1 DEF h, x
<1>10. /\ used' = used - Owed(c) + Owed(c)' /\ used' <= Limit
       /\ reserved' \in [Op -> [Streams -> 0 .. MaxOutput]]
       /\ \A d \in Op \ {c} : reserved'[d] = reserved[d] /\ (d \in slots' <=> d \in slots)
       /\ slots' \subseteq slots \cup {c}
  BY <1>6, <1>7, <1>9, DropsBalance
<1>11. holders' = h /\ tombs' = t /\ \A s \in Streams : reserved'[c][s] = 0
  BY <1>8, <1>9 DEF Drops
<1>12. c \in slots'
  <2>1. SlotHeld(h, t, c)
    BY <1>5 DEF SlotHeld
  <2> QED
    BY <1>9, <2>1 DEF Drops
<1>13. OthersStored(c)
  <2>1. \A d \in Op \ {c} : file'[d] = file[d]
    BY <1>1
  <2> QED
    BY <1>7, <1>10, <1>11, <2>1 DEF OthersStored
<1>14. Others(c)
  BY <1>1, <1>13, <1>t, OthersFrame
<1>15. StoreTypes'
  <2>1. file' \in [Op -> [Streams -> Absent .. MaxOutput]]
    <3>1. 0 \in Absent .. MaxOutput
      BY OutputStoreAssumption DEF OutputStoreAssumption, Absent
    <3> QED
      BY <1>1, <1>t, <3>1 DEF StoreTypes
  <2> QED
    BY <1>5, <1>7, <1>10, <1>11, <1>t, <2>1 DEF StoreTypes
<1>16. op'[c] = "done" /\ ~spooled'[c] /\ seen'[c] = Nothing
  BY <1>1, <1>t, OverTypes
<1>17. HoldersKnown(c)' /\ TombsLate(c)' /\ Previewed(c)'
  <2>1. holders'[c] = holders[c] \ {"sink"} /\ op[c] \notin {"done"}
    BY <1>1, <1>4, <1>7, <1>11
  <2> QED
    BY <1>1, <1>16, <1>t, <2>1, OverInv DEF OpInv
<1>18. Charged(c)'
  <2>1. \A s \in Streams : file'[c][s] # Absent => s = "stdout" /\ file'[c][s] = 0
    BY <1>1, <1>3, <1>t DEF StoreTypes, NoFiles
  <2>2. Pinned(c)' /\ SlotHeld(holders', tombs', c)
    BY <1>5, <1>11 DEF Pinned, SlotHeld
  <2>4. ASSUME NEW s \in Streams, s = "stdout" PROVE Named(c, s)'
    BY <1>5, <1>11, <2>4 DEF Named
  <2>3. \A s \in Streams : ~Held(holders', tombs', <<c, s>>) /\ reserved'[c][s] = 0
    BY <1>8, <1>11
  <2> QED
    <3>1. \A s \in Streams : file'[c][s] # Absent =>
            c \in slots' /\ file'[c][s] <= reserved'[c][s] /\ Named(c, s)'
      <4>1. ASSUME NEW s \in Streams, file'[c][s] # Absent
            PROVE  s = "stdout" /\ file'[c][s] = 0 /\ reserved'[c][s] = 0
        BY <2>1, <2>3, <4>1
      <4>2. ASSUME NEW s \in Streams, file'[c][s] # Absent PROVE Named(c, s)'
        BY <2>4, <4>1, <4>2
      <4> QED
        BY <1>12, <4>1, <4>2
    <3>2. Pinned(c)' /\ SlotHeld(holders, tombs, c)'
      BY <2>2 DEF SlotHeld
    <3>3. \A s \in Streams : ~Held(holders, tombs, <<c, s>>)' => reserved'[c][s] = 0
      BY <2>3
    <3> QED
      BY <1>12, <1>16, <3>1, <3>2, <3>3 DEF Charged, Writing
<1>19. used' \in Nat => TypeOK'
  BY <1>1, <1>15, <1>t, OverTypes DEF TypeOK, StoreTypes
<1> QED
  BY <1>1, <1>10, <1>14, <1>17, <1>18, <1>19, StepKeeps DEF OpInv

-----------------------------------------------------------------------------
(* Entries and owners that go                                              *)

LEMMA EntryGoesKeeps ==
  ASSUME StoreInv, NEW c \in Op, maxEntries' = maxEntries, EntryGoes(c), entry[c] # "absent",
         access' \in {access, [access EXCEPT ![c] = "no"]},
         access[c] = "open" => access' = access
  PROVE  StoreInv'
<1>t. /\ TypeOK /\ OpInv(c) /\ StoreTypes
      /\ file[c] \in [Streams -> Absent .. MaxOutput]
  BY DEF StoreInv, TypeOK, StoreTypes
<1>0. /\ CleanUp(c, "entry", file[c], reserved, used, slots)
      /\ entry' = [entry EXCEPT ![c] = "absent"] /\ length' = [length EXCEPT ![c] = Nothing]
      /\ UNCHANGED <<kind, op, spooled, seen, chunk, owner>>
  BY DEF EntryGoes
<1>1. /\ StoreTypes' /\ OthersStored(c) /\ slots' \subseteq slots
      /\ used' = used - Owed(c) + Owed(c)' /\ used' <= Limit
      /\ \E left \in SUBSET Streams : Left(c, "entry", file[c], reserved, slots, left)
  <2>1. Account(c, reserved, used)
    BY OwnAccount
  <2> QED
    BY <1>0, <1>t, <2>1, CleanUpGoes
<1>2. PICK left \in SUBSET Streams : Left(c, "entry", file[c], reserved, slots, left)
  BY <1>1
<1>3. op[c] = "done" /\ kind[c] # "internal"
  BY <1>t DEF OpInv, HoldersKnown
<1>4. /\ entry'[c] = "absent" /\ (access'[c] = "open" <=> access[c] = "open")
      /\ access' \in [Op -> {"no", "read", "open", "discard"}]
      /\ \A d \in Op \ {c} : entry'[d] = entry[d] /\ length'[d] = length[d]
                             /\ access'[d] = access[d]
  <2>1. entry'[c] = "absent" /\ \A d \in Op \ {c} : entry'[d] = entry[d] /\ length'[d] = length[d]
    BY <1>0, <1>t DEF TypeOK
  <2>2. access \in [Op -> {"no", "read", "open", "discard"}]
    BY <1>t DEF TypeOK
  <2>3. access' = access \/ (access[c] # "open" /\ access' = [access EXCEPT ![c] = "no"])
    BY <2>2
  <2>4. /\ access' \in [Op -> {"no", "read", "open", "discard"}]
        /\ access'[c] = "open" <=> access[c] = "open"
        /\ \A d \in Op \ {c} : access'[d] = access[d]
    BY <2>2, <2>3
  <2> QED
    BY <2>1, <2>4
<1>5. Others(c)
  BY <1>0, <1>1, <1>4 DEF Others, OthersStored
<1>6. HoldersKnown(c)'
  <2>1. /\ "sink" \in holders'[c] <=> "sink" \in holders[c]
        /\ "owner" \in holders'[c] <=> "owner" \in holders[c]
        /\ "lease" \in holders'[c] <=> "lease" \in holders[c]
        /\ "entry" \notin holders'[c]
    BY <1>2 DEF Left
  <2> QED
    BY <1>0, <1>3, <1>4, <1>t, <2>1 DEF OpInv, HoldersKnown
<1>7. TombsLate(c)' /\ Previewed(c)'
  <2>1. Aggregate(c)' = Aggregate(c)
    BY <1>0 DEF Aggregate
  <2> QED
    BY <1>0, <1>3, <1>4, <1>t, <2>1
       DEF TombsLate, OpInv, Previewed, Capturing, Writing, Registering
<1>8. Charged(c)'
  <2>1. \A s \in Streams : ~Held(holders, tombs, <<c, s>>)' => reserved'[c][s] = 0
    BY <1>2 DEF Left, Held, Target
  <2>2. ASSUME NEW s \in Streams, file'[c][s] # Absent
        PROVE  c \in slots' /\ file'[c][s] <= reserved'[c][s] /\ Named(c, s)'
    <3>1. s \in left /\ file'[c][s] = file[c][s] /\ Held(holders', tombs', <<c, s>>)
      BY <1>2, <2>2 DEF Left
    <3>2. Pinned(c)' /\ Named(c, s)' /\ reserved'[c][s] = reserved[c][s]
      BY <1>2, <3>1 DEF Left
    <3>3. SlotHeld(holders', tombs', c)
      BY <3>2 DEF Pinned, SlotHeld
    <3>4. c \in slots /\ file[c][s] <= reserved[c][s]
      BY <1>t, <2>2, <3>1 DEF OpInv, Charged
    <3> QED
      BY <1>2, <3>1, <3>2, <3>3, <3>4 DEF Left
  <2>3. c \in slots' => SlotHeld(holders, tombs, c)'
    BY <1>2 DEF Left, SlotHeld
  <2>4. ~Pinned(c)' => file'[c] = NoFiles
    <3>1. file'[c] \in [Streams -> Absent .. MaxOutput]
      BY <1>1 DEF StoreTypes
    <3>2. ~Pinned(c)' => \A s \in Streams : file'[c][s] = Absent
      BY <1>2 DEF Left
    <3> QED
      BY <3>1, <3>2 DEF NoFiles
  <2>5. ~spooled'[c] /\ op'[c] = "done"
    BY <1>0, <1>3, <1>t DEF OpInv, Previewed, Capturing, Writing, Registering
  <2> QED
    BY <2>1, <2>2, <2>3, <2>4, <2>5 DEF Charged, Writing
<1>9. used' \in Nat => TypeOK'
  <2>1. Nothing \in [Streams -> 0 .. MaxOutput]
    BY OutputStoreAssumption DEF OutputStoreAssumption, Nothing
  <2> QED
    BY <1>0, <1>1, <1>4, <1>t, <2>1 DEF TypeOK, StoreTypes
<1> QED
  BY <1>1, <1>5, <1>6, <1>7, <1>8, <1>9, StepKeeps DEF OpInv, StoreTypes

LEMMA OwnerDropKeeps ==
  ASSUME StoreInv, NEW c \in Op, maxEntries' = maxEntries, OwnerDrop(c)
  PROVE  StoreInv'
<1>t. /\ TypeOK /\ OpInv(c) /\ StoreTypes
      /\ file[c] \in [Streams -> Absent .. MaxOutput]
  BY DEF StoreInv, TypeOK, StoreTypes
<1>0. /\ kind[c] = "internal" /\ op[c] # "none" /\ owner[c]
      /\ owner' = [owner EXCEPT ![c] = FALSE]
      /\ UNCHANGED <<kind, op, spooled, seen, chunk, entry, length, access>>
  BY DEF OwnerDrop
<1>1. /\ ~owner'[c] /\ \A d \in Op \ {c} : owner'[d] = owner[d]
      /\ owner' \in [Op -> BOOLEAN]
  BY <1>0, <1>t DEF TypeOK
<1>2. entry[c] = "absent" /\ access[c] = "no" /\ op[c] \notin {"queued", "serialize"}
  BY <1>0, <1>t DEF OpInv, HoldersKnown
<1>3. Aggregate(c)' = Aggregate(c)
  BY <1>0 DEF Aggregate
<1>4. CASE "owner" \in holders[c] /\ CleanUp(c, "owner", file[c], reserved, used, slots)
  <2>1. /\ StoreTypes' /\ OthersStored(c) /\ slots' \subseteq slots
        /\ used' = used - Owed(c) + Owed(c)' /\ used' <= Limit
        /\ \E left \in SUBSET Streams : Left(c, "owner", file[c], reserved, slots, left)
    <3>1. Account(c, reserved, used)
      BY OwnAccount
    <3> QED
      BY <1>4, <1>t, <3>1, CleanUpGoes
  <2>2. PICK left \in SUBSET Streams : Left(c, "owner", file[c], reserved, slots, left)
    BY <2>1
  <2>3. op[c] \in Writing \cup {"done"}
    BY <1>4, <1>t DEF OpInv, HoldersKnown
  <2>4. Others(c)
    BY <1>0, <1>1, <2>1 DEF Others, OthersStored
  <2>5. /\ "sink" \in holders'[c] <=> "sink" \in holders[c]
        /\ "entry" \in holders'[c] <=> "entry" \in holders[c]
        /\ "lease" \in holders'[c] <=> "lease" \in holders[c]
        /\ "owner" \notin holders'[c]
    BY <2>2 DEF Left
  <2>6. HoldersKnown(c)'
    BY <1>0, <1>1, <1>t, <2>5 DEF OpInv, HoldersKnown
  <2>7. TombsLate(c)'
    BY <1>0, <1>1, <1>2, <2>3 DEF TombsLate, Capturing
  <2>8. \A s \in Streams : file'[c][s] \in {Absent, file[c][s]}
    BY <2>2 DEF Left
  <2>9. op[c] \in Writing => reserved'[c] = reserved[c]
    <3>1. reserved'[c] \in [Streams -> 0 .. MaxOutput] /\ reserved[c] \in [Streams -> 0 .. MaxOutput]
      BY <1>t, <2>1 DEF StoreTypes
    <3>2. op[c] \in Writing => "sink" \in holders[c]
      BY <1>t DEF OpInv, HoldersKnown, Capturing
    <3>3. ASSUME "sink" \in holders[c], NEW s \in Streams
          PROVE  reserved'[c][s] = reserved[c][s]
      <4>1. Held(holders', tombs', <<c, s>>)
        BY <2>5, <3>3 DEF Held
      <4> QED
        BY <2>2, <4>1 DEF Left
    <3> QED
      BY <3>1, <3>2, <3>3
  <2>10. Previewed(c)'
    <3>1. CASE op[c] \in Writing
      <4>1. op[c] \in Capturing /\ op[c] \notin Registering /\ spooled[c]
        BY <1>0, <1>t, <3>1 DEF Capturing, Registering, Writing, OpInv, Previewed
      <4>2. /\ op[c] = "store" => \A s \in Streams : file'[c][s] <= seen'[c][s]
            /\ op[c] # "store" => \A s \in Streams : file'[c][s] \in {Absent, seen'[c][s]}
        <5>1. op[c] = "store" => \A s \in Streams : file[c][s] <= seen[c][s]
          BY <1>t, <4>1 DEF OpInv, Previewed
        <5>2. op[c] # "store" => \A s \in Streams : file[c][s] \in {Absent, seen[c][s]}
          BY <1>t, <3>1, <4>1 DEF OpInv, Previewed, Writing
        <5>3. \A s \in Streams : seen[c][s] \in 0 .. MaxOutput
          <6>1. seen \in [Op -> [Streams -> 0 .. MaxOutput]]
            BY <1>t DEF TypeOK
          <6> QED
            BY <6>1
        <5> QED
          BY <1>0, <2>8, <5>1, <5>2, <5>3 DEF Absent
      <4> QED
        BY <1>0, <1>2, <1>3, <1>t, <2>9, <3>1, <4>1, <4>2
           DEF OpInv, Previewed, Registering, Writing
    <3>2. CASE op[c] = "done"
      BY <1>0, <1>2, <1>3, <1>t, <3>2 DEF OpInv, Previewed, Capturing, Registering, Writing
    <3> QED
      BY <2>3, <3>1, <3>2
  <2>11. Charged(c)'
    <3>1. \A s \in Streams : ~Held(holders, tombs, <<c, s>>)' => reserved'[c][s] = 0
      BY <2>2 DEF Left, Held, Target
    <3>2. ASSUME NEW s \in Streams, file'[c][s] # Absent
          PROVE  c \in slots' /\ file'[c][s] <= reserved'[c][s] /\ Named(c, s)'
      <4>1. s \in left /\ file'[c][s] = file[c][s] /\ Held(holders', tombs', <<c, s>>)
        BY <2>2, <3>2 DEF Left
      <4>2. Pinned(c)' /\ Named(c, s)' /\ reserved'[c][s] = reserved[c][s]
        BY <2>2, <4>1 DEF Left
      <4>3. SlotHeld(holders', tombs', c)
        BY <4>2 DEF Pinned, SlotHeld
      <4>4. c \in slots /\ file[c][s] <= reserved[c][s]
        BY <1>t, <3>2, <4>1 DEF OpInv, Charged
      <4> QED
        BY <2>2, <4>1, <4>2, <4>3, <4>4 DEF Left
    <3>3. c \in slots' => SlotHeld(holders, tombs, c)'
      BY <2>2 DEF Left, SlotHeld
    <3>4. ~Pinned(c)' => file'[c] = NoFiles
      <4>1. file'[c] \in [Streams -> Absent .. MaxOutput]
        BY <2>1 DEF StoreTypes
      <4>2. ~Pinned(c)' => \A s \in Streams : file'[c][s] = Absent
        BY <2>2 DEF Left
      <4> QED
        BY <4>1, <4>2 DEF NoFiles
    <3>5. spooled'[c] => c \in slots'
      <4>1. spooled'[c] => c \in slots /\ op[c] \in Capturing
        BY <1>0, <1>t DEF OpInv, Charged, Previewed
      <4>2. op[c] \in Capturing => "sink" \in holders'[c]
        BY <1>t, <2>5 DEF OpInv, HoldersKnown
      <4>3. "sink" \in holders'[c] => SlotHeld(holders', tombs', c)
        BY DEF SlotHeld
      <4> QED
        BY <2>2, <4>1, <4>2, <4>3 DEF Left
    <3>6. op'[c] # "serialize"
      BY <1>0, <1>2
    <3> QED
      BY <3>1, <3>2, <3>3, <3>4, <3>5, <3>6 DEF Charged
  <2>12. used' \in Nat => TypeOK'
    BY <1>0, <1>1, <1>t, <2>1 DEF TypeOK, StoreTypes
  <2> QED
    BY <2>1, <2>4, <2>6, <2>7, <2>10, <2>11, <2>12, StepKeeps DEF OpInv, StoreTypes
<1>5. CASE "owner" \notin holders[c] /\ UNCHANGED <<holders, tombs, reserved, used, slots>>
           /\ \E known \in SUBSET Streams :
                file' = [file EXCEPT ![c] = [s \in Streams |-> IF s \in known THEN Absent ELSE @[s]]]
  <2>1. /\ holders' = holders /\ tombs' = tombs /\ reserved' = reserved /\ used' = used
        /\ slots' = slots
    BY <1>5
  <2>2. /\ file' \in [Op -> [Streams -> Absent .. MaxOutput]]
        /\ \A d \in Op \ {c} : file'[d] = file[d]
        /\ \A s \in Streams : file'[c][s] \in {Absent, file[c][s]}
    BY <1>5, <1>t, OutputStoreAssumption DEF StoreTypes, OutputStoreAssumption, Absent
  <2>3. op[c] \in Registering \cup {"done"}
    BY <1>0, <1>2, <1>5, <1>t DEF OpInv, HoldersKnown, TypeOK, Registering, Writing
  <2>4. Others(c)
    BY <1>0, <1>1, <2>1, <2>2 DEF Others
  <2>5. HoldersKnown(c)'
    BY <1>0, <1>1, <1>5, <1>t, <2>1, <2>3 DEF OpInv, HoldersKnown, Registering, Writing
  <2>6. TombsLate(c)'
    BY <1>0, <1>1, <1>2, <2>3 DEF TombsLate, Capturing
  <2>7. Previewed(c)'
    <3>1. CASE op[c] \in Registering
      <4>1. op[c] \in Capturing /\ op[c] \notin {"store"} /\ spooled[c] /\ op[c] # "serialize"
        BY <1>0, <1>t, <3>1 DEF Capturing, Registering, Writing, OpInv, Previewed
      <4>2. \A s \in Streams : file'[c][s] \in {Absent, seen'[c][s]}
        <5>1. \A s \in Streams : file[c][s] \in {Absent, seen[c][s]}
          BY <1>t, <3>1, <4>1 DEF OpInv, Previewed
        <5> QED
          BY <1>0, <2>2, <5>1
      <4> QED
        BY <1>0, <1>2, <1>3, <1>t, <2>1, <3>1, <4>1, <4>2 DEF OpInv, Previewed
    <3>2. CASE op[c] = "done"
      BY <1>0, <1>2, <1>3, <1>t, <3>2 DEF OpInv, Previewed, Capturing, Registering, Writing
    <3> QED
      BY <2>3, <3>1, <3>2
  <2>8. Charged(c)'
    <3>1. \A s \in Streams : file'[c][s] # Absent => file'[c][s] = file[c][s]
      BY <2>2
    <3>2. file[c] = NoFiles => file'[c] = NoFiles
      <4>1. file'[c] \in [Streams -> Absent .. MaxOutput]
        BY <2>2
      <4>2. file[c] = NoFiles => \A s \in Streams : file'[c][s] = Absent
        BY <2>2 DEF NoFiles
      <4> QED
        BY <4>1, <4>2 DEF NoFiles
    <3>3. op'[c] \notin Writing
      BY <1>0, <2>3 DEF Registering, Writing
    <3>4. /\ \A s \in Streams : Named(c, s)' <=> Named(c, s)
          /\ \A s \in Streams : Held(holders, tombs, <<c, s>>)' <=> Held(holders, tombs, <<c, s>>)
          /\ Pinned(c)' <=> Pinned(c)
          /\ SlotHeld(holders, tombs, c)' <=> SlotHeld(holders, tombs, c)
      BY <2>1 DEF Named, Held, Pinned, SlotHeld
    <3> QED
      BY <1>0, <1>t, <2>1, <3>1, <3>2, <3>3, <3>4 DEF OpInv, Charged
  <2>9. used' \in Nat => TypeOK'
    BY <1>0, <1>1, <1>t, <2>1, <2>2 DEF TypeOK, StoreTypes
  <2>10. used' = used - Owed(c) + Owed(c)' /\ used' <= Limit
    <3>1. reserved[c]["stdout"] \in Int /\ reserved[c]["stderr"] \in Int
      BY <1>t, OutputStoreAssumption DEF StoreTypes, Streams, OutputStoreAssumption
    <3>2. used \in Nat /\ used <= Limit
      BY DEF StoreInv, Exact, TypeOK
    <3>3. Owed(c)' = Owed(c) /\ Owed(c) \in Int
      BY <2>1, <3>1 DEF Owed
    <3> QED
      BY <2>1, <3>2, <3>3
  <2> QED
    BY <1>t, <2>1, <2>4, <2>5, <2>6, <2>7, <2>8, <2>9, <2>10, StepKeeps DEF OpInv, StoreTypes
<1>6. \/ "owner" \in holders[c] /\ CleanUp(c, "owner", file[c], reserved, used, slots)
      \/ "owner" \notin holders[c] /\ UNCHANGED <<holders, tombs, reserved, used, slots>>
           /\ \E known \in SUBSET Streams :
                file' = [file EXCEPT ![c] = [s \in Streams |-> IF s \in known THEN Absent ELSE @[s]]]
  <2>1. CASE "owner" \notin holders[c]
    <3> DEFINE known == CASE op[c] = "register stderr" -> {"stdout"}
                          [] op[c] = "register accounting" -> Streams
                          [] OTHER -> {}
    <3>1. PICK left \in Survivors(file[c]) :
            file' = [file EXCEPT ![c] = [s \in Streams |-> IF s \in known \ left THEN Absent ELSE @[s]]]
      BY <2>1 DEF OwnerDrop
    <3>2. known \ left \in SUBSET Streams
      BY DEF Streams
    <3>3. UNCHANGED <<holders, tombs, reserved, used, slots>>
      BY <2>1 DEF OwnerDrop
    <3> HIDE DEF known
    <3> QED
      BY <2>1, <3>1, <3>2, <3>3
  <2> QED
    BY <2>1 DEF OwnerDrop
<1> QED
  BY <1>4, <1>5, <1>6

-----------------------------------------------------------------------------
(* Tombstones that are tried again                                         *)

\* What else the steps that begin with retry_tombstones do.
Asks(d) ==
  \/ op'[d] = op[d] /\ access'[d] = access[d]
  \/ op[d] = "none" /\ kind[d] = "retain" /\ op'[d] = "queued" /\ access'[d] = access[d]
  \/ /\ op[d] = "done" /\ kind[d] # "internal" /\ op'[d] = op[d]
     /\ access[d] = "no" /\ access'[d] \in {"read", "discard"}

AskTypes ==
  /\ op' \in [Op -> {"none", "register stdout", "register stderr", "register accounting",
                     "open", "store", "over", "queued", "serialize", "done"}]
  /\ access' \in [Op -> {"no", "read", "open", "discard"}]

LEMMA RetryKeeps ==
  ASSUME StoreInv, maxEntries' = maxEntries, RetryTombstones, \A d \in Op : Asks(d),
         UNCHANGED <<kind, spooled, seen, chunk, entry, length, owner>>, AskTypes
  PROVE  StoreInv'
<1>t. /\ TypeOK /\ StoreTypes /\ Finite /\ Exact /\ used \in Nat
      /\ \A d \in Op : OpInv(d)
  BY DEF StoreInv, TypeOK, StoreTypes
<1>u. /\ MaxOutput \in Nat /\ Limit \in Nat
      /\ reserved \in [Op -> [Streams -> 0 .. MaxOutput]]
      /\ seen \in [Op -> [Streams -> 0 .. MaxOutput]]
      /\ file \in [Op -> [Streams -> Absent .. MaxOutput]]
  BY OutputStoreAssumption DEF OutputStoreAssumption, StoreInv, TypeOK
<1>v. 0 \in 0 .. MaxOutput /\ Absent \in Absent .. MaxOutput
  BY <1>u DEF Absent
<1>0. PICK left \in SUBSET tombs :
        /\ file' = [d \in Op |-> [s \in Streams |->
                      IF \E x \in tombs \ left : x.op = d /\ x.stream = s
                      THEN Absent ELSE file[d][s]]]
        /\ Drops(holders, left, reserved, used, slots)
  BY DEF RetryTombstones
<1>1. /\ holders' = holders /\ tombs' = left
      /\ reserved' = [d \in Op |-> [s \in Streams |->
                        IF Held(holders, left, <<d, s>>) THEN reserved[d][s] ELSE 0]]
      /\ used' = used - Sum(reserved, {f \in Files : Held(holders, tombs, f) /\ ~Held(holders, left, f)})
      /\ slots' = {d \in slots : SlotHeld(holders, left, d)}
  BY <1>0 DEF Drops
<1>2. StoreTypes'
  <2>1. reserved' \in [Op -> [Streams -> 0 .. MaxOutput]]
    BY <1>1, <1>u, <1>v
  <2>2. file' \in [Op -> [Streams -> Absent .. MaxOutput]]
    BY <1>0, <1>u, <1>v
  <2> QED
    BY <1>0, <1>1, <1>t, <2>1, <2>2 DEF StoreTypes
<1>3. Finite' /\ Exact' /\ used' \in Nat
  <2> DEFINE Freed == {f \in Files : Held(holders, tombs, f) /\ ~Held(holders, left, f)}
             Stay == {f \in Files : Held(holders, left, f)}
  <2>1. Stay \cup Freed = HeldFiles /\ Stay \cap Freed = {}
    BY DEF HeldFiles, Held
  <2>2. HeldFiles' = Stay
    BY <1>1 DEF HeldFiles, Held
  <2>3. /\ \A x \in Stay \cup Freed : reserved[x[1]][x[2]] \in Nat
        /\ \A x \in Stay : reserved'[x[1]][x[2]] = reserved[x[1]][x[2]]
    <3>1. \A x \in Files : reserved[x[1]][x[2]] \in Nat
      BY <1>u DEF Files
    <3>2. ASSUME NEW x \in Stay PROVE reserved'[x[1]][x[2]] = reserved[x[1]][x[2]]
      <4>1. PICK d \in Op, s \in Streams : x = <<d, s>>
        BY <3>2 DEF Files
      <4>2. Held(holders, left, <<d, s>>)
        BY <3>2, <4>1
      <4> QED
        BY <1>1, <4>1, <4>2
    <3> QED
      BY <3>1, <3>2
  <2>4. used' = used - Sum(reserved, Freed)
    BY <1>1
  <2> HIDE DEF Freed, Stay
  <2>5. IsFiniteSet(Stay) /\ IsFiniteSet(Freed)
    <3>1. IsFiniteSet(HeldFiles) /\ Stay \subseteq HeldFiles /\ Freed \subseteq HeldFiles
      BY <1>t, <2>1 DEF Finite
    <3> QED
      BY <3>1, FS_Subset
  <2>6. Sum(reserved, Stay \cup Freed) = Sum(reserved, Stay) + Sum(reserved, Freed)
    BY <2>1, <2>3, <2>5, SumParts
  <2>7. Sum(reserved, Stay) \in Nat /\ Sum(reserved, Freed) \in Nat
    BY <2>3, <2>5, SumNatural
  <2>8. Sum(reserved', Stay) = Sum(reserved, Stay)
    BY <2>3, <2>5, SumSame
  <2>9. used = Sum(reserved, HeldFiles) /\ used <= Limit /\ Limit \in Nat
    BY <1>t, <1>u DEF Exact
  <2>10. used' = Sum(reserved', HeldFiles') /\ used' <= Limit /\ used' \in Nat
    <3>1. used = Sum(reserved, Stay) + Sum(reserved, Freed)
      BY <2>1, <2>6, <2>9
    <3>2. used' = Sum(reserved, Stay) /\ Sum(reserved, Stay) <= used
      BY <2>4, <2>7, <3>1
    <3>3. Sum(reserved', HeldFiles') = Sum(reserved, Stay)
      BY <2>2, <2>8
    <3>4. used' \in Nat /\ used' <= Limit
      <4>1. used \in Nat /\ used <= Limit /\ Limit \in Nat
        BY <1>t, <2>9
      <4> QED
        BY <2>7, <3>2, <4>1
    <3> QED
      BY <3>2, <3>3, <3>4
  <2>11. IsFiniteSet(slots') /\ Cardinality(slots') <= maxEntries
    <3>1. slots' \subseteq slots
      BY <1>1
    <3> QED
      BY <1>t, <3>1, SlotsFinite
  <2> QED
    BY <2>2, <2>5, <2>10, <2>11 DEF Finite, Exact
<1>4. ASSUME NEW d \in Op PROVE OpInv(d)'
  <2>t. HoldersKnown(d) /\ TombsLate(d) /\ Previewed(d) /\ Charged(d) /\ Asks(d)
    BY <1>t DEF OpInv
  <2>1. /\ Pinned(d)' => Pinned(d)
        /\ \A s \in Streams : file'[d][s] # Absent =>
             file'[d][s] = file[d][s] /\ (Named(d, s) => Named(d, s)')
        /\ ~Pinned(d) => file'[d] = file[d]
    <3>1. Pinned(d)' => Pinned(d)
      BY <1>1 DEF Pinned
    <3>2. \A s \in Streams : file'[d][s] = IF \E x \in tombs \ left : x.op = d /\ x.stream = s
                                           THEN Absent ELSE file[d][s]
      BY <1>0
    <3>3. \A s \in Streams : file'[d][s] # Absent => (Named(d, s) => Named(d, s)')
      BY <1>1, <3>2 DEF Named
    <3>4. ~Pinned(d) => \A s \in Streams : file'[d][s] = file[d][s]
      BY <3>2 DEF Pinned
    <3>5. file'[d] \in [Streams -> Absent .. MaxOutput] /\ file[d] \in [Streams -> Absent .. MaxOutput]
      BY <1>2, <1>u DEF StoreTypes
    <3>6. ~Pinned(d) => file'[d] = file[d]
      BY <3>4, <3>5
    <3>7. \A s \in Streams : file'[d][s] # Absent => file'[d][s] = file[d][s]
      BY <3>2
    <3> QED
      BY <3>1, <3>3, <3>6, <3>7
  <2>2. op[d] = "none" => ~Pinned(d) /\ access[d] = "no" /\ entry[d] = "absent" /\ ~spooled[d]
    BY <2>t DEF TombsLate, HoldersKnown, Previewed, Capturing, Registering, Writing
  <2>3. HoldersKnown(d)'
    BY <1>1, <2>2, <2>t DEF HoldersKnown, Asks, Capturing, Registering, Writing
  <2>4. TombsLate(d)'
    BY <2>1, <2>2, <2>t DEF TombsLate, Asks
  <2>5. \A s \in Streams : /\ reserved'[d][s] = IF Held(holders', tombs', <<d, s>>)
                                                THEN reserved[d][s] ELSE 0
                           /\ Held(holders', tombs', <<d, s>>) => Held(holders, tombs, <<d, s>>)
    BY <1>1 DEF Held
  <2>6. "sink" \in holders[d] => reserved'[d] = reserved[d]
    <3>1. \A s \in Streams : "sink" \in holders[d] => Held(holders', tombs', <<d, s>>)
      BY <1>1 DEF Held
    <3>2. reserved'[d] \in [Streams -> 0 .. MaxOutput] /\ reserved[d] \in [Streams -> 0 .. MaxOutput]
      BY <1>2, <1>u DEF StoreTypes
    <3>3. "sink" \in holders[d] => \A s \in Streams : reserved'[d][s] = reserved[d][s]
      BY <2>5, <3>1
    <3> QED
      BY <3>2, <3>3
  <2>7. Previewed(d)'
    <3>1. Aggregate(d)' = Aggregate(d)
      BY DEF Aggregate
    <3>2. CASE op[d] \in Capturing
      <4>1. op'[d] = op[d] /\ "sink" \in holders[d] /\ reserved'[d] = reserved[d]
        BY <2>6, <2>t, <3>2 DEF Asks, HoldersKnown, Capturing, Registering, Writing
      <4>2. ~Pinned(d) \/ kind[d] = "internal"
        BY <2>t, <3>2 DEF TombsLate, Capturing, Registering, Writing
      <4>3. \A s \in Streams : file'[d][s] \in {Absent, file[d][s]}
        BY <2>1
      <4>4. ~spooled[d] => file'[d] = NoFiles
        BY <2>1, <2>t, <3>2, <4>2 DEF Previewed
      <4>5. op[d] = "store" => \A s \in Streams : file'[d][s] <= seen[d][s]
        <5>1. \A s \in Streams : seen[d][s] \in Nat
          BY <1>u
        <5>2. op[d] = "store" => \A s \in Streams : file[d][s] <= seen[d][s]
          BY <2>t, <3>2 DEF Previewed
        <5> QED
          <6> SUFFICES ASSUME op[d] = "store", NEW s \in Streams
                       PROVE  file'[d][s] <= seen[d][s]
            OBVIOUS
          <6>1. seen[d][s] \in Nat /\ file[d][s] <= seen[d][s]
            BY <5>1, <5>2
          <6>2. file'[d][s] = -1 \/ file'[d][s] = file[d][s]
            BY <4>3 DEF Absent
          <6> QED
            BY <6>1, <6>2
      <4>6. spooled[d] /\ kind[d] = "capture" => \A s \in Streams : file'[d][s] # Absent
        BY <2>1, <2>t, <3>2, <4>2 DEF Previewed
      <4>7. op[d] \in Registering \cup {"open", "over"} =>
              \A s \in Streams : file'[d][s] \in {Absent, seen[d][s]}
        BY <2>t, <3>2, <4>3 DEF Previewed
      <4>8. entry[d] = "absent" /\ op[d] # "serialize"
        BY <2>t, <3>2 DEF HoldersKnown, Capturing, Registering, Writing
      <4> QED
        BY <2>t, <3>1, <3>2, <4>1, <4>4, <4>5, <4>6, <4>7, <4>8 DEF Previewed
    <3>3. CASE op[d] \notin Capturing
      <4>1. op'[d] \notin Capturing /\ (op'[d] = "serialize" => op[d] = "serialize")
        BY <2>t, <3>3 DEF Asks, Capturing, Registering, Writing
      <4>2. op[d] = "serialize" => ~Pinned(d) /\ "sink" \in holders[d]
        BY <2>t, <3>3 DEF TombsLate, HoldersKnown
      <4>3. entry[d] # "absent" => ~Pinned(d)
        BY <2>t DEF TombsLate
      <4> QED
        BY <2>1, <2>6, <2>t, <3>1, <3>3, <4>1, <4>2, <4>3 DEF Previewed
    <3> QED
      BY <3>2, <3>3
  <2>8. Charged(d)'
    <3>1. \A s \in Streams : ~Held(holders, tombs, <<d, s>>)' => reserved'[d][s] = 0
      BY <2>5 DEF Held, Target
    <3>2. d \in slots' <=> d \in slots /\ SlotHeld(holders', tombs', d)
      BY <1>1
    <3>3. ASSUME NEW s \in Streams, file'[d][s] # Absent
          PROVE  /\ d \in slots' /\ file'[d][s] <= reserved'[d][s]
                 /\ Named(d, s)' \/ {"sink", "entry", "owner"} \cap holders'[d] # {}
                 /\ op'[d] \in Writing /\ kind'[d] = "internal" /\ ~owner'[d] => Named(d, s)'
      <4>1. file'[d][s] = file[d][s] /\ (Named(d, s) => Named(d, s)')
        BY <2>1, <3>3
      <4>2. /\ d \in slots /\ file[d][s] <= reserved[d][s]
            /\ Named(d, s) \/ {"sink", "entry", "owner"} \cap holders[d] # {}
            /\ op[d] \in Writing /\ kind[d] = "internal" /\ ~owner[d] => Named(d, s)
        BY <2>t, <3>3, <4>1 DEF Charged
      <4>3. op'[d] \in Writing => op[d] \in Writing
        BY <2>t DEF Asks, Writing
      <4>4. SlotHeld(holders', tombs', d)
        <5>1. Named(d, s)' => SlotHeld(holders', tombs', d)
          BY DEF Named, SlotHeld
        <5>2. {"sink", "entry", "owner"} \cap holders[d] # {} => SlotHeld(holders', tombs', d)
          BY <1>1 DEF SlotHeld
        <5> QED
          BY <4>1, <4>2, <5>1, <5>2
      <4>5. file'[d][s] <= reserved'[d][s]
        <5>1. CASE Held(holders', tombs', <<d, s>>)
          BY <2>5, <4>1, <4>2, <5>1
        <5>2. CASE ~Held(holders', tombs', <<d, s>>)
          <6>1. Target(d, s, TRUE) \notin tombs
            <7>1. Target(d, s, TRUE) \notin left
              BY <1>1, <5>2 DEF Held
            <7>2. Target(d, s, TRUE).op = d /\ Target(d, s, TRUE).stream = s
              BY DEF Target
            <7> QED
              BY <1>0, <3>3, <7>1, <7>2
          <6>2. ~Held(holders, tombs, <<d, s>>)
            BY <1>1, <5>2, <6>1 DEF Held
          <6>3. reserved[d][s] = 0
            BY <2>t, <6>2 DEF Charged
          <6> QED
            BY <2>5, <4>1, <4>2, <5>2, <6>3
        <5> QED
          BY <5>1, <5>2
      <4> QED
        BY <1>1, <3>2, <4>1, <4>2, <4>3, <4>4, <4>5
    <3>4. spooled'[d] \/ op'[d] = "serialize" => d \in slots'
      <4>1. spooled'[d] \/ op'[d] = "serialize" => d \in slots
        BY <2>t DEF Charged, Asks
      <4>2. spooled'[d] \/ op'[d] = "serialize" => "sink" \in holders'[d]
        BY <1>1, <2>t DEF HoldersKnown, Previewed, Asks
      <4>3. "sink" \in holders'[d] => SlotHeld(holders', tombs', d)
        BY DEF SlotHeld
      <4> QED
        BY <3>2, <4>1, <4>2, <4>3
    <3>5. d \in slots' => SlotHeld(holders, tombs, d)'
      BY <3>2 DEF SlotHeld
    <3>6. holders'[d] = {} /\ ~Pinned(d)' => file'[d] = NoFiles
      <4>1. ASSUME holders'[d] = {}, ~Pinned(d)', NEW s \in Streams PROVE file'[d][s] = Absent
        <5>1. ~Named(d, s)'
          BY <4>1 DEF Named, Pinned
        <5> QED
          BY <3>3, <4>1, <5>1
      <4>2. file'[d] \in [Streams -> Absent .. MaxOutput]
        BY <1>2 DEF StoreTypes
      <4> QED
        BY <4>1, <4>2 DEF NoFiles
    <3> QED
      BY <3>1, <3>3, <3>4, <3>5, <3>6 DEF Charged
  <2> QED
    BY <2>3, <2>4, <2>7, <2>8 DEF OpInv
<1>5. TypeOK'
  BY <1>2, <1>3, <1>t DEF TypeOK, StoreTypes, AskTypes
<1> QED
  BY <1>3, <1>4, <1>5 DEF StoreInv

-----------------------------------------------------------------------------
(* Steps that give nothing back                                            *)

LEMMA SameMoney ==
  ASSUME StoreInv, NEW c \in Op, UNCHANGED <<used, reserved>>
  PROVE  /\ used' = used - Owed(c) + Owed(c)' /\ used' <= Limit
         /\ reserved' \in [Op -> [Streams -> 0 .. MaxOutput]]
<1>1. /\ reserved \in [Op -> [Streams -> 0 .. MaxOutput]] /\ MaxOutput \in Nat /\ used \in Nat
      /\ used <= Limit
  BY OutputStoreAssumption DEF StoreInv, Exact, TypeOK, OutputStoreAssumption
<1>2. Owed(c) \in Nat
  <2>1. reserved[c]["stdout"] \in Nat /\ reserved[c]["stderr"] \in Nat
    BY <1>1 DEF Streams
  <2> QED
    BY <2>1 DEF Owed
<1>3. Owed(c)' = Owed(c) /\ used' = used
  BY DEF Owed
<1> QED
  BY <1>1, <1>2, <1>3

\* A step that changes neither money nor slots.
LEMMA CalmStep ==
  ASSUME StoreInv, NEW c \in Op, UNCHANGED <<maxEntries, used, reserved, slots, tombs>>,
         Others(c), OpInv(c)', TypeOK'
  PROVE  StoreInv'
<1>1. /\ used' = used - Owed(c) + Owed(c)' /\ used' <= Limit
      /\ reserved' \in [Op -> [Streams -> 0 .. MaxOutput]]
  BY SameMoney
<1>2. slots' = slots /\ maxEntries' = maxEntries
  OBVIOUS
<1> QED
  BY <1>1, <1>2, StepKeeps

LEMMA CaptureBeginKeeps ==
  ASSUME StoreInv, NEW c \in Op, maxEntries' = maxEntries, CaptureBegin(c)
  PROVE  StoreInv'
<1>1. /\ op[c] = "none" /\ kind[c] = "capture"
      /\ op' = [op EXCEPT ![c] = "open"] /\ holders' = [holders EXCEPT ![c] = {"sink"}]
      /\ UNCHANGED <<kind, spooled, seen, chunk, reserved, file, slots, tombs, used, entry,
                     length, owner, access>>
  BY DEF CaptureBegin
<1>t. TypeOK /\ HoldersKnown(c) /\ TombsLate(c) /\ Previewed(c) /\ Charged(c)
  BY DEF StoreInv, OpInv
<1>2. op'[c] = "open" /\ holders'[c] = {"sink"}
  BY <1>1, <1>t DEF TypeOK
<1>3. ~Pinned(c) /\ entry[c] = "absent" /\ access[c] = "no" /\ ~spooled[c] /\ seen[c] = Nothing
  BY <1>1, <1>t DEF TombsLate, HoldersKnown, Previewed, Capturing, Registering, Writing
<1>4. holders[c] = {}
  BY <1>1, <1>3, <1>t DEF HoldersKnown, TypeOK, Capturing, Registering, Writing
<1>5. file[c] = NoFiles
  BY <1>3, <1>4, <1>t DEF Charged
<1>6. reserved[c] = Nothing
  <2>1. \A s \in Streams : Target(c, s, TRUE).op = c
    BY DEF Target
  <2>2. \A s \in Streams : ~Held(holders, tombs, <<c, s>>)
    BY <1>3, <1>4, <2>1 DEF Held, Pinned
  <2>3. \A s \in Streams : reserved[c][s] = 0
    BY <1>t, <2>2 DEF Charged
  <2> QED
    BY <1>t, <2>3 DEF TypeOK, Nothing
<1>7. HoldersKnown(c)' /\ TombsLate(c)'
  BY <1>1, <1>2, <1>3 DEF HoldersKnown, TombsLate, Pinned, Capturing, Registering, Writing
<1>8. Previewed(c)'
  <2>1. Aggregate(c)' = Aggregate(c)
    BY <1>1 DEF Aggregate
  <2>2. \A s \in Streams : NoFiles[s] = Absent
    BY DEF NoFiles
  <2> QED
    BY <1>1, <1>2, <1>3, <1>5, <1>6, <1>t, <2>1, <2>2
       DEF Previewed, Capturing, Registering, Writing
<1>9. Charged(c)'
  <2>1. \A s \in Streams : file'[c][s] = Absent /\ reserved'[c][s] = 0
    BY <1>1, <1>5, <1>6 DEF NoFiles, Nothing
  <2>2. SlotHeld(holders, tombs, c)'
    BY <1>2 DEF SlotHeld
  <2> QED
    BY <1>1, <1>2, <1>3, <2>1, <2>2 DEF Charged
<1>10. Others(c)
  BY <1>1, <1>t DEF Others, TypeOK
<1>11. TypeOK'
  BY <1>1, <1>t DEF TypeOK
<1> QED
  BY <1>1, <1>7, <1>8, <1>9, <1>10, <1>11, CalmStep DEF OpInv

LEMMA RegisterKeeps ==
  ASSUME StoreInv, NEW c \in Op, maxEntries' = maxEntries, Register(c)
  PROVE  StoreInv'
<1>1. /\ owner[c]
      /\ \/ op[c] \in Registering /\ op' = [op EXCEPT ![c] = "register stderr"]
            /\ holders' = holders
         \/ op[c] \in Registering /\ op' = [op EXCEPT ![c] = "register accounting"]
            /\ holders' = holders
         \/ op[c] \in Registering /\ op' = [op EXCEPT ![c] = "open"]
            /\ holders' = [holders EXCEPT ![c] = @ \cup {"owner"}]
      /\ UNCHANGED <<kind, spooled, seen, chunk, reserved, file, slots, tombs, used, entry,
                     length, owner, access>>
  BY DEF Register, Registering
<1>t. TypeOK /\ HoldersKnown(c) /\ TombsLate(c) /\ Previewed(c) /\ Charged(c)
  BY DEF StoreInv, OpInv
<1>2. /\ op[c] \in Registering
      /\ \/ op'[c] \in Registering /\ holders'[c] = holders[c]
         \/ op'[c] = "open" /\ holders'[c] = holders[c] \cup {"owner"}
  BY <1>1, <1>t DEF TypeOK, Registering
<1>3. kind[c] = "internal" /\ "sink" \in holders[c] /\ entry[c] = "absent" /\ access[c] = "no"
  BY <1>2, <1>t DEF HoldersKnown, Capturing, Registering, Writing
<1>4. ~Pinned(c)
  BY <1>1, <1>2, <1>t DEF TombsLate, Capturing, Registering, Writing
<1>5. HoldersKnown(c)'
  BY <1>1, <1>2, <1>3, <1>t DEF HoldersKnown, Capturing, Registering, Writing
<1>6. TombsLate(c)'
  BY <1>1, <1>4 DEF TombsLate, Pinned
<1>7. Previewed(c)'
  <2>1. Aggregate(c)' = Aggregate(c)
    BY <1>1 DEF Aggregate
  <2>2. op[c] \in Capturing /\ op'[c] \in Capturing /\ op'[c] \in Registering \cup {"open"}
        /\ op'[c] # "store" /\ op'[c] # "serialize"
    BY <1>2 DEF Capturing, Registering, Writing
  <2> QED
    BY <1>1, <1>2, <1>3, <1>t, <2>1, <2>2 DEF Previewed
<1>8. Charged(c)'
  <2>1. "sink" \in holders'[c] /\ SlotHeld(holders, tombs, c)'
    BY <1>2, <1>3 DEF SlotHeld
  <2>2. \A s \in Streams : Held(holders, tombs, <<c, s>>)' /\ Held(holders, tombs, <<c, s>>)
    BY <1>3, <2>1 DEF Held
  <2>3. op'[c] # "serialize"
    BY <1>2 DEF Registering
  <2> QED
    BY <1>1, <1>t, <2>1, <2>2, <2>3 DEF Charged
<1>9. Others(c)
  <2>1. \A d \in Op \ {c} : op'[d] = op[d]
    BY <1>1, <1>t DEF TypeOK
  <2>2. \A d \in Op \ {c} : holders'[d] = holders[d]
    BY <1>1, <1>t DEF TypeOK
  <2> QED
    BY <1>1, <2>1, <2>2 DEF Others
<1>10. TypeOK'
  <2>1. op' \in [Op -> {"none", "register stdout", "register stderr", "register accounting",
                       "open", "store", "over", "queued", "serialize", "done"}]
    BY <1>1, <1>t DEF TypeOK
  <2>2. holders' \in [Op -> SUBSET {"sink", "owner", "entry", "lease"}]
    <3>1. holders \in [Op -> SUBSET {"sink", "owner", "entry", "lease"}]
      BY <1>t DEF TypeOK
    <3>2. CASE holders' = holders
      BY <3>1, <3>2
    <3>3. CASE holders' = [holders EXCEPT ![c] = @ \cup {"owner"}]
      BY <3>1, <3>3
    <3> QED
      BY <1>1, <3>2, <3>3
  <2> QED
    BY <1>1, <1>t, <2>1, <2>2 DEF TypeOK
<1> QED
  BY <1>1, <1>5, <1>6, <1>7, <1>8, <1>9, <1>10, CalmStep DEF OpInv

LEMMA StoreInMemoryKeeps ==
  ASSUME StoreInv, NEW c \in Op, maxEntries' = maxEntries, StoreInMemory(c)
  PROVE  StoreInv'
<1>1. /\ op[c] = "store" /\ ~spooled[c]
      /\ \/ op' = [op EXCEPT ![c] = "open"]
         \/ op' = [op EXCEPT ![c] = "over"]
      /\ chunk' = [chunk EXCEPT ![c] = NoChunk]
      /\ UNCHANGED <<kind, spooled, seen, reserved, file, slots, holders, tombs, used, entry,
                     length, owner, access>>
  BY DEF StoreInMemory, Stored
<1>t. TypeOK /\ HoldersKnown(c) /\ TombsLate(c) /\ Previewed(c) /\ Charged(c)
  BY DEF StoreInv, OpInv
<1>2. op'[c] \in {"open", "over"}
  BY <1>1, <1>t DEF TypeOK
<1>3. op[c] \in Capturing /\ op'[c] \in Capturing \ (Registering \cup {"store", "serialize"})
      /\ op[c] \in Writing /\ op'[c] \in Writing /\ op'[c] # "done"
  BY <1>1, <1>2 DEF Capturing, Registering, Writing
<1>4. HoldersKnown(c)' /\ TombsLate(c)'
  BY <1>1, <1>2, <1>t DEF HoldersKnown, TombsLate, Pinned, Capturing, Registering, Writing
<1>5. Previewed(c)'
  <2>1. Aggregate(c)' = Aggregate(c)
    BY <1>1 DEF Aggregate
  <2>2. file[c] = NoFiles /\ \A s \in Streams : file[c][s] = Absent
    BY <1>1, <1>3, <1>t DEF Previewed, NoFiles
  <2> QED
    BY <1>1, <1>3, <1>t, <2>1, <2>2 DEF Previewed
<1>6. Charged(c)'
  BY <1>1, <1>3, <1>t DEF Charged, Held, SlotHeld, Named, Pinned
<1>7. Others(c)
  BY <1>1, <1>t DEF Others, TypeOK
<1>8. TypeOK'
  <2>1. NoChunk \in [stream : Streams, bytes : 0 .. MaxOutput, over : BOOLEAN]
    BY OutputStoreAssumption DEF OutputStoreAssumption, NoChunk, Streams
  <2> QED
    BY <1>1, <1>t, <2>1 DEF TypeOK
<1> QED
  BY <1>1, <1>4, <1>5, <1>6, <1>7, <1>8, CalmStep DEF OpInv

LEMMA RefusalKeeps ==
  ASSUME StoreInv, NEW c \in Op, maxEntries' = maxEntries, op[c] = "queued", Refusal(c)
  PROVE  StoreInv'
<1>1. /\ op' = [op EXCEPT ![c] = "done"]
      /\ UNCHANGED <<kind, spooled, seen, chunk, reserved, file, slots, holders, tombs, used,
                     entry, length, owner, access>>
  BY DEF Refusal
<1>t. TypeOK /\ HoldersKnown(c) /\ TombsLate(c) /\ Previewed(c) /\ Charged(c)
  BY DEF StoreInv, OpInv
<1>2. op'[c] = "done"
  BY <1>1, <1>t DEF TypeOK
<1>3. HoldersKnown(c)' /\ TombsLate(c)'
  BY <1>1, <1>2, <1>t DEF HoldersKnown, TombsLate, Pinned, Capturing, Registering, Writing
<1>4. Previewed(c)'
  <2>1. Aggregate(c)' = Aggregate(c)
    BY <1>1 DEF Aggregate
  <2>2. op[c] \notin Capturing /\ op'[c] \notin Capturing
    BY <1>2 DEF Capturing, Registering, Writing
  <2> QED
    BY <1>1, <1>2, <1>t, <2>1, <2>2 DEF Previewed
<1>5. Charged(c)'
  <2>1. op'[c] \notin Writing
    BY <1>2 DEF Writing
  <2> QED
    BY <1>1, <1>2, <1>t, <2>1 DEF Charged, Held, SlotHeld, Named, Pinned
<1>6. Others(c)
  BY <1>1, <1>t DEF Others, TypeOK
<1>7. TypeOK'
  BY <1>1, <1>t DEF TypeOK
<1> QED
  BY <1>1, <1>3, <1>4, <1>5, <1>6, <1>7, CalmStep DEF OpInv

LEMMA SerializeKeeps ==
  ASSUME StoreInv, NEW c \in Op, maxEntries' = maxEntries, Serialize(c)
  PROVE  StoreInv'
<1>1. /\ op[c] = "serialize" /\ file[c]["stdout"] < MaxOutput
      /\ file' = [file EXCEPT ![c]["stdout"] = @ + 1]
      /\ UNCHANGED <<kind, op, spooled, seen, chunk, reserved, slots, holders, tombs, used,
                     entry, length, owner, access>>
  BY DEF Serialize
<1>t. TypeOK /\ HoldersKnown(c) /\ TombsLate(c) /\ Previewed(c) /\ Charged(c)
  BY DEF StoreInv, OpInv
<1>u. /\ MaxOutput \in Nat /\ file \in [Op -> [Streams -> Absent .. MaxOutput]]
      /\ reserved \in [Op -> [Streams -> 0 .. MaxOutput]]
  BY <1>t, OutputStoreAssumption DEF OutputStoreAssumption, TypeOK
<1>2. /\ reserved[c]["stdout"] = MaxOutput /\ "sink" \in holders[c] /\ c \in slots
      /\ file[c]["stdout"] # Absent /\ file[c]["stderr"] = Absent
  BY <1>1, <1>t DEF Previewed, HoldersKnown, Charged
<1>3. entry[c] = "absent" /\ op[c] \notin Capturing /\ op[c] \notin Writing
  BY <1>1, <1>t DEF HoldersKnown, Capturing, Registering, Writing
<1>4. file[c]["stdout"] \in 0 .. MaxOutput - 1
  BY <1>1, <1>2, <1>u DEF Absent, Streams
<1>5. /\ file'[c]["stdout"] = file[c]["stdout"] + 1 /\ file'[c]["stderr"] = Absent
      /\ \A d \in Op \ {c} : file'[d] = file[d]
  BY <1>1, <1>2, <1>u DEF Streams
<1>6. file'[c]["stdout"] \in 1 .. MaxOutput
  BY <1>4, <1>5, <1>u
<1>7. file' \in [Op -> [Streams -> Absent .. MaxOutput]]
  <2>1. file[c]["stdout"] + 1 \in Absent .. MaxOutput
    BY <1>4, <1>u DEF Absent
  <2> QED
    BY <1>1, <1>u, <2>1
<1>8. HoldersKnown(c)' /\ TombsLate(c)'
  BY <1>1, <1>t DEF HoldersKnown, TombsLate, Pinned
<1>9. Previewed(c)'
  <2>1. Aggregate(c)' = Aggregate(c)
    BY <1>1 DEF Aggregate
  <2>2. file'[c]["stdout"] # Absent
    BY <1>6 DEF Absent
  <2> QED
    BY <1>1, <1>2, <1>3, <1>5, <1>t, <2>1, <2>2 DEF Previewed
<1>10. Charged(c)'
  <2>1. \A s \in Streams : file'[c][s] # Absent => file'[c][s] <= reserved'[c][s]
    <3>1. file'[c]["stdout"] <= reserved'[c]["stdout"]
      BY <1>1, <1>2, <1>6, <1>u
    <3> QED
      BY <1>5, <3>1 DEF Streams
  <2>2. \A s \in Streams : Held(holders, tombs, <<c, s>>)' /\ "sink" \in holders'[c]
    BY <1>1, <1>2 DEF Held
  <2>3. SlotHeld(holders, tombs, c)'
    BY <1>1, <1>2 DEF SlotHeld
  <2> QED
    BY <1>1, <1>2, <1>3, <2>1, <2>2, <2>3 DEF Charged
<1>11. Others(c)
  BY <1>1, <1>5 DEF Others
<1>12. TypeOK'
  BY <1>1, <1>7, <1>t DEF TypeOK
<1> QED
  BY <1>1, <1>8, <1>9, <1>10, <1>11, <1>12, CalmStep DEF OpInv

LEMMA FinishReferenceKeeps ==
  ASSUME StoreInv, NEW c \in Op, maxEntries' = maxEntries, FinishReference(c)
  PROVE  StoreInv'
<1>1. /\ op[c] = "open" /\ spooled[c] /\ kind[c] = "capture" /\ Over(c)
      /\ holders' = [holders EXCEPT ![c] = {"entry"}]
      /\ entry' = [entry EXCEPT ![c] = "live"]
      /\ length' = [length EXCEPT ![c] = seen[c]]
      /\ UNCHANGED <<kind, reserved, file, slots, tombs, used, owner, access>>
  BY DEF FinishReference
<1>t. TypeOK /\ HoldersKnown(c) /\ TombsLate(c) /\ Previewed(c) /\ Charged(c)
  BY DEF StoreInv, OpInv
<1>2. /\ op'[c] = "done" /\ ~spooled'[c] /\ seen'[c] = Nothing
      /\ op' \in [Op -> {"none", "register stdout", "register stderr", "register accounting",
                         "open", "store", "over", "queued", "serialize", "done"}]
      /\ spooled' \in [Op -> BOOLEAN] /\ seen' \in [Op -> [Streams -> 0 .. MaxOutput]]
      /\ chunk' \in [Op -> [stream : Streams, bytes : 0 .. MaxOutput, over : BOOLEAN]]
  BY <1>1, <1>t, OverTypes
<1>3. holders'[c] = {"entry"} /\ entry'[c] = "live" /\ length'[c] = seen[c]
  BY <1>1, <1>t DEF TypeOK
<1>4. ~Pinned(c) /\ access[c] = "no"
  BY <1>1, <1>t DEF TombsLate, HoldersKnown, Capturing, Registering, Writing
<1>5. \A s \in Streams : file[c][s] = seen[c][s]
  BY <1>1, <1>t DEF Previewed, Capturing, Registering, Writing
<1>6. HoldersKnown(c)' /\ TombsLate(c)'
  BY <1>1, <1>2, <1>3, <1>4
     DEF HoldersKnown, TombsLate, Pinned, Capturing, Registering, Writing
<1>7. Previewed(c)'
  <2>1. Aggregate(c)' = 0 /\ 0 <= MaxOutput
    <3>1. seen'[c]["stdout"] = 0 /\ seen'[c]["stderr"] = 0
      BY <1>2 DEF Nothing, Streams
    <3> QED
      BY <3>1, OutputStoreAssumption DEF Aggregate, OutputStoreAssumption
  <2>2. op'[c] \notin Capturing /\ op'[c] # "serialize"
    BY <1>2 DEF Capturing, Registering, Writing
  <2>3. \A s \in Streams : file'[c][s] = length'[c][s]
    BY <1>1, <1>3, <1>5
  <2> QED
    BY <1>2, <2>1, <2>2, <2>3 DEF Previewed
<1>8. Charged(c)'
  <2>1. "entry" \in holders'[c] /\ SlotHeld(holders, tombs, c)'
    BY <1>3 DEF SlotHeld
  <2>2. \A s \in Streams : Held(holders, tombs, <<c, s>>)'
    BY <2>1 DEF Held
  <2>3. op'[c] \notin Writing /\ op'[c] # "serialize"
    BY <1>2 DEF Writing
  <2>4. c \in slots
    BY <1>1, <1>t DEF Charged
  <2> QED
    BY <1>1, <1>2, <1>t, <2>1, <2>2, <2>3, <2>4 DEF Charged
<1>9. Others(c)
  BY <1>1, <1>t DEF Others, TypeOK, Over
<1>10. TypeOK'
  <2>1. holders' \in [Op -> SUBSET {"sink", "owner", "entry", "lease"}]
    BY <1>1, <1>t DEF TypeOK
  <2>2. length' \in [Op -> [Streams -> 0 .. MaxOutput]]
        /\ entry' \in [Op -> {"absent", "live", "expired"}]
    BY <1>1, <1>t DEF TypeOK
  <2> QED
    BY <1>1, <1>2, <1>t, <2>1, <2>2 DEF TypeOK
<1> QED
  BY <1>1, <1>6, <1>7, <1>8, <1>9, <1>10, CalmStep DEF OpInv

\* The steps of a reference that leave the files alone.
LEMMA ReferenceKeeps ==
  ASSUME StoreInv, NEW c \in Op, maxEntries' = maxEntries,
         \/ ReadOpens(c)
         \/ Expires(c)
         \/ /\ access[c] \in {"read", "discard"}
            /\ access' = [access EXCEPT ![c] = "no"]
            /\ UNCHANGED <<holders, entry>>
            /\ UNCHANGED <<kind, op, spooled, seen, chunk, reserved, file, slots, tombs, used,
                           length, owner>>
  PROVE  StoreInv'
<1>1. /\ UNCHANGED <<kind, op, spooled, seen, chunk, reserved, file, slots, tombs, used,
                     length, owner>>
      /\ \/ /\ access[c] = "read" /\ entry[c] = "live"
            /\ access' = [access EXCEPT ![c] = "open"]
            /\ holders' = [holders EXCEPT ![c] = @ \cup {"lease"}] /\ entry' = entry
         \/ /\ entry[c] = "live" /\ entry' = [entry EXCEPT ![c] = "expired"]
            /\ holders' = holders /\ access' = access
         \/ /\ access[c] \in {"read", "discard"} /\ access' = [access EXCEPT ![c] = "no"]
            /\ holders' = holders /\ entry' = entry
  BY DEF ReadOpens, Expires
<1>t. TypeOK /\ HoldersKnown(c) /\ TombsLate(c) /\ Previewed(c) /\ Charged(c)
  BY DEF StoreInv, OpInv
<1>2. /\ \/ /\ access[c] = "read" /\ entry[c] = "live" /\ access'[c] = "open"
            /\ holders'[c] = holders[c] \cup {"lease"} /\ entry'[c] = entry[c]
         \/ /\ entry[c] = "live" /\ entry'[c] = "expired"
            /\ holders'[c] = holders[c] /\ access'[c] = access[c]
         \/ /\ access[c] \in {"read", "discard"} /\ access'[c] = "no"
            /\ holders'[c] = holders[c] /\ entry'[c] = entry[c]
  BY <1>1, <1>t DEF TypeOK
<1>3. /\ holders[c] \subseteq holders'[c] /\ holders'[c] \subseteq holders[c] \cup {"lease"}
      /\ entry'[c] # "absent" <=> entry[c] # "absent"
      /\ "lease" \in holders'[c] <=> access'[c] = "open"
      /\ entry[c] # "absent" \/ access[c] # "no"
      /\ holders[c] # {} \/ holders'[c] = holders[c]
  BY <1>2, <1>t DEF HoldersKnown
<1>4. op[c] = "done" /\ kind[c] # "internal"
  BY <1>3, <1>t DEF HoldersKnown
<1>5. /\ "sink" \in holders'[c] <=> "sink" \in holders[c]
      /\ "owner" \in holders'[c] <=> "owner" \in holders[c]
      /\ "entry" \in holders'[c] <=> "entry" \in holders[c]
  BY <1>3
<1>6. HoldersKnown(c)' /\ TombsLate(c)'
  BY <1>1, <1>3, <1>4, <1>5, <1>t
     DEF HoldersKnown, TombsLate, Pinned, Capturing, Registering, Writing
<1>7. Previewed(c)'
  <2>1. Aggregate(c)' = Aggregate(c)
    BY <1>1 DEF Aggregate
  <2>2. op[c] \notin Capturing
    BY <1>4 DEF Capturing, Registering, Writing
  <2> QED
    BY <1>1, <1>3, <1>4, <1>t, <2>1, <2>2 DEF Previewed
<1>8. Charged(c)'
  <2>1. /\ \A s \in Streams : Held(holders, tombs, <<c, s>>)' <=> Held(holders, tombs, <<c, s>>)
        /\ SlotHeld(holders, tombs, c)' <=> SlotHeld(holders, tombs, c)
    BY <1>1, <1>3 DEF Held, SlotHeld
  <2>2. \A s \in Streams : Named(c, s)' <=> Named(c, s)
    BY <1>1 DEF Named
  <2>3. Pinned(c)' <=> Pinned(c)
    BY <1>1 DEF Pinned
  <2>4. holders'[c] = {} <=> holders[c] = {}
    BY <1>3
  <2> QED
    BY <1>1, <1>5, <1>t, <2>1, <2>2, <2>3, <2>4 DEF Charged
<1>9. Others(c)
  <2>t. /\ holders \in [Op -> SUBSET {"sink", "owner", "entry", "lease"}]
        /\ entry \in [Op -> {"absent", "live", "expired"}]
        /\ access \in [Op -> {"no", "read", "open", "discard"}]
    BY <1>t DEF TypeOK
  <2>1. \A d \in Op \ {c} : holders'[d] = holders[d]
    <3>1. holders' = holders \/ holders' = [holders EXCEPT ![c] = @ \cup {"lease"}]
      BY <1>1
    <3> QED
      BY <2>t, <3>1
  <2>2. \A d \in Op \ {c} : entry'[d] = entry[d]
    <3>1. entry' = entry \/ entry' = [entry EXCEPT ![c] = "expired"]
      BY <1>1
    <3> QED
      BY <2>t, <3>1
  <2>3. \A d \in Op \ {c} : access'[d] = access[d]
    <3>1. \/ access' = access \/ access' = [access EXCEPT ![c] = "open"]
          \/ access' = [access EXCEPT ![c] = "no"]
      BY <1>1
    <3> QED
      BY <2>t, <3>1
  <2> QED
    BY <1>1, <2>1, <2>2, <2>3 DEF Others
<1>10. TypeOK'
  <2>1. holders' \in [Op -> SUBSET {"sink", "owner", "entry", "lease"}]
    <3>1. holders \in [Op -> SUBSET {"sink", "owner", "entry", "lease"}]
      BY <1>t DEF TypeOK
    <3>2. CASE holders' = holders
      BY <3>1, <3>2
    <3>3. CASE holders' = [holders EXCEPT ![c] = @ \cup {"lease"}]
      BY <3>1, <3>3
    <3> QED
      BY <1>1, <3>2, <3>3
  <2>2. entry' \in [Op -> {"absent", "live", "expired"}]
    <3>1. entry \in [Op -> {"absent", "live", "expired"}]
      BY <1>t DEF TypeOK
    <3>2. entry' = entry \/ entry' = [entry EXCEPT ![c] = "expired"]
      BY <1>1
    <3> QED
      BY <3>1, <3>2
  <2>3. access' \in [Op -> {"no", "read", "open", "discard"}]
    BY <1>1, <1>t DEF TypeOK
  <2> QED
    BY <1>1, <1>t, <2>1, <2>2, <2>3 DEF TypeOK
<1> QED
  BY <1>1, <1>6, <1>7, <1>8, <1>9, <1>10, CalmStep DEF OpInv

-----------------------------------------------------------------------------
(* Steps that take a slot or bytes                                         *)

\* InternalBegin: the spool is there before its paths are registered.
LEMMA InternalBeginKeeps ==
  ASSUME StoreInv, NEW c \in Op, maxEntries' = maxEntries, InternalBegin(c)
  PROVE  StoreInv'
<1>1. /\ op[c] = "none" /\ kind[c] = "internal" /\ SlotFree
      /\ op' = [op EXCEPT ![c] = "register stdout"]
      /\ holders' = [holders EXCEPT ![c] = {"sink"}]
      /\ slots' = slots \cup {c} /\ spooled' = [spooled EXCEPT ![c] = TRUE]
      /\ file' = [file EXCEPT ![c] = Nothing]
      /\ UNCHANGED <<kind, seen, chunk, reserved, tombs, used, entry, length, owner, access>>
  BY DEF InternalBegin
<1>t. TypeOK /\ HoldersKnown(c) /\ TombsLate(c) /\ Previewed(c) /\ Charged(c)
  BY DEF StoreInv, OpInv
<1>2. /\ op'[c] = "register stdout" /\ holders'[c] = {"sink"} /\ spooled'[c]
      /\ file'[c] = Nothing
  BY <1>1, <1>t DEF TypeOK
<1>3. ~Pinned(c) /\ entry[c] = "absent" /\ access[c] = "no" /\ seen[c] = Nothing /\ holders[c] = {}
  <2>1. ~Pinned(c) /\ entry[c] = "absent" /\ access[c] = "no" /\ seen[c] = Nothing
    BY <1>1, <1>t DEF TombsLate, HoldersKnown, Previewed, Capturing, Registering, Writing
  <2>2. holders[c] = {}
    BY <1>1, <2>1, <1>t DEF HoldersKnown, TypeOK, Capturing, Registering, Writing
  <2> QED
    BY <2>1, <2>2
<1>4. reserved[c] = Nothing
  <2>1. \A s \in Streams : Target(c, s, TRUE).op = c
    BY DEF Target
  <2>2. \A s \in Streams : ~Held(holders, tombs, <<c, s>>)
    BY <1>3, <2>1 DEF Held, Pinned
  <2>3. \A s \in Streams : reserved[c][s] = 0
    BY <1>t, <2>2 DEF Charged
  <2> QED
    BY <1>t, <2>3 DEF TypeOK, Nothing
<1>5. HoldersKnown(c)' /\ TombsLate(c)'
  BY <1>1, <1>2, <1>3 DEF HoldersKnown, TombsLate, Pinned, Capturing, Registering, Writing
<1>6. Previewed(c)'
  <2>1. Aggregate(c)' = Aggregate(c)
    BY <1>1 DEF Aggregate
  <2>2. op'[c] \in Capturing /\ op'[c] \in Registering
    BY <1>2 DEF Capturing, Registering
  <2>3. reserved'[c] = Nothing /\ seen'[c] = Nothing /\ file'[c] = Nothing
    BY <1>1, <1>2, <1>3, <1>4
  <2>4. /\ kind'[c] = "internal" /\ entry'[c] = "absent" /\ spooled'[c]
        /\ op'[c] # "store" /\ op'[c] # "serialize"
    BY <1>1, <1>2, <1>3
  <2>5. Aggregate(c)' <= MaxOutput
    BY <1>t, <2>1 DEF Previewed
  <2>6. \A s \in Streams : file'[c][s] = seen'[c][s] /\ file'[c][s] # Absent
    BY <2>3 DEF Nothing, Absent
  <2>7. /\ reserved'[c] = seen'[c] /\ seen'[c] = Nothing
        /\ \A s \in Streams : file'[c][s] \in {Absent, seen'[c][s]}
    BY <2>3, <2>6
  <2> QED
    BY <2>2, <2>4, <2>5, <2>6, <2>7 DEF Previewed
<1>7. Charged(c)'
  <2>1. \A s \in Streams : file'[c][s] = 0 /\ reserved'[c][s] = 0
    <3>1. file'[c] = Nothing /\ reserved'[c] = Nothing
      BY <1>1, <1>2, <1>4
    <3> QED
      BY <3>1 DEF Nothing
  <2>2. SlotHeld(holders, tombs, c)' /\ c \in slots' /\ op'[c] \notin Writing
    BY <1>1, <1>2 DEF SlotHeld, Writing
  <2>3. \A s \in Streams : file'[c][s] <= reserved'[c][s]
    BY <2>1
  <2>4. "sink" \in holders'[c] /\ \A s \in Streams : Held(holders, tombs, <<c, s>>)'
    BY <1>2 DEF Held
  <2>5. op'[c] # "serialize" /\ spooled'[c]
    BY <1>2
  <2> QED
    BY <2>2, <2>3, <2>4, <2>5 DEF Charged
<1>8. Others(c)
  BY <1>1, <1>t DEF Others, TypeOK
<1>9. TypeOK'
  <2>1. Nothing \in [Streams -> Absent .. MaxOutput]
    BY OutputStoreAssumption DEF OutputStoreAssumption, Nothing, Absent
  <2>2. file' \in [Op -> [Streams -> Absent .. MaxOutput]]
    BY <1>1, <1>t, <2>1 DEF TypeOK
  <2>3. holders' \in [Op -> SUBSET {"sink", "owner", "entry", "lease"}]
    BY <1>1, <1>t DEF TypeOK
  <2> QED
    BY <1>1, <1>t, <2>2, <2>3 DEF TypeOK
<1>10. used' = used - Owed(c) + Owed(c)'
  <2>1. Owed(c) = 0 /\ Owed(c)' = 0
    <3>1. reserved[c]["stdout"] = 0 /\ reserved[c]["stderr"] = 0
      BY <1>4 DEF Nothing, Streams
    <3>2. reserved' = reserved
      BY <1>1
    <3> QED
      BY <3>1, <3>2 DEF Owed
  <2>2. used \in Nat /\ used' = used
    BY <1>1, <1>t DEF TypeOK
  <2> QED
    BY <2>1, <2>2
<1>11. used' <= Limit /\ reserved' \in [Op -> [Streams -> 0 .. MaxOutput]]
  BY <1>1 DEF StoreInv, Exact, TypeOK
<1> QED
  BY <1>1, <1>5, <1>6, <1>7, <1>8, <1>9, <1>10, <1>11, StepKeeps DEF OpInv

\* AppendReserve: what is reserved is what the previews have seen.
LEMMA AppendReserveKeeps ==
  ASSUME StoreInv, NEW c \in Op, maxEntries' = maxEntries, AppendReserve(c)
  PROVE  StoreInv'
<1>t. TypeOK /\ HoldersKnown(c) /\ TombsLate(c) /\ Previewed(c) /\ Charged(c)
  BY DEF StoreInv, OpInv
<1>u. /\ MaxOutput \in Nat /\ used \in Nat /\ Limit \in Nat
      /\ seen \in [Op -> [Streams -> 0 .. MaxOutput]]
      /\ reserved \in [Op -> [Streams -> 0 .. MaxOutput]]
  BY <1>t, OutputStoreAssumption DEF OutputStoreAssumption, TypeOK
<1>v. seen[c]["stdout"] \in Nat /\ seen[c]["stderr"] \in Nat
  BY <1>u DEF Streams
<1>1. PICK s \in Streams, n \in 1 .. MaxOutput, kept \in Int :
        /\ kept = IF n > MaxOutput - Aggregate(c) THEN MaxOutput - Aggregate(c) ELSE n
        /\ kept > 0 /\ used + kept <= Limit /\ used' = used + kept
        /\ reserved' = [reserved EXCEPT ![c][s] = @ + kept]
        /\ seen' = [seen EXCEPT ![c][s] = @ + kept]
        /\ chunk' = [chunk EXCEPT ![c] = [stream |-> s, bytes |-> kept,
                                          over |-> n > MaxOutput - Aggregate(c)]]
  <2>1. Aggregate(c) \in Int
    BY <1>v DEF Aggregate
  <2>2. \A n \in 1 .. MaxOutput :
          (IF n > MaxOutput - Aggregate(c) THEN MaxOutput - Aggregate(c) ELSE n) \in Int
    BY <1>u, <2>1
  <2> QED
    BY <2>2 DEF AppendReserve
<1>2. /\ op[c] = "open" /\ op' = [op EXCEPT ![c] = "store"]
      /\ UNCHANGED <<kind, spooled, file, slots, holders, tombs, entry, length, owner, access>>
  BY DEF AppendReserve
<1>3. op'[c] = "store" /\ op[c] \in Capturing /\ op'[c] \in Capturing
      /\ op[c] \in Writing /\ op'[c] \in Writing /\ op'[c] \notin Registering
      /\ op'[c] \notin {"open", "over"}
  BY <1>2, <1>t DEF TypeOK, Capturing, Registering, Writing
<1>4. kept \in 1 .. MaxOutput - Aggregate(c) /\ Aggregate(c) \in Nat
  <2>1. Aggregate(c) \in Nat
    BY <1>v DEF Aggregate
  <2> HIDE DEF Aggregate
  <2> QED
    BY <1>1, <1>u, <2>1
<1>5. seen[c] = reserved[c]
  BY <1>3, <1>t DEF Previewed
<1>6. /\ seen'[c] = [seen[c] EXCEPT ![s] = @ + kept] /\ reserved'[c] = seen'[c]
      /\ \A d \in Op \ {c} : seen'[d] = seen[d] /\ reserved'[d] = reserved[d]
  BY <1>1, <1>5, <1>u
<1>7. /\ seen'[c][s] = seen[c][s] + kept
      /\ \A x \in Streams \ {s} : seen'[c][x] = seen[c][x]
  BY <1>6, <1>u
<1>8. Aggregate(c)' = Aggregate(c) + kept
  <2>1. CASE s = "stdout"
    <3>1. seen'[c]["stdout"] = seen[c]["stdout"] + kept /\ seen'[c]["stderr"] = seen[c]["stderr"]
      BY <1>7, <2>1 DEF Streams
    <3> QED
      BY <1>v, <3>1 DEF Aggregate
  <2>2. CASE s = "stderr"
    <3>1. seen'[c]["stderr"] = seen[c]["stderr"] + kept /\ seen'[c]["stdout"] = seen[c]["stdout"]
      BY <1>7, <2>2 DEF Streams
    <3> QED
      BY <1>v, <3>1 DEF Aggregate
  <2> QED
    BY <2>1, <2>2 DEF Streams
<1>9. seen[c][s] + kept \in 0 .. MaxOutput /\ kept \in 0 .. MaxOutput
  <2>1. seen[c][s] \in Nat /\ seen[c][s] <= Aggregate(c)
    BY <1>v DEF Aggregate, Streams
  <2> HIDE DEF Aggregate
  <2> QED
    BY <1>4, <1>u, <2>1
<1>10. /\ seen' \in [Op -> [Streams -> 0 .. MaxOutput]]
       /\ reserved' \in [Op -> [Streams -> 0 .. MaxOutput]]
  <2>1. seen' \in [Op -> [Streams -> 0 .. MaxOutput]]
    BY <1>1, <1>9, <1>u
  <2>2. reserved[c][s] + kept \in 0 .. MaxOutput
    BY <1>5, <1>9
  <2>3. reserved' \in [Op -> [Streams -> 0 .. MaxOutput]]
    BY <1>1, <1>u, <2>2
  <2> QED
    BY <2>1, <2>3
<1>11. chunk'[c].stream = s /\ chunk'[c].bytes = kept
       /\ chunk' \in [Op -> [stream : Streams, bytes : 0 .. MaxOutput, over : BOOLEAN]]
  <2>1. chunk \in [Op -> [stream : Streams, bytes : 0 .. MaxOutput, over : BOOLEAN]]
    BY <1>t DEF TypeOK
  <2>2. PICK o \in BOOLEAN : chunk' = [chunk EXCEPT ![c] = [stream |-> s, bytes |-> kept, over |-> o]]
    <3>1. CASE n > MaxOutput - Aggregate(c)
      <4>1. (n > MaxOutput - Aggregate(c)) = TRUE
        BY <3>1
      <4> QED
        BY <1>1, <4>1
    <3>2. CASE ~ (n > MaxOutput - Aggregate(c))
      <4>1. (n > MaxOutput - Aggregate(c)) = FALSE
        BY <3>2
      <4> QED
        BY <1>1, <4>1
    <3> QED
      BY <3>1, <3>2
  <2>3. [stream |-> s, bytes |-> kept, over |-> o]
          \in [stream : Streams, bytes : 0 .. MaxOutput, over : BOOLEAN]
    BY <1>9
  <2> QED
    BY <2>1, <2>2, <2>3
<1>12. HoldersKnown(c)' /\ TombsLate(c)'
  BY <1>2, <1>3, <1>t DEF HoldersKnown, TombsLate, Pinned, Capturing, Registering, Writing
<1>13. Previewed(c)'
  <2>1. Aggregate(c)' <= MaxOutput
    <3> HIDE DEF Aggregate
    <3> QED
      BY <1>4, <1>8, <1>u
  <2>2. \A x \in Streams : seen[c][x] \in Nat /\ seen'[c][x] \in Nat /\ seen[c][x] <= seen'[c][x]
    <3>1. \A x \in Streams : seen[c][x] \in Nat
      BY <1>u
    <3>2. \A x \in Streams : seen'[c][x] = IF x = s THEN seen[c][x] + kept ELSE seen[c][x]
      BY <1>7
    <3> QED
      BY <1>4, <1>u, <3>1, <3>2
  <2>3. \A x \in Streams : file[c][x] \in {Absent, seen[c][x]}
    BY <1>2, <1>t, <1>3 DEF Previewed
  <2>4. \A x \in Streams : file'[c][x] <= seen'[c][x]
    <3>1. TAKE x \in Streams
    <3>2. file'[c][x] = -1 \/ file'[c][x] = seen[c][x]
      BY <1>2, <2>3 DEF Absent
    <3> QED
      BY <2>2, <3>2
  <2>5. chunk'[c].bytes \in 1 .. seen'[c][chunk'[c].stream]
    <3>1. seen[c][s] \in Nat
      BY <1>u
    <3> QED
      BY <1>4, <1>7, <1>11, <1>u, <3>1
  <2>6. entry[c] = "absent"
    BY <1>2, <1>t DEF HoldersKnown
  <2> QED
    BY <1>2, <1>3, <1>6, <1>t, <2>1, <2>4, <2>5, <2>6 DEF Previewed
<1>14. Charged(c)'
  <2>1. "sink" \in holders'[c] /\ SlotHeld(holders, tombs, c)'
    BY <1>2, <1>3, <1>t DEF HoldersKnown, SlotHeld
  <2>2. \A x \in Streams : Held(holders, tombs, <<c, x>>)' /\ (Named(c, x)' <=> Named(c, x))
    BY <1>2, <2>1 DEF Held, Named
  <2>3. \A x \in Streams : reserved[c][x] \in Nat /\ reserved'[c][x] \in Nat
                           /\ reserved[c][x] <= reserved'[c][x]
    <3>1. \A x \in Streams : reserved[c][x] \in Nat
      BY <1>u
    <3>2. \A x \in Streams : reserved'[c][x] = IF x = s THEN reserved[c][x] + kept ELSE reserved[c][x]
      BY <1>5, <1>6, <1>7
    <3> QED
      BY <1>4, <1>u, <3>1, <3>2
  <2>4. \A x \in Streams : file'[c][x] # Absent => file'[c][x] <= reserved'[c][x]
    <3>1. SUFFICES ASSUME NEW x \in Streams, file'[c][x] # Absent
                   PROVE  file'[c][x] <= reserved'[c][x]
      OBVIOUS
    <3>2. file'[c][x] = file[c][x] /\ file[c][x] <= reserved[c][x]
      BY <1>2, <1>t, <3>1 DEF Charged
    <3>3. file[c][x] \in Int
      <4>1. file \in [Op -> [Streams -> Absent .. MaxOutput]]
        BY <1>t DEF TypeOK
      <4> QED
        BY <1>u, <4>1
    <3> QED
      BY <2>3, <3>2, <3>3
  <2> QED
    BY <1>2, <1>3, <1>t, <2>1, <2>2, <2>4 DEF Charged
<1>15. Others(c)
  BY <1>1, <1>2, <1>6, <1>t DEF Others, TypeOK
<1>16. ASSUME used' \in Nat PROVE TypeOK'
  <2>1. op' \in [Op -> {"none", "register stdout", "register stderr", "register accounting",
                       "open", "store", "over", "queued", "serialize", "done"}]
    BY <1>2, <1>t DEF TypeOK
  <2> QED
    BY <1>2, <1>10, <1>11, <1>16, <1>t, <2>1 DEF TypeOK
<1>17. used' = used - Owed(c) + Owed(c)'
  <2>1. Owed(c) = Aggregate(c) /\ Owed(c)' = Aggregate(c)'
    BY <1>5, <1>6 DEF Owed, Aggregate
  <2> HIDE DEF Aggregate
  <2> QED
    BY <1>1, <1>4, <1>8, <1>u, <2>1
<1>18. used' <= Limit /\ slots' = slots
  BY <1>1, <1>2
<1> QED
  BY <1>10, <1>12, <1>13, <1>14, <1>15, <1>16, <1>17, <1>18, StepKeeps DEF OpInv

\* StoreInFile: the first chunk in a file brings the buffered ones along.
LEMMA StoreInFileKeeps ==
  ASSUME StoreInv, NEW c \in Op, maxEntries' = maxEntries, StoreInFile(c)
  PROVE  StoreInv'
<1>1. /\ op[c] = "store" /\ (spooled[c] \/ SlotFree)
      /\ \/ op' = [op EXCEPT ![c] = "open"]
         \/ op' = [op EXCEPT ![c] = "over"]
      /\ file' = [file EXCEPT ![c] = [s \in Streams |->
                   IF spooled[c] /\ @[s] = Absent THEN Absent ELSE seen[c][s]]]
      /\ spooled' = [spooled EXCEPT ![c] = TRUE] /\ slots' = slots \cup {c}
      /\ chunk' = [chunk EXCEPT ![c] = NoChunk]
      /\ UNCHANGED <<kind, seen, reserved, holders, tombs, used, entry, length, owner, access>>
  BY DEF StoreInFile, Stored
<1>t. TypeOK /\ HoldersKnown(c) /\ TombsLate(c) /\ Previewed(c) /\ Charged(c)
  BY DEF StoreInv, OpInv
<1>u. /\ MaxOutput \in Nat /\ file \in [Op -> [Streams -> Absent .. MaxOutput]]
      /\ seen \in [Op -> [Streams -> 0 .. MaxOutput]]
  BY <1>t, OutputStoreAssumption DEF OutputStoreAssumption, TypeOK
<1>2. op'[c] \in {"open", "over"} /\ spooled'[c]
  BY <1>1, <1>t DEF TypeOK
<1>3. op[c] \in Capturing /\ op'[c] \in Capturing \ (Registering \cup {"store", "serialize"})
      /\ op[c] \in Writing /\ op'[c] \in Writing /\ op'[c] # "done"
  BY <1>1, <1>2 DEF Capturing, Registering, Writing
<1>4. \A s \in Streams : file'[c][s] = IF spooled[c] /\ file[c][s] = Absent
                                       THEN Absent ELSE seen[c][s]
  BY <1>1, <1>u
<1>5. \A s \in Streams : seen[c][s] \in 0 .. MaxOutput /\ seen[c][s] # Absent
                         /\ seen[c][s] = reserved[c][s]
  <2>1. reserved[c] = seen[c]
    BY <1>3, <1>t DEF Previewed
  <2> QED
    BY <1>u, <2>1 DEF Absent
<1>6. \A s \in Streams : file'[c][s] # Absent =>
        /\ file'[c][s] = reserved[c][s] /\ file'[c][s] <= reserved[c][s]
        /\ spooled[c] => file[c][s] # Absent
  <2>1. \A s \in Streams : file'[c][s] # Absent => file'[c][s] = reserved[c][s]
                                                   /\ (spooled[c] => file[c][s] # Absent)
    BY <1>4, <1>5
  <2>2. \A s \in Streams : reserved[c][s] \in 0 .. MaxOutput
    BY <1>5
  <2> QED
    BY <2>1, <2>2
<1>7. HoldersKnown(c)' /\ TombsLate(c)'
  BY <1>1, <1>2, <1>t DEF HoldersKnown, TombsLate, Pinned, Capturing, Registering, Writing
<1>8. Previewed(c)'
  <2>1. Aggregate(c)' = Aggregate(c)
    BY <1>1 DEF Aggregate
  <2>2. \A s \in Streams : file'[c][s] \in {Absent, seen[c][s]}
    BY <1>4
  <2>3. kind[c] = "capture" => \A s \in Streams : file'[c][s] # Absent
    <3>1. spooled[c] /\ kind[c] = "capture" => \A s \in Streams : file[c][s] # Absent
      BY <1>3, <1>t DEF Previewed
    <3> QED
      BY <1>4, <1>5, <3>1
  <2>4. entry[c] = "absent"
    BY <1>1, <1>t DEF HoldersKnown
  <2> QED
    BY <1>1, <1>2, <1>3, <1>t, <2>1, <2>2, <2>3, <2>4 DEF Previewed
<1>9. Charged(c)'
  <2>1. "sink" \in holders'[c] /\ SlotHeld(holders, tombs, c)'
    BY <1>1, <1>3, <1>t DEF HoldersKnown, SlotHeld
  <2>2. \A s \in Streams : Held(holders, tombs, <<c, s>>)' /\ (Named(c, s)' <=> Named(c, s))
    BY <1>1, <2>1 DEF Held, Named
  <2>3. \A s \in Streams : file'[c][s] # Absent /\ kind[c] = "internal" /\ ~owner[c] => Named(c, s)
    <3>1. kind[c] = "internal" => spooled[c]
      BY <1>3, <1>t DEF Previewed
    <3> QED
      BY <1>3, <1>6, <1>t, <3>1 DEF Charged
  <2>4. c \in slots' /\ reserved' = reserved /\ kind' = kind /\ owner' = owner
    BY <1>1
  <2> QED
    BY <1>6, <2>1, <2>2, <2>3, <2>4 DEF Charged
<1>10. Others(c)
  <2>1. \A d \in Op \ {c} : op'[d] = op[d]
    BY <1>1, <1>t DEF TypeOK
  <2>2. \A d \in Op \ {c} : file'[d] = file[d]
    BY <1>1, <1>t DEF TypeOK
  <2>3. \A d \in Op \ {c} : spooled'[d] = spooled[d]
    BY <1>1, <1>t DEF TypeOK
  <2>4. \A d \in Op \ {c} : chunk'[d] = chunk[d]
    BY <1>1, <1>t DEF TypeOK
  <2> QED
    BY <1>1, <2>1, <2>2, <2>3, <2>4 DEF Others
<1>11. TypeOK'
  <2>1. NoChunk \in [stream : Streams, bytes : 0 .. MaxOutput, over : BOOLEAN]
    BY OutputStoreAssumption DEF OutputStoreAssumption, NoChunk, Streams
  <2>2. chunk' \in [Op -> [stream : Streams, bytes : 0 .. MaxOutput, over : BOOLEAN]]
    BY <1>1, <1>t, <2>1 DEF TypeOK
  <2>3. file' \in [Op -> [Streams -> Absent .. MaxOutput]]
    <3>1. \A s \in Streams : (IF spooled[c] /\ file[c][s] = Absent THEN Absent ELSE seen[c][s])
                               \in Absent .. MaxOutput
      BY <1>5, <1>u DEF Absent
    <3> QED
      BY <1>1, <1>u, <3>1
  <2>4. op' \in [Op -> {"none", "register stdout", "register stderr", "register accounting",
                       "open", "store", "over", "queued", "serialize", "done"}]
    <3>1. op \in [Op -> {"none", "register stdout", "register stderr", "register accounting",
                        "open", "store", "over", "queued", "serialize", "done"}]
      BY <1>t DEF TypeOK
    <3>2. op' = [op EXCEPT ![c] = "open"] \/ op' = [op EXCEPT ![c] = "over"]
      BY <1>1
    <3> QED
      BY <3>1, <3>2
  <2> QED
    BY <1>1, <1>t, <2>2, <2>3, <2>4 DEF TypeOK
<1>12. used' = used - Owed(c) + Owed(c)' /\ used' <= Limit
       /\ reserved' \in [Op -> [Streams -> 0 .. MaxOutput]]
  BY <1>1, SameMoney
<1>13. slots' \subseteq slots \cup {c} /\ (SlotFree \/ c \in slots)
  BY <1>1, <1>t DEF Charged
<1> QED
  BY <1>7, <1>8, <1>9, <1>10, <1>11, <1>12, <1>13, StepKeeps DEF OpInv

\* RetainStart: a retention begins with the largest reservation.
LEMMA RetainStartKeeps ==
  ASSUME StoreInv, NEW c \in Op, maxEntries' = maxEntries, RetainStart(c)
  PROVE  StoreInv'
<1>1. /\ op[c] = "queued" /\ SlotFree /\ used + MaxOutput <= Limit
      /\ op' = [op EXCEPT ![c] = "serialize"] /\ slots' = slots \cup {c}
      /\ used' = used + MaxOutput
      /\ reserved' = [reserved EXCEPT ![c]["stdout"] = MaxOutput]
      /\ holders' = [holders EXCEPT ![c] = {"sink"}]
      /\ file' = [file EXCEPT ![c]["stdout"] = 0]
      /\ UNCHANGED <<kind, spooled, seen, chunk, tombs, entry, length, owner, access>>
  BY DEF RetainStart
<1>t. TypeOK /\ HoldersKnown(c) /\ TombsLate(c) /\ Previewed(c) /\ Charged(c)
  BY DEF StoreInv, OpInv
<1>u. /\ MaxOutput \in Nat /\ file \in [Op -> [Streams -> Absent .. MaxOutput]]
      /\ reserved \in [Op -> [Streams -> 0 .. MaxOutput]] /\ used \in Nat
  BY <1>t, OutputStoreAssumption DEF OutputStoreAssumption, TypeOK
<1>2. op'[c] = "serialize" /\ holders'[c] = {"sink"}
  BY <1>1, <1>t DEF TypeOK
<1>3. /\ ~Pinned(c) /\ entry[c] = "absent" /\ access[c] = "no" /\ kind[c] = "retain"
      /\ ~spooled[c] /\ seen[c] = Nothing
  BY <1>1, <1>t DEF TombsLate, HoldersKnown, Previewed, Capturing, Registering, Writing
<1>4. holders[c] = {}
  BY <1>1, <1>3, <1>t DEF HoldersKnown, TypeOK, Capturing, Registering, Writing
<1>5. file[c] = NoFiles
  BY <1>3, <1>4, <1>t DEF Charged
<1>6. \A s \in Streams : reserved[c][s] = 0
  <2>1. \A s \in Streams : Target(c, s, TRUE).op = c
    BY DEF Target
  <2>2. \A s \in Streams : ~Held(holders, tombs, <<c, s>>)
    BY <1>3, <1>4, <2>1 DEF Held, Pinned
  <2> QED
    BY <1>t, <2>2 DEF Charged
<1>7. /\ reserved'[c]["stdout"] = MaxOutput /\ reserved'[c]["stderr"] = 0
      /\ \A d \in Op \ {c} : reserved'[d] = reserved[d]
      /\ reserved' \in [Op -> [Streams -> 0 .. MaxOutput]]
  BY <1>1, <1>6, <1>u DEF Streams
<1>8. /\ file'[c]["stdout"] = 0 /\ file'[c]["stderr"] = Absent
      /\ \A d \in Op \ {c} : file'[d] = file[d]
      /\ file' \in [Op -> [Streams -> Absent .. MaxOutput]]
  <2>1. 0 \in Absent .. MaxOutput
    BY <1>u DEF Absent
  <2>2. file[c]["stderr"] = Absent
    BY <1>5 DEF NoFiles, Streams
  <2> QED
    BY <1>1, <1>u, <2>1, <2>2 DEF Streams
<1>9. HoldersKnown(c)' /\ TombsLate(c)'
  BY <1>1, <1>2, <1>3 DEF HoldersKnown, TombsLate, Pinned, Capturing, Registering, Writing
<1>10. Previewed(c)'
  <2>1. Aggregate(c)' = Aggregate(c)
    BY <1>1 DEF Aggregate
  <2>2. op'[c] \notin Capturing
    BY <1>2 DEF Capturing, Registering, Writing
  <2>3. file'[c]["stdout"] # Absent
    BY <1>8 DEF Absent
  <2> QED
    BY <1>1, <1>2, <1>3, <1>7, <1>8, <1>t, <2>1, <2>2, <2>3 DEF Previewed
<1>11. Charged(c)'
  <2>1. "sink" \in holders'[c] /\ SlotHeld(holders, tombs, c)' /\ c \in slots'
    BY <1>1, <1>2 DEF SlotHeld
  <2>2. \A s \in Streams : Held(holders, tombs, <<c, s>>)'
    BY <2>1 DEF Held
  <2>3. \A s \in Streams : file'[c][s] # Absent => file'[c][s] <= reserved'[c][s]
    <3>1. file'[c]["stdout"] <= reserved'[c]["stdout"]
      BY <1>7, <1>8, <1>u
    <3> QED
      BY <1>8, <3>1 DEF Streams
  <2>4. op'[c] \notin Writing
    BY <1>2 DEF Writing
  <2> QED
    BY <2>1, <2>2, <2>3, <2>4 DEF Charged
<1>12. Others(c)
  <2>1. \A d \in Op \ {c} : op'[d] = op[d]
    BY <1>1, <1>t DEF TypeOK
  <2>2. \A d \in Op \ {c} : holders'[d] = holders[d]
    BY <1>1, <1>t DEF TypeOK
  <2> QED
    BY <1>1, <1>7, <1>8, <2>1, <2>2 DEF Others
<1>13. ASSUME used' \in Nat PROVE TypeOK'
  <2>1. holders' \in [Op -> SUBSET {"sink", "owner", "entry", "lease"}]
    BY <1>1, <1>t DEF TypeOK
  <2>2. op' \in [Op -> {"none", "register stdout", "register stderr", "register accounting",
                       "open", "store", "over", "queued", "serialize", "done"}]
    BY <1>1, <1>t DEF TypeOK
  <2>3. slots' \subseteq Op
    BY <1>1, <1>t DEF TypeOK
  <2>4. UNCHANGED <<maxEntries, kind, spooled, seen, chunk, tombs, entry, length, owner, access>>
    BY <1>1
  <2> QED
    BY <1>7, <1>8, <1>13, <1>t, <2>1, <2>2, <2>3, <2>4 DEF TypeOK
<1>14. used' = used - Owed(c) + Owed(c)' /\ used' <= Limit
  <2>1. Owed(c) = 0 /\ Owed(c)' = MaxOutput
    BY <1>6, <1>7, <1>u DEF Owed, Streams
  <2>2. used' = used + MaxOutput /\ used + MaxOutput <= Limit
    BY <1>1
  <2> HIDE DEF Owed
  <2> QED
    BY <1>u, <2>1, <2>2
<1>15. slots' \subseteq slots \cup {c} /\ SlotFree
  BY <1>1
<1> QED
  BY <1>7, <1>9, <1>10, <1>11, <1>12, <1>13, <1>14, <1>15, StepKeeps DEF OpInv

\* RetainDone: what the file does not need of the reservation is given back.
LEMMA RetainDoneKeeps ==
  ASSUME StoreInv, NEW c \in Op, maxEntries' = maxEntries, RetainDone(c)
  PROVE  StoreInv'
<1>1. /\ op[c] = "serialize" /\ op' = [op EXCEPT ![c] = "done"]
      /\ reserved' = [reserved EXCEPT ![c]["stdout"] = file[c]["stdout"]]
      /\ used' = used - (reserved[c]["stdout"] - file[c]["stdout"])
      /\ holders' = [holders EXCEPT ![c] = {"entry"}]
      /\ entry' = [entry EXCEPT ![c] = "live"]
      /\ length' = [length EXCEPT ![c]["stdout"] = file[c]["stdout"]]
      /\ UNCHANGED <<kind, spooled, seen, chunk, file, slots, tombs, owner, access>>
  BY DEF RetainDone, Reconciled, Surplus
<1>t. TypeOK /\ HoldersKnown(c) /\ TombsLate(c) /\ Previewed(c) /\ Charged(c)
  BY DEF StoreInv, OpInv
<1>u. /\ MaxOutput \in Nat /\ file \in [Op -> [Streams -> Absent .. MaxOutput]]
      /\ reserved \in [Op -> [Streams -> 0 .. MaxOutput]] /\ used \in Nat /\ Limit \in Nat
      /\ length \in [Op -> [Streams -> 0 .. MaxOutput]]
  BY <1>t, OutputStoreAssumption DEF OutputStoreAssumption, TypeOK
<1>2. op'[c] = "done" /\ holders'[c] = {"entry"} /\ entry'[c] = "live"
  BY <1>1, <1>t DEF TypeOK
<1>3. /\ ~Pinned(c) /\ access[c] = "no" /\ kind[c] = "retain" /\ c \in slots
      /\ reserved[c]["stdout"] = MaxOutput /\ reserved[c]["stderr"] = 0
      /\ file[c]["stdout"] # Absent /\ file[c]["stderr"] = Absent
  BY <1>1, <1>t DEF TombsLate, HoldersKnown, Previewed, Charged, Capturing, Registering, Writing
<1>4. file[c]["stdout"] \in 0 .. MaxOutput
  BY <1>3, <1>u DEF Absent, Streams
<1>5. /\ reserved'[c]["stdout"] = file[c]["stdout"] /\ reserved'[c]["stderr"] = 0
      /\ \A d \in Op \ {c} : reserved'[d] = reserved[d]
      /\ reserved' \in [Op -> [Streams -> 0 .. MaxOutput]]
  BY <1>1, <1>3, <1>4, <1>u DEF Streams
<1>6. /\ length'[c]["stdout"] = file[c]["stdout"]
      /\ \A d \in Op \ {c} : length'[d] = length[d]
      /\ length' \in [Op -> [Streams -> 0 .. MaxOutput]]
  BY <1>1, <1>4, <1>u DEF Streams
<1>7. ~spooled[c] /\ seen[c] = Nothing
  BY <1>1, <1>t DEF Previewed, Capturing, Registering, Writing
<1>8. HoldersKnown(c)' /\ TombsLate(c)'
  BY <1>1, <1>2, <1>3 DEF HoldersKnown, TombsLate, Pinned, Capturing, Registering, Writing
<1>9. Previewed(c)'
  <2>1. Aggregate(c)' = Aggregate(c)
    BY <1>1 DEF Aggregate
  <2>2. op'[c] \notin Capturing /\ op'[c] # "serialize"
    BY <1>2 DEF Capturing, Registering, Writing
  <2>3. \A s \in Streams : file'[c][s] = length'[c][s] \/ (kind'[c] = "retain" /\ s = "stderr")
    BY <1>1, <1>3, <1>6 DEF Streams
  <2> QED
    BY <1>1, <1>7, <1>t, <2>1, <2>2, <2>3 DEF Previewed
<1>10. Charged(c)'
  <2>1. "entry" \in holders'[c] /\ SlotHeld(holders, tombs, c)' /\ c \in slots'
    BY <1>1, <1>2, <1>3 DEF SlotHeld
  <2>2. \A s \in Streams : Held(holders, tombs, <<c, s>>)'
    BY <2>1 DEF Held
  <2>3. \A s \in Streams : file'[c][s] # Absent => file'[c][s] <= reserved'[c][s]
    <3>1. file'[c]["stdout"] <= reserved'[c]["stdout"] /\ file'[c]["stderr"] = Absent
      BY <1>1, <1>3, <1>4, <1>5
    <3> QED
      BY <3>1 DEF Streams
  <2>4. op'[c] \notin Writing
    BY <1>2 DEF Writing
  <2> QED
    BY <2>1, <2>2, <2>3, <2>4 DEF Charged
<1>11. Others(c)
  <2>1. \A d \in Op \ {c} : op'[d] = op[d]
    BY <1>1, <1>t DEF TypeOK
  <2>2. \A d \in Op \ {c} : holders'[d] = holders[d]
    BY <1>1, <1>t DEF TypeOK
  <2>3. \A d \in Op \ {c} : entry'[d] = entry[d]
    BY <1>1, <1>t DEF TypeOK
  <2> QED
    BY <1>1, <1>5, <1>6, <2>1, <2>2, <2>3 DEF Others
<1>12. ASSUME used' \in Nat PROVE TypeOK'
  <2>1. holders' \in [Op -> SUBSET {"sink", "owner", "entry", "lease"}]
        /\ entry' \in [Op -> {"absent", "live", "expired"}]
    BY <1>1, <1>t DEF TypeOK
  <2> QED
    BY <1>1, <1>5, <1>6, <1>12, <1>t, <2>1 DEF TypeOK
<1>13. used' = used - Owed(c) + Owed(c)' /\ used' <= Limit
  <2>1. Owed(c) = MaxOutput /\ Owed(c)' = file[c]["stdout"]
    BY <1>3, <1>4, <1>5, <1>u DEF Owed
  <2>2. used' = used - (MaxOutput - file[c]["stdout"]) /\ used <= Limit
    BY <1>1, <1>3 DEF StoreInv, Exact
  <2> HIDE DEF Owed
  <2> QED
    BY <1>4, <1>u, <2>1, <2>2
<1>14. slots' \subseteq slots
  BY <1>1
<1> QED
  BY <1>5, <1>8, <1>9, <1>10, <1>11, <1>12, <1>13, <1>14, StepKeeps DEF OpInv

-----------------------------------------------------------------------------
(* Steps that let an accounting go and leave the files                     *)

\* A tombstone that pins no accounting names an operation nobody holds.
Orphans == \A x \in tombs : ~x.own => holders[x.op] = {}

LEMMA LetsGo ==
  ASSUME StoreInv, Orphans, NEW c \in Op, NEW who \in holders[c],
         Drops([holders EXCEPT ![c] = @ \ {who}], tombs, reserved, used, slots),
         file' = file,
         \A s \in Streams : file[c][s] # Absent =>
           Named(c, s) \/ {"sink", "entry", "owner"} \cap (holders[c] \ {who}) # {}
  PROVE  /\ used' = used - Owed(c) + Owed(c)' /\ used' <= Limit
         /\ StoreTypes' /\ OthersStored(c) /\ slots' \subseteq slots /\ tombs' = tombs
         /\ holders'[c] = holders[c] \ {who}
         /\ \A s \in Streams : ~Held(holders, tombs, <<c, s>>)' => reserved'[c][s] = 0
         /\ c \in slots' <=> c \in slots /\ SlotHeld(holders, tombs, c)'
         /\ \A s \in Streams : file[c][s] # Absent =>
              c \in slots' /\ file[c][s] <= reserved'[c][s]
<1>t. StoreTypes /\ Charged(c)
  BY DEF StoreInv, TypeOK, StoreTypes, OpInv
<1> DEFINE h == [holders EXCEPT ![c] = @ \ {who}]
<1>1. /\ \A d \in Op \ {c} : h[d] = holders[d] /\ (d \in slots <=> d \in slots)
      /\ h[c] = holders[c] \ {who} /\ h \in [Op -> SUBSET {"sink", "owner", "entry", "lease"}]
      /\ slots \subseteq Op
  BY <1>t DEF StoreTypes
<1>2. Drops(h, tombs, reserved, used, slots)
  OBVIOUS
<1> HIDE DEF h
<1>3. Account(c, reserved, used)
  BY OwnAccount
<1>4. /\ used' = used - Owed(c) + Owed(c)' /\ used' <= Limit
      /\ reserved' \in [Op -> [Streams -> 0 .. MaxOutput]]
      /\ \A d \in Op \ {c} : reserved'[d] = reserved[d] /\ (d \in slots' <=> d \in slots)
      /\ slots' \subseteq slots
  BY <1>1, <1>2, <1>3, DropsBalance
<1>5. /\ holders' = h /\ tombs' = tombs
      /\ slots' = {d \in slots : SlotHeld(h, tombs, d)}
      /\ \A s \in Streams : reserved'[c][s] = IF Held(h, tombs, <<c, s>>) THEN reserved[c][s] ELSE 0
  <2>1. /\ holders' = h /\ tombs' = tombs
        /\ slots' = {d \in slots : SlotHeld(h, tombs, d)}
        /\ reserved' = [d \in Op |-> [s \in Streams |->
                          IF Held(h, tombs, <<d, s>>) THEN reserved[d][s] ELSE 0]]
    BY <1>2 DEF Drops
  <2> QED
    BY <2>1
<1>6. StoreTypes' /\ OthersStored(c)
  BY <1>1, <1>4, <1>5, <1>t DEF StoreTypes, OthersStored
<1>7. \A s \in Streams : ~Held(holders, tombs, <<c, s>>)' => reserved'[c][s] = 0
  BY <1>5 DEF Held
<1>8. c \in slots' <=> c \in slots /\ SlotHeld(holders, tombs, c)'
  BY <1>5 DEF SlotHeld
<1>9. ASSUME NEW s \in Streams, file[c][s] # Absent
      PROVE  c \in slots' /\ file[c][s] <= reserved'[c][s]
  <2>1. c \in slots /\ file[c][s] <= reserved[c][s]
    BY <1>9, <1>t DEF Charged
  <2>2. Held(h, tombs, <<c, s>>) /\ SlotHeld(h, tombs, c)
    <3>1. CASE h[c] # {}
      BY <3>1 DEF Held, SlotHeld
    <3>2. CASE h[c] = {}
      <4>1. PICK x \in tombs : x.op = c /\ x.stream = s
        BY <1>1, <1>9, <3>2 DEF Named
      <4>2. x.own = TRUE
        BY <1>t, <4>1 DEF Orphans, StoreTypes
      <4>3. x = Target(c, s, TRUE)
        BY <1>t, <4>1, <4>2 DEF Target, StoreTypes
      <4> QED
        BY <4>1, <4>3 DEF Held, SlotHeld
    <3> QED
      BY <3>1, <3>2
  <2> QED
    BY <1>5, <2>1, <2>2
<1> QED
  BY <1>1, <1>4, <1>5, <1>6, <1>7, <1>8, <1>9

LEMMA FinishInternalKeeps ==
  ASSUME StoreInv, Orphans, NEW c \in Op, maxEntries' = maxEntries, FinishInternal(c)
  PROVE  StoreInv'
<1>1. /\ op[c] = "open" /\ kind[c] = "internal" /\ Over(c)
      /\ Drops([holders EXCEPT ![c] = @ \ {"sink"}], tombs, reserved, used, slots)
      /\ UNCHANGED <<kind, file, entry, length, owner, access>>
  BY DEF FinishInternal
<1>t. TypeOK /\ HoldersKnown(c) /\ TombsLate(c) /\ Previewed(c) /\ Charged(c)
  BY DEF StoreInv, OpInv
<1>2. "sink" \in holders[c] /\ op[c] \in Writing
  BY <1>1, <1>t DEF HoldersKnown, Capturing, Registering, Writing
<1>3. owner[c] => "owner" \in holders[c]
  BY <1>1, <1>2, <1>t DEF HoldersKnown
<1>4. \A s \in Streams : file[c][s] # Absent => Named(c, s) \/ "owner" \in holders[c]
  BY <1>1, <1>2, <1>3, <1>t DEF Charged
<1>5. /\ used' = used - Owed(c) + Owed(c)' /\ used' <= Limit
      /\ StoreTypes' /\ OthersStored(c) /\ slots' \subseteq slots /\ tombs' = tombs
      /\ holders'[c] = holders[c] \ {"sink"}
      /\ \A s \in Streams : ~Held(holders, tombs, <<c, s>>)' => reserved'[c][s] = 0
      /\ c \in slots' <=> c \in slots /\ SlotHeld(holders, tombs, c)'
      /\ \A s \in Streams : file[c][s] # Absent => c \in slots' /\ file[c][s] <= reserved'[c][s]
  <2>1. \A s \in Streams : file[c][s] # Absent =>
          Named(c, s) \/ {"sink", "entry", "owner"} \cap (holders[c] \ {"sink"}) # {}
    BY <1>4
  <2> QED
    BY <1>1, <1>2, <2>1, LetsGo
<1>6. Others(c)
  BY <1>1, <1>5, <1>t, OthersFrame
<1>7. /\ op' \in [Op -> {"none", "register stdout", "register stderr", "register accounting",
                         "open", "store", "over", "queued", "serialize", "done"}]
      /\ spooled' \in [Op -> BOOLEAN] /\ seen' \in [Op -> [Streams -> 0 .. MaxOutput]]
      /\ chunk' \in [Op -> [stream : Streams, bytes : 0 .. MaxOutput, over : BOOLEAN]]
      /\ op'[c] = "done" /\ ~spooled'[c] /\ seen'[c] = Nothing
  BY <1>1, <1>t, OverTypes
<1>8. HoldersKnown(c)' /\ TombsLate(c)' /\ Previewed(c)'
  <2>1. op[c] \notin {"done"}
    BY <1>1
  <2> QED
    BY <1>1, <1>5, <1>7, <1>t, <2>1, OverInv
<1>9. Charged(c)'
  <2>1. \A s \in Streams : Named(c, s)' <=> Named(c, s)
    BY <1>5 DEF Named
  <2>2. \A s \in Streams : file[c][s] # Absent => Named(c, s) \/ "owner" \in holders'[c]
    BY <1>4, <1>5
  <2>3. \A s \in Streams : Named(c, s)' => Pinned(c)'
    BY DEF Named, Pinned
  <2>4. ASSUME holders'[c] = {}, ~Pinned(c)' PROVE file'[c] = NoFiles
    <3>1. \A s \in Streams : file[c][s] = Absent
      BY <2>1, <2>2, <2>3, <2>4
    <3> QED
      BY <1>1, <1>t, <3>1 DEF NoFiles, TypeOK
  <2>5. op'[c] \notin Writing /\ op'[c] # "serialize"
    BY <1>7 DEF Writing
  <2>6. c \in slots' => SlotHeld(holders, tombs, c)'
    BY <1>5
  <2> QED
    BY <1>1, <1>5, <1>7, <2>1, <2>2, <2>4, <2>5, <2>6 DEF Charged
<1>10. used' \in Nat => TypeOK'
  BY <1>1, <1>5, <1>7, <1>t DEF TypeOK, StoreTypes
<1> QED
  BY <1>5, <1>6, <1>8, <1>9, <1>10, StepKeeps DEF OpInv, StoreTypes

LEMMA ReadEndsKeeps ==
  ASSUME StoreInv, Orphans, NEW c \in Op, maxEntries' = maxEntries, ReadEnds(c)
  PROVE  StoreInv'
<1>1. /\ access[c] = "open" /\ access' = [access EXCEPT ![c] = "no"]
      /\ Drops([holders EXCEPT ![c] = @ \ {"lease"}], tombs, reserved, used, slots)
      /\ UNCHANGED <<kind, op, spooled, seen, chunk, file, entry, length, owner>>
  BY DEF ReadEnds
<1>t. TypeOK /\ HoldersKnown(c) /\ TombsLate(c) /\ Previewed(c) /\ Charged(c)
  BY DEF StoreInv, OpInv
<1>2. access'[c] = "no" /\ \A d \in Op \ {c} : access'[d] = access[d]
  BY <1>1, <1>t DEF TypeOK
<1>3. "lease" \in holders[c] /\ op[c] = "done" /\ kind[c] # "internal"
  BY <1>1, <1>t DEF HoldersKnown
<1>4. /\ used' = used - Owed(c) + Owed(c)' /\ used' <= Limit
      /\ StoreTypes' /\ OthersStored(c) /\ slots' \subseteq slots /\ tombs' = tombs
      /\ holders'[c] = holders[c] \ {"lease"}
      /\ \A s \in Streams : ~Held(holders, tombs, <<c, s>>)' => reserved'[c][s] = 0
      /\ c \in slots' <=> c \in slots /\ SlotHeld(holders, tombs, c)'
      /\ \A s \in Streams : file[c][s] # Absent => c \in slots' /\ file[c][s] <= reserved'[c][s]
  <2>1. \A s \in Streams : file[c][s] # Absent =>
          Named(c, s) \/ {"sink", "entry", "owner"} \cap holders[c] # {}
    BY <1>t DEF Charged
  <2>2. \A s \in Streams : file[c][s] # Absent =>
          Named(c, s) \/ {"sink", "entry", "owner"} \cap (holders[c] \ {"lease"}) # {}
    BY <2>1
  <2> QED
    BY <1>1, <1>3, <2>2, LetsGo
<1>5. /\ "sink" \in holders'[c] <=> "sink" \in holders[c]
      /\ "owner" \in holders'[c] <=> "owner" \in holders[c]
      /\ "entry" \in holders'[c] <=> "entry" \in holders[c]
      /\ "lease" \notin holders'[c]
  BY <1>4
<1>6. Others(c)
  BY <1>1, <1>2, <1>4 DEF Others, OthersStored
<1>7. HoldersKnown(c)' /\ TombsLate(c)'
  <2>1. Pinned(c)' <=> Pinned(c)
    BY <1>4 DEF Pinned
  <2> QED
    BY <1>1, <1>2, <1>3, <1>5, <1>t, <2>1
       DEF HoldersKnown, TombsLate, Capturing, Registering, Writing
<1>8. Previewed(c)'
  <2>1. Aggregate(c)' = Aggregate(c)
    BY <1>1 DEF Aggregate
  <2>2. op[c] \notin Capturing
    BY <1>3 DEF Capturing, Registering, Writing
  <2> QED
    BY <1>1, <1>3, <1>t, <2>1, <2>2 DEF Previewed
<1>9. Charged(c)'
  <2>1. \A s \in Streams : Named(c, s)' <=> Named(c, s)
    BY <1>4 DEF Named
  <2>2. \A s \in Streams : file[c][s] # Absent =>
          Named(c, s) \/ {"sink", "entry", "owner"} \cap holders'[c] # {}
    <3>1. \A s \in Streams : file[c][s] # Absent =>
            Named(c, s) \/ {"sink", "entry", "owner"} \cap holders[c] # {}
      BY <1>t DEF Charged
    <3> QED
      BY <1>4, <3>1
  <2>3. \A s \in Streams : Named(c, s)' => Pinned(c)'
    BY DEF Named, Pinned
  <2>4. ASSUME holders'[c] = {}, ~Pinned(c)' PROVE file'[c] = NoFiles
    <3>1. \A s \in Streams : file[c][s] = Absent
      BY <2>1, <2>2, <2>3, <2>4
    <3> QED
      BY <1>1, <1>t, <3>1 DEF NoFiles, TypeOK
  <2>5. op'[c] \notin Writing /\ op'[c] # "serialize" /\ ~spooled'[c]
    BY <1>1, <1>3, <1>t DEF Previewed, Capturing, Registering, Writing
  <2>6. c \in slots' => SlotHeld(holders, tombs, c)'
    BY <1>4
  <2> QED
    BY <1>1, <1>4, <2>1, <2>2, <2>4, <2>5, <2>6 DEF Charged
<1>10. used' \in Nat => TypeOK'
  <2>1. access' \in [Op -> {"no", "read", "open", "discard"}]
    BY <1>1, <1>t DEF TypeOK
  <2> QED
    BY <1>1, <1>4, <1>t, <2>1 DEF TypeOK, StoreTypes
<1> QED
  BY <1>4, <1>6, <1>7, <1>8, <1>9, <1>10, StepKeeps DEF OpInv, StoreTypes

-----------------------------------------------------------------------------
(* Tombstones without an accounting                                        *)

\* Holders come to an operation that no such tombstone names.
LEMMA OrphansSafe ==
  ASSUME StoreInv, Orphans, NEW c \in Op, tombs' = tombs,
         \A d \in Op \ {c} : holders'[d] = holders[d],
         ~Pinned(c) \/ holders[c] # {} \/ holders'[c] = holders[c]
  PROVE  Orphans'
<1>1. \A x \in tombs : x.op \in Op
  BY DEF StoreInv, TypeOK
<1>2. ASSUME NEW x \in tombs, ~x.own PROVE holders'[x.op] = {}
  <2>1. holders[x.op] = {}
    BY <1>2 DEF Orphans
  <2>2. x.op = c => Pinned(c)
    BY DEF Pinned
  <2> QED
    BY <1>1, <2>1, <2>2
<1> QED
  BY <1>2 DEF Orphans

LEMMA CleanUpOrphans ==
  ASSUME StoreInv, Orphans, NEW c \in Op, NEW who, NEW files, NEW r, NEW u, NEW sl,
         CleanUp(c, who, files, r, u, sl)
  PROVE  Orphans'
<1>t. /\ \A x \in tombs : x.op \in Op
      /\ holders \in [Op -> SUBSET {"sink", "owner", "entry", "lease"}]
  BY DEF StoreInv, TypeOK
<1>1. PICK left \in Survivors(files) :
        /\ holders' = [holders EXCEPT ![c] = @ \ {who}]
        /\ tombs' = tombs \cup {Target(c, s, TRUE) : s \in left}
  BY DEF CleanUp, Drops
<1>2. ASSUME NEW x \in tombs', ~x.own PROVE holders'[x.op] = {}
  <2>1. \A s : Target(c, s, TRUE).own
    BY DEF Target
  <2>2. x \in tombs
    BY <1>1, <1>2, <2>1
  <2>3. holders[x.op] = {} /\ x.op \in Op
    BY <1>2, <1>t, <2>2 DEF Orphans
  <2>4. holders'[x.op] \subseteq holders[x.op]
    BY <1>1, <1>t, <2>3
  <2> QED
    BY <2>3, <2>4
<1> QED
  BY <1>2 DEF Orphans

LEMMA SinkGoesOrphans ==
  ASSUME StoreInv, Orphans, NEW c \in Op, NEW files, NEW r, NEW u, NEW sl,
         SinkGoes(c, files, r, u, sl)
  PROVE  Orphans'
BY CleanUpOrphans DEF SinkGoes

LEMMA RetryOrphans ==
  ASSUME Orphans, RetryTombstones
  PROVE  Orphans'
<1>1. holders' = holders /\ tombs' \subseteq tombs
  BY DEF RetryTombstones, Drops
<1> QED
  BY <1>1 DEF Orphans

-----------------------------------------------------------------------------
(* The steps                                                               *)

StoreIInv == StoreInv /\ Orphans

LEMMA SinkFailsKept ==
  ASSUME StoreIInv, NEW c \in Op, maxEntries' = maxEntries, SinkFails(c), op[c] # "done"
  PROVE  StoreIInv'
<1>1. StoreInv /\ Orphans
  BY DEF StoreIInv
<1>2. StoreInv'
  BY <1>1, SinkFailsKeeps
<1>3. Orphans'
  BY <1>1, SinkGoesOrphans DEF SinkFails
<1> QED
  BY <1>2, <1>3 DEF StoreIInv

LEMMA CaptureKept ==
  ASSUME StoreIInv, NEW c \in Op, maxEntries' = maxEntries, CaptureStep(c)
  PROVE  StoreIInv'
<1>1. StoreInv /\ Orphans
  BY DEF StoreIInv
<1>t. TypeOK /\ HoldersKnown(c) /\ TombsLate(c)
  BY <1>1 DEF StoreInv, OpInv
<1>u. op[c] \in Capturing => holders[c] # {}
  BY <1>t DEF HoldersKnown
<1>2. ASSUME tombs' = tombs, \A d \in Op \ {c} : holders'[d] = holders[d], StoreInv',
             op[c] = "none" \/ op[c] \in Capturing \/ holders' = holders
      PROVE  StoreIInv'
  <2>1. op[c] = "none" => ~Pinned(c)
    BY <1>t DEF TombsLate, Capturing, Registering, Writing
  <2>2. Orphans'
    BY <1>1, <1>2, <1>u, <2>1, OrphansSafe
  <2> QED
    BY <1>2, <2>2 DEF StoreIInv
<1>3. CASE CaptureBegin(c)
  <2>1. StoreInv'
    BY <1>1, <1>3, CaptureBeginKeeps
  <2>2. /\ tombs' = tombs /\ op[c] = "none"
        /\ \A d \in Op \ {c} : holders'[d] = holders[d]
    BY <1>3, <1>t DEF CaptureBegin, TypeOK
  <2> QED
    BY <1>2, <2>1, <2>2
<1>4. CASE InternalBegin(c)
  <2>1. StoreInv'
    BY <1>1, <1>4, InternalBeginKeeps
  <2>2. /\ tombs' = tombs /\ op[c] = "none"
        /\ \A d \in Op \ {c} : holders'[d] = holders[d]
    BY <1>4, <1>t DEF InternalBegin, TypeOK
  <2> QED
    BY <1>2, <2>1, <2>2
<1>5. CASE Register(c)
  <2>1. StoreInv'
    BY <1>1, <1>5, RegisterKeeps
  <2>2. /\ tombs' = tombs /\ op[c] \in Capturing
        /\ holders' = holders \/ holders' = [holders EXCEPT ![c] = @ \cup {"owner"}]
    BY <1>5 DEF Register, Capturing, Registering
  <2>3. \A d \in Op \ {c} : holders'[d] = holders[d]
    BY <1>t, <2>2 DEF TypeOK
  <2> QED
    BY <1>2, <2>1, <2>2, <2>3
<1>6. CASE RegisterFails(c) \/ AppendRefused(c) \/ SpoolRefused(c) \/ CaptureCancel(c)
           \/ FinishInMemory(c)
  <2>1. SinkFails(c) /\ op[c] # "done"
    BY <1>6 DEF RegisterFails, AppendRefused, SpoolRefused, CaptureCancel, FinishInMemory
  <2> QED
    BY <2>1, SinkFailsKept
<1>7. CASE OwnerDrop(c)
  <2>1. StoreInv'
    BY <1>1, <1>7, OwnerDropKeeps
  <2>2. CASE CleanUp(c, "owner", file[c], reserved, used, slots)
    <3>1. Orphans'
      BY <1>1, <2>2, CleanUpOrphans
    <3> QED
      BY <2>1, <3>1 DEF StoreIInv
  <2>3. CASE tombs' = tombs /\ holders' = holders
    BY <1>2, <2>1, <2>3
  <2> QED
    BY <1>7, <2>2, <2>3 DEF OwnerDrop
<1>8. CASE AppendReserve(c)
  <2>1. StoreInv'
    BY <1>1, <1>8, AppendReserveKeeps
  <2>2. tombs' = tombs /\ holders' = holders
    BY <1>8 DEF AppendReserve
  <2> QED
    BY <1>2, <2>1, <2>2
<1>9. CASE StoreInMemory(c)
  <2>1. StoreInv'
    BY <1>1, <1>9, StoreInMemoryKeeps
  <2>2. tombs' = tombs /\ holders' = holders
    BY <1>9 DEF StoreInMemory, Stored
  <2> QED
    BY <1>2, <2>1, <2>2
<1>10. CASE StoreInFile(c)
  <2>1. StoreInv'
    BY <1>1, <1>10, StoreInFileKeeps
  <2>2. tombs' = tombs /\ holders' = holders
    BY <1>10 DEF StoreInFile, Stored
  <2> QED
    BY <1>2, <2>1, <2>2
<1>11. CASE PartialSpool(c)
  <2>1. StoreInv'
    BY <1>1, <1>11, PartialSpoolKeeps
  <2>2. /\ holders' = [holders EXCEPT ![c] = {}]
        /\ tombs' = tombs \cup {Target(c, "stdout", FALSE)}
    BY <1>11 DEF PartialSpool, Drops
  <2>3. ASSUME NEW x \in tombs', ~x.own PROVE holders'[x.op] = {}
    <3>1. CASE x \in tombs
      BY <1>1, <1>t, <2>2, <2>3, <3>1 DEF Orphans, TypeOK
    <3>2. CASE x = Target(c, "stdout", FALSE)
      BY <1>t, <2>2, <3>2 DEF Target, TypeOK
    <3> QED
      BY <2>2, <2>3, <3>1, <3>2
  <2> QED
    BY <2>1, <2>3 DEF StoreIInv, Orphans
<1>12. CASE StoreFails(c)
  <2>1. StoreInv'
    BY <1>1, <1>12, StoreFailsKeeps
  <2>2. Orphans'
    BY <1>1, <1>12, SinkGoesOrphans DEF StoreFails
  <2> QED
    BY <2>1, <2>2 DEF StoreIInv
<1>13. CASE FinishReference(c)
  <2>1. StoreInv'
    BY <1>1, <1>13, FinishReferenceKeeps
  <2>2. /\ tombs' = tombs /\ op[c] \in Capturing
        /\ \A d \in Op \ {c} : holders'[d] = holders[d]
    BY <1>13, <1>t DEF FinishReference, TypeOK, Capturing, Writing
  <2> QED
    BY <1>2, <2>1, <2>2
<1>14. CASE FinishInternal(c)
  <2>1. StoreInv'
    BY <1>1, <1>14, FinishInternalKeeps
  <2>2. /\ tombs' = tombs /\ op[c] \in Capturing
        /\ holders' = [holders EXCEPT ![c] = @ \ {"sink"}]
    BY <1>14 DEF FinishInternal, Drops, Capturing, Writing
  <2>3. \A d \in Op \ {c} : holders'[d] = holders[d]
    BY <1>t, <2>2 DEF TypeOK
  <2> QED
    BY <1>2, <2>1, <2>2, <2>3
<1> QED
  BY <1>3, <1>4, <1>5, <1>6, <1>7, <1>8, <1>9, <1>10, <1>11, <1>12, <1>13, <1>14 DEF CaptureStep

\* The steps that begin with retry_tombstones.
LEMMA RetryKept ==
  ASSUME StoreIInv, NEW c \in Op, maxEntries' = maxEntries, RetainBegin(c) \/ Read(c) \/ Discard(c)
  PROVE  StoreIInv'
<1>1. StoreInv /\ Orphans /\ TypeOK
  BY DEF StoreIInv, StoreInv
<1>2. RetryTombstones /\ UNCHANGED <<kind, spooled, seen, chunk, entry, length, owner>>
  BY DEF RetainBegin, Read, Discard, Access
<1>3. (\A d \in Op : Asks(d)) /\ AskTypes
  <2>1. CASE RetainBegin(c)
    <3>1. /\ op[c] = "none" /\ kind[c] = "retain" /\ access' = access
          /\ op' = [op EXCEPT ![c] = "queued"]
      BY <2>1 DEF RetainBegin
    <3>2. \A d \in Op : Asks(d)
      BY <1>1, <3>1 DEF Asks, TypeOK
    <3>3. AskTypes
      BY <1>1, <3>1 DEF AskTypes, TypeOK
    <3> QED
      BY <3>2, <3>3
  <2>2. ASSUME NEW what \in {"read", "discard"}, Access(c, what)
        PROVE  (\A d \in Op : Asks(d)) /\ AskTypes
    <3>1. /\ op[c] = "done" /\ kind[c] # "internal" /\ access[c] = "no" /\ op' = op
          /\ access' = [access EXCEPT ![c] = what]
      BY <2>2 DEF Access
    <3>2. \A d \in Op : Asks(d)
      BY <1>1, <3>1 DEF Asks, TypeOK
    <3>3. AskTypes
      BY <1>1, <3>1 DEF AskTypes, TypeOK
    <3> QED
      BY <3>2, <3>3
  <2> QED
    BY <2>1, <2>2 DEF Read, Discard
<1>4. StoreInv'
  BY <1>1, <1>2, <1>3, RetryKeeps
<1>5. Orphans'
  BY <1>1, <1>2, RetryOrphans
<1> QED
  BY <1>4, <1>5 DEF StoreIInv

LEMMA RetainKept ==
  ASSUME StoreIInv, NEW c \in Op, maxEntries' = maxEntries, RetainStep(c)
  PROVE  StoreIInv'
<1>1. StoreInv /\ Orphans
  BY DEF StoreIInv
<1>t. TypeOK /\ HoldersKnown(c) /\ TombsLate(c)
  BY <1>1 DEF StoreInv, OpInv
<1>2. ASSUME tombs' = tombs, \A d \in Op \ {c} : holders'[d] = holders[d], StoreInv',
             op[c] \in {"queued", "serialize"}
      PROVE  StoreIInv'
  <2>1. ~Pinned(c)
    <3>1. kind[c] = "retain" /\ op[c] # "done" /\ op[c] \notin Capturing
      BY <1>2, <1>t DEF HoldersKnown, Capturing, Registering, Writing
    <3> QED
      BY <1>t, <3>1 DEF TombsLate
  <2>2. Orphans'
    BY <1>1, <1>2, <2>1, OrphansSafe
  <2> QED
    BY <1>2, <2>2 DEF StoreIInv
<1>3. CASE RetainBegin(c)
  BY <1>3, RetryKept
<1>4. CASE RetainCancel(c) \/ RetainRefused(c)
  <2>1. op[c] = "queued" /\ Refusal(c)
    BY <1>4 DEF RetainCancel, RetainRefused
  <2>2. StoreInv'
    BY <1>1, <2>1, RefusalKeeps
  <2>3. tombs' = tombs /\ holders' = holders
    BY <2>1 DEF Refusal
  <2> QED
    BY <1>2, <2>1, <2>2, <2>3
<1>5. CASE RetainStart(c)
  <2>1. StoreInv'
    BY <1>1, <1>5, RetainStartKeeps
  <2>2. /\ tombs' = tombs /\ op[c] = "queued"
        /\ \A d \in Op \ {c} : holders'[d] = holders[d]
    BY <1>5, <1>t DEF RetainStart, TypeOK
  <2> QED
    BY <1>2, <2>1, <2>2
<1>6. CASE Serialize(c)
  <2>1. StoreInv'
    BY <1>1, <1>6, SerializeKeeps
  <2>2. tombs' = tombs /\ holders' = holders /\ op[c] = "serialize"
    BY <1>6 DEF Serialize
  <2> QED
    BY <1>2, <2>1, <2>2
<1>7. CASE RetainDone(c)
  <2>1. StoreInv'
    BY <1>1, <1>7, RetainDoneKeeps
  <2>2. /\ tombs' = tombs /\ op[c] = "serialize"
        /\ \A d \in Op \ {c} : holders'[d] = holders[d]
    BY <1>7, <1>t DEF RetainDone, TypeOK
  <2> QED
    BY <1>2, <2>1, <2>2
<1>8. CASE RetainFails(c)
  <2>1. StoreInv'
    BY <1>1, <1>8, RetainFailsKeeps
  <2>2. Orphans'
    BY <1>1, <1>8, SinkGoesOrphans DEF RetainFails
  <2> QED
    BY <2>1, <2>2 DEF StoreIInv
<1> QED
  BY <1>3, <1>4, <1>5, <1>6, <1>7, <1>8 DEF RetainStep

LEMMA ReferenceKept ==
  ASSUME StoreIInv, NEW c \in Op, maxEntries' = maxEntries, ReferenceStep(c)
  PROVE  StoreIInv'
<1>1. StoreInv /\ Orphans
  BY DEF StoreIInv
<1>t. TypeOK /\ HoldersKnown(c)
  BY <1>1 DEF StoreInv, OpInv
<1>2. ASSUME tombs' = tombs, \A d \in Op \ {c} : holders'[d] = holders[d], StoreInv',
             holders[c] # {} \/ holders' = holders
      PROVE  StoreIInv'
  <2>1. Orphans'
    BY <1>1, <1>2, OrphansSafe
  <2> QED
    BY <1>2, <2>1 DEF StoreIInv
<1>3. ASSUME EntryGoes(c), entry[c] # "absent", access[c] = "open" => access' = access,
             access' \in {access, [access EXCEPT ![c] = "no"]}
      PROVE  StoreIInv'
  <2>1. StoreInv'
    BY <1>1, <1>3, EntryGoesKeeps
  <2>2. Orphans'
    BY <1>1, <1>3, CleanUpOrphans DEF EntryGoes
  <2> QED
    BY <2>1, <2>2 DEF StoreIInv
<1>4. ASSUME access[c] \in {"read", "discard"}, access' = [access EXCEPT ![c] = "no"],
             UNCHANGED <<kind, op, spooled, seen, chunk, reserved, file, slots, holders, tombs,
                         used, entry, length, owner>>
      PROVE  StoreIInv'
  <2>1. StoreInv'
    BY <1>1, <1>4, ReferenceKeeps
  <2> QED
    BY <1>2, <1>4, <2>1
<1>5. CASE Read(c) \/ Discard(c)
  BY <1>5, RetryKept
<1>6. CASE ReadOpens(c)
  <2>1. StoreInv'
    BY <1>1, <1>6, ReferenceKeeps
  <2>2. /\ tombs' = tombs /\ entry[c] = "live"
        /\ holders' = [holders EXCEPT ![c] = @ \cup {"lease"}]
    BY <1>6 DEF ReadOpens
  <2>3. holders[c] # {} /\ \A d \in Op \ {c} : holders'[d] = holders[d]
    BY <1>t, <2>2 DEF HoldersKnown, TypeOK
  <2> QED
    BY <1>2, <2>1, <2>2, <2>3
<1>7. CASE ReadUnknown(c)
  <2>1. access[c] = "read" /\ access' = [access EXCEPT ![c] = "no"]
    BY <1>7 DEF ReadUnknown
  <2>2. CASE entry[c] = "expired" /\ EntryGoes(c)
    BY <1>3, <2>1, <2>2
  <2>3. CASE UNCHANGED <<kind, op, spooled, seen, chunk, reserved, file, slots, holders, tombs,
                         used, entry, length, owner>>
    BY <1>4, <2>1, <2>3
  <2> QED
    BY <1>7, <2>2, <2>3 DEF ReadUnknown
<1>8. CASE ReadEnds(c)
  <2>1. StoreInv'
    BY <1>1, <1>8, ReadEndsKeeps
  <2>2. /\ tombs' = tombs /\ access[c] = "open"
        /\ holders' = [holders EXCEPT ![c] = @ \ {"lease"}]
    BY <1>8 DEF ReadEnds, Drops
  <2>3. holders[c] # {} /\ \A d \in Op \ {c} : holders'[d] = holders[d]
    BY <1>t, <2>2 DEF HoldersKnown, TypeOK
  <2> QED
    BY <1>2, <2>1, <2>2, <2>3
<1>9. CASE DiscardEntry(c)
  <2>1. access[c] = "discard" /\ access' = [access EXCEPT ![c] = "no"]
    BY <1>9 DEF DiscardEntry
  <2>2. CASE entry[c] # "absent" /\ EntryGoes(c)
    BY <1>3, <2>1, <2>2
  <2>3. CASE UNCHANGED <<kind, op, spooled, seen, chunk, reserved, file, slots, holders, tombs,
                         used, entry, length, owner>>
    BY <1>4, <2>1, <2>3
  <2> QED
    BY <1>9, <2>2, <2>3 DEF DiscardEntry
<1>10. CASE Expires(c)
  <2>1. StoreInv'
    BY <1>1, <1>10, ReferenceKeeps
  <2>2. tombs' = tombs /\ holders' = holders
    BY <1>10 DEF Expires
  <2> QED
    BY <1>2, <2>1, <2>2
<1>11. CASE ExpiryTask(c)
  <2>1. EntryGoes(c) /\ entry[c] # "absent" /\ access' = access
    BY <1>11 DEF ExpiryTask
  <2> QED
    BY <1>3, <2>1
<1> QED
  BY <1>5, <1>6, <1>7, <1>8, <1>9, <1>10, <1>11 DEF ReferenceStep

\* Before the first call there is nothing to hold, to pay or to name.
LEMMA StoreInit ==
  ASSUME Init
  PROVE  StoreIInv
<1>1. /\ op = [c \in Op |-> "none"] /\ spooled = [c \in Op |-> FALSE] /\ slots = {}
      /\ seen = [c \in Op |-> Nothing] /\ length = [c \in Op |-> Nothing]
      /\ reserved = [c \in Op |-> Nothing] /\ file = [c \in Op |-> NoFiles]
      /\ holders = [c \in Op |-> {}] /\ tombs = {} /\ used = 0
      /\ entry = [c \in Op |-> "absent"] /\ owner = [c \in Op |-> TRUE]
      /\ access = [c \in Op |-> "no"] /\ chunk = [c \in Op |-> NoChunk]
      /\ maxEntries \in EntryLimits /\ kind \in [Op -> Kinds]
  BY DEF Init
<1>u. MaxOutput \in Nat /\ Limit \in Nat /\ EntryLimits \subseteq Nat
  BY OutputStoreAssumption DEF OutputStoreAssumption
<1>2. TypeOK
  <2>1. /\ Nothing \in [Streams -> 0 .. MaxOutput] /\ NoFiles \in [Streams -> Absent .. MaxOutput]
        /\ NoChunk \in [stream : Streams, bytes : 0 .. MaxOutput, over : BOOLEAN]
    BY <1>u DEF Nothing, NoFiles, NoChunk, Absent, Streams
  <2> QED
    BY <1>1, <2>1 DEF TypeOK
<1>3. HeldFiles = {}
  BY <1>1 DEF HeldFiles, Held, Files
<1>4. Finite /\ Exact
  <2>1. IsFiniteSet({}) /\ Cardinality({}) = 0
    BY FS_EmptySet
  <2>2. Sum(reserved, {}) = 0
    BY SumEmpty DEF Sum
  <2>3. Cardinality(slots) <= maxEntries /\ used <= Limit
    BY <1>1, <1>u, <2>1
  <2> QED
    BY <1>1, <1>3, <2>1, <2>2, <2>3 DEF Finite, Exact
<1>5. ASSUME NEW c \in Op PROVE OpInv(c)
  <2>1. /\ op[c] = "none" /\ ~spooled[c] /\ seen[c] = Nothing /\ file[c] = NoFiles
        /\ reserved[c] = Nothing /\ holders[c] = {} /\ entry[c] = "absent" /\ access[c] = "no"
        /\ c \notin slots
    BY <1>1
  <2>2. ~Pinned(c)
    BY <1>1 DEF Pinned
  <2>3. HoldersKnown(c) /\ TombsLate(c)
    BY <2>1, <2>2 DEF HoldersKnown, TombsLate, Capturing, Registering, Writing
  <2>4. Previewed(c)
    <3>1. seen[c]["stdout"] = 0 /\ seen[c]["stderr"] = 0
      BY <2>1 DEF Nothing, Streams
    <3>2. Aggregate(c) <= MaxOutput
      BY <1>u, <3>1 DEF Aggregate
    <3> QED
      BY <2>1, <3>2 DEF Previewed, Capturing, Registering, Writing
  <2>5. Charged(c)
    <3>1. \A s \in Streams : file[c][s] = Absent /\ reserved[c][s] = 0
      BY <2>1 DEF NoFiles, Nothing
    <3> QED
      BY <2>1, <3>1 DEF Charged
  <2> QED
    BY <2>3, <2>4, <2>5 DEF OpInv
<1>6. Orphans
  BY <1>1 DEF Orphans
<1> QED
  BY <1>2, <1>4, <1>5, <1>6 DEF StoreIInv, StoreInv

LEMMA StoreStutter ==
  ASSUME StoreIInv, UNCHANGED vars
  PROVE  StoreIInv'
<1>1. StoreInv /\ Orphans /\ TypeOK /\ Finite /\ Exact /\ \A c \in Op : OpInv(c)
  BY DEF StoreIInv, StoreInv
<1>2. TypeOK'
  BY <1>1 DEF TypeOK, vars
<1>3. HeldFiles' = HeldFiles
  BY DEF HeldFiles, vars
<1>4. Finite' /\ Exact' /\ Orphans'
  BY <1>1, <1>3 DEF Finite, Exact, Orphans, vars
<1>5. ASSUME NEW c \in Op PROVE OpInv(c)'
  <2>1. HoldersKnown(c)' /\ TombsLate(c)'
    BY <1>1 DEF OpInv, HoldersKnown, TombsLate, Pinned, vars
  <2>2. Previewed(c)'
    BY <1>1 DEF OpInv, Previewed, Aggregate, vars
  <2>3. Charged(c)'
    <3>1. Charged(c) /\ UNCHANGED <<op, kind, owner, spooled, slots, file, reserved, holders, tombs>>
      BY <1>1 DEF OpInv, vars
    <3>2. /\ \A s \in Streams : /\ Held(holders, tombs, <<c, s>>)' <=> Held(holders, tombs, <<c, s>>)
                                /\ Named(c, s)' <=> Named(c, s)
          /\ SlotHeld(holders, tombs, c)' <=> SlotHeld(holders, tombs, c)
          /\ Pinned(c)' <=> Pinned(c)
      BY <3>1 DEF Held, Named, SlotHeld, Pinned
    <3> QED
      BY <3>1, <3>2 DEF Charged
  <2> QED
    BY <2>1, <2>2, <2>3 DEF OpInv
<1> QED
  BY <1>2, <1>4, <1>5 DEF StoreIInv, StoreInv

-----------------------------------------------------------------------------
(* The theorems                                                            *)

\* The inductive invariant: what is charged is what is held, a file is paid for
\* and has somebody who will unlink it, at every place an operation can be.
\* (EntryAccounting, FileAccounting and EntrySlot, and every path that drops them)
THEOREM StoreInvariant == Spec => []StoreIInv
<1>1. Init => StoreIInv
  BY StoreInit
<1>2. StoreIInv /\ [Next]_vars => StoreIInv'
  <2>1. ASSUME StoreIInv, Next PROVE StoreIInv'
    <3>1. PICK c \in Op : CaptureStep(c) \/ RetainStep(c) \/ ReferenceStep(c)
      BY <2>1 DEF Next
    <3>2. maxEntries' = maxEntries
      BY <2>1 DEF Next
    <3> QED
      BY <2>1, <3>1, <3>2, CaptureKept, RetainKept, ReferenceKept
  <2> QED
    BY <2>1, StoreStutter
<1> QED
  BY <1>1, <1>2, PTL DEF Spec

\* The state of the store has its type: no counter leaves its range.
\* (ByteQuota.used, the lengths and sizes of OutputSink and StoredOutput)
THEOREM StoreTypesHold == Spec => []TypeOK
<1>1. StoreIInv => TypeOK
  BY DEF StoreIInv, StoreInv
<1> QED
  BY <1>1, StoreInvariant, PTL

\* The quota counts exactly what is held and never exceeds its limit, every file
\* is paid for, and a known reference can be read in full.
\* (ByteQuota, FileAccounting::release, shrink_to and drop)
THEOREM QuotaAgrees == Spec => []AccountsAgree
<1>1. ASSUME StoreIInv PROVE AccountsAgree
  <2>1. TypeOK /\ Finite /\ Exact /\ \A c \in Op : Previewed(c) /\ Charged(c)
    BY <1>1 DEF StoreIInv, StoreInv, OpInv
  <2>2. used = Sum(reserved, {f \in Files : Held(holders, tombs, f)}) /\ used <= Limit
    BY <2>1 DEF Exact, HeldFiles
  <2>3. ASSUME NEW f \in Files, file[f[1]][f[2]] # Absent
        PROVE  /\ f[1] \in slots
               /\ file[f[1]][f[2]] <= IF Held(holders, tombs, f) THEN reserved[f[1]][f[2]] ELSE 0
    <3>1. PICK c \in Op, s \in Streams : f = <<c, s>>
      BY DEF Files
    <3>2. c \in slots /\ file[c][s] <= reserved[c][s]
      BY <2>1, <2>3, <3>1 DEF Charged
    <3>3. ~Held(holders, tombs, <<c, s>>) => reserved[c][s] = 0
      BY <2>1 DEF Charged
    <3> QED
      BY <3>1, <3>2, <3>3
  <2>4. \A c \in Op : entry[c] # "absent" =>
          \A s \in Streams : file[c][s] = length[c][s] \/ (kind[c] = "retain" /\ s = "stderr")
    BY <2>1 DEF Previewed
  <2>5. Cardinality(slots) <= maxEntries
    BY <2>1 DEF Finite
  <2> QED
    BY <2>2, <2>3, <2>4, <2>5 DEF AccountsAgree
<1>2. StoreIInv => AccountsAgree
  BY <1>1
<1> QED
  BY <1>2, StoreInvariant, PTL

\* Nothing is left of an operation that is over, with its reference, its owner
\* and its reader, but what a tombstone names.
\* (the Drop of EntrySlot, PendingSpool, InternalSpoolOwner and ReadLease)
THEOREM StoreLeaksNothing == Spec => []NothingLeaks
<1>1. ASSUME StoreIInv, NEW c \in Op, op[c] \in {"none", "done"}, entry[c] = "absent",
             access[c] # "open", kind[c] = "internal" /\ op[c] = "done" => ~owner[c]
      PROVE  /\ holders[c] = {}
             /\ \A s \in Streams : file[c][s] # Absent => \E x \in tombs : x.op = c /\ x.stream = s
             /\ c \in slots => \E x \in tombs : x.op = c
  <2>1. TypeOK /\ HoldersKnown(c) /\ Charged(c)
    BY <1>1 DEF StoreIInv, StoreInv, OpInv
  <2>2. holders[c] = {}
    <3>1. "sink" \notin holders[c] /\ "entry" \notin holders[c] /\ "lease" \notin holders[c]
      BY <1>1, <2>1 DEF HoldersKnown, Capturing, Registering, Writing
    <3>2. "owner" \notin holders[c]
      BY <1>1, <2>1 DEF HoldersKnown, Capturing, Registering, Writing
    <3>3. holders[c] \subseteq {"sink", "owner", "entry", "lease"}
      BY <2>1 DEF TypeOK
    <3> QED
      BY <3>1, <3>2, <3>3
  <2>3. \A s \in Streams : file[c][s] # Absent => \E x \in tombs : x.op = c /\ x.stream = s
    BY <2>1, <2>2 DEF Charged, Named
  <2>4. c \in slots => \E x \in tombs : x.op = c
    BY <2>1, <2>2 DEF Charged, SlotHeld
  <2> QED
    BY <2>2, <2>3, <2>4
<1>2. StoreIInv => NothingLeaks
  BY <1>1 DEF NothingLeaks
<1> QED
  BY <1>2, StoreInvariant, PTL

-----------------------------------------------------------------------------
(*                             THE INSTALLER                               *)

(* Where a process publishes its release, without the lock; and where it   *)
(* holds the lock: before it has looked around; in the steps of an         *)
(* installation and of its rollback; in those of an uninstallation and of  *)
(* its.                                                                    *)
Publishing == {"stage", "copying", "verify", "withdraw"}
Installing == {"config", "stable", "replace", "register", "skill", "marker", "clean up", "prune"}
Undoing == {"undo files", "undo register", "undo replace", "undo stable", "undo config"}
Uninstalling == {"unregister", "take skill", "take marker", "delete marker", "delete skill"}
Restoring == {"restore", "register again"}
Committed == Installing \cup Undoing \cup Uninstalling \cup Restoring
Inside == {"preflight"} \cup Committed

Findings == {"Absent", "Matching", "NeedsUpdate", "Refused"}
Preflights == [mcp : Findings, skill : Findings, marker : Findings, migrate : BOOLEAN]
Journals == [done : SUBSET (Artefacts \cup {"added", "removed", "deleted"}),
             aside : [Artefacts -> Values],
             failed : BOOLEAN, unknown : BOOLEAN, unseen : SUBSET Artefacts]

InstallTypes ==
  /\ user \in [Artefacts -> Values] /\ before \in [Procs -> [Artefacts -> Values]]
  /\ bundles \in [Versions -> {"absent", "same", "different"}]
  /\ job \in [Procs -> [op : {"install", "uninstall"}, release : Versions]]
  /\ pc \in [Procs -> Publishing \cup {"lock", "waiting"} \cup Inside \cup Ended]
  /\ pre \in [Procs -> Preflights] /\ journal \in [Procs -> Journals]
  /\ touched \subseteq Artefacts /\ pulled \subseteq Versions
  /\ lock \in Procs \cup {None}

(* The lock is held by the process that is inside, whose release stays     *)
(* there, unless the one that published it withdraws it; each is on its    *)
(* own command's way, with an empty journal until it begins.               *)
Withdrawn(p) == Release(p) \in pulled

InOrder ==
  \A p \in Procs :
    /\ lock = p <=> pc[p] \in Inside
    /\ pc[p] \in Committed => Resolves(Release(p)) \/ Withdrawn(p)
    /\ pc[p] \in Publishing \cup Installing \cup Undoing => job[p].op = "install"
    /\ pc[p] \in Uninstalling \cup Restoring => job[p].op = "uninstall"
    /\ pc[p] \in Publishing \cup {"lock", "waiting", "preflight", "config", "unregister"} =>
         journal[p] = NoJournal

Kept(p, a) == user[a] = before[p][a]

Entered(p) == pc[p] = "preflight" => \A a \in Artefacts \ touched : Kept(p, a)

(* What the preflight found is what the artefacts were.                    *)
Found(p) ==
  LET v == Release(p)
      saw == pre[p]
      was == before[p]
  IN  /\ "Refused" \notin {saw.mcp, saw.skill, saw.marker}
      /\ "mcp" \notin touched =>
           /\ saw.mcp = "Absent" => was["mcp"] = None
           /\ saw.mcp = "Matching" => was["mcp"] \in {Stable, v}
           /\ saw.mcp = "NeedsUpdate" => was["mcp"] \in Versions \ {v}
      /\ "skill" \notin touched => (saw.skill = "Matching" <=> was["skill"] = v)
      /\ "marker" \notin touched =>
           /\ saw.marker = "Matching" <=> was["marker"] = v
           /\ job[p].op = "uninstall" => saw.marker = "Matching"
      /\ "config" \notin touched => (saw.migrate <=> was["config"] = "v1")

(* A step that is still ahead finds its artefact as it was.                *)
Waiting(a) ==
  CASE a = "config" -> {"config"}
    [] a = "stable" -> {"config", "stable"}
    [] a = "mcp"    -> {"config", "stable", "replace", "unregister"}
    [] a = "skill"  -> {"config", "stable", "replace", "register", "skill",
                        "unregister", "take skill"}
    [] a = "marker" -> {"config", "stable", "replace", "register", "skill", "marker",
                        "unregister", "take skill", "take marker"}

Ahead(p, a) == pc[p] \in Waiting(a) => a \notin journal[p].done /\ (a \in touched \/ Kept(p, a))

(* One that is done has done what the command promises.                    *)
Reached(p) ==
  LET v == Release(p)
      past == Installing \cup Uninstalling
  IN  /\ "config" \notin touched /\ pc[p] \in Installing \ Waiting("config") => user["config"] # "v1"
      /\ "stable" \notin touched /\ pc[p] \in Installing \ Waiting("stable") => user["stable"] = v
      /\ "mcp" \notin touched =>
           /\ pc[p] = "register" =>
                IF pre[p].mcp = "NeedsUpdate" THEN user["mcp"] = None ELSE Kept(p, "mcp")
           /\ pc[p] \in {"skill", "marker", "clean up", "prune"} => user["mcp"] \in {Stable, v}
           /\ pc[p] \in Uninstalling \ Waiting("mcp") => user["mcp"] \notin {Stable, v}
      /\ "skill" \notin touched =>
           /\ pc[p] \in Installing \ Waiting("skill") => user["skill"] = v
           /\ pc[p] \in Uninstalling \ Waiting("skill") => user["skill"] # v
      /\ "marker" \notin touched =>
           /\ pc[p] \in Installing \ Waiting("marker") => user["marker"] = v
           /\ pc[p] \in Uninstalling \ Waiting("marker") => user["marker"] = None

(* A file is as it was, or set aside with nothing in its place, or         *)
(* replaced; the marker of an uninstallation may have been deleted, and a  *)
(* Skill link to a release that was withdrawn stays behind.                *)
OnDisk == Artefacts \ {"mcp"}
New(p, a) == IF a = "config" THEN "v2" ELSE Release(p)

Still(p, a) == Kept(p, a) /\ journal[p].aside[a] = None
Away(p, a) == user[a] = None /\ journal[p].aside[a] = before[p][a]
Changed(p, a) == user[a] = New(p, a) /\ journal[p].aside[a] = before[p][a]
Dangles(p, a) == /\ a = "skill" /\ job[p].op = "install"
                 /\ user["skill"] = Release(p) /\ Withdrawn(p)
Deleted(p, a) == user[a] = None /\ journal[p].aside[a] = None /\ before[p][a] = Release(p)

Made(p, a) == IF a \in journal[p].done THEN Changed(p, a) ELSE Still(p, a) \/ Away(p, a)
Cleared(p, a) == journal[p].failed \/ Still(p, a) \/ Away(p, a) \/ Dangles(p, a)
Back(p, a) == journal[p].failed \/ Kept(p, a) \/ Dangles(p, a)
TakenAway(p, a) ==
  IF a = "marker" /\ "deleted" \in journal[p].done THEN Deleted(p, a)
  ELSE Still(p, a) \/ (a \in {"skill", "marker"} /\ Away(p, a))

(* Where each of these is known.                                           *)
Making(a) == (Installing \ {"prune"}) \cup {"undo files"}
               \cup CASE a = "config" -> Undoing
                      [] a = "stable" -> {"undo register", "undo replace", "undo stable"}
                      [] OTHER -> {}
Clearing(a) == IF a \in {"skill", "marker"}
               THEN {"undo register", "undo replace", "undo stable"} ELSE {}
BackAt(a) == {"register again"} \cup IF a = "config" THEN {} ELSE {"undo config"}
Taking == Uninstalling \cup {"restore"}

FileKnown(p, a) ==
  /\ pc[p] \in Making(a) => Made(p, a)
  /\ pc[p] \in Clearing(a) => Cleared(p, a)
  /\ pc[p] \in BackAt(a) => Back(p, a)
  /\ pc[p] \in Taking => TakenAway(p, a)

(* The MCP entry.                                                          *)
Removed(p) == "removed" \in journal[p].done
Added(p) == "added" \in journal[p].done
Replaceable(p) == before[p]["mcp"] \in Versions
Taken(p) == IF Removed(p) THEN user["mcp"] = None /\ Replaceable(p) ELSE Kept(p, "mcp")

EntryKnown(p) ==
  /\ pc[p] \in (Installing \ {"prune"}) \cup {"undo files", "undo register"} =>
       IF Added(p) THEN /\ user["mcp"] = Stable
                        /\ IF Removed(p) THEN Replaceable(p) ELSE before[p]["mcp"] = None
       ELSE Taken(p)
  /\ pc[p] = "undo replace" => journal[p].failed \/ Taken(p)
  /\ pc[p] \in {"undo stable", "undo config"} =>
       journal[p].failed \/ Kept(p, "mcp") \/ (Replaceable(p) /\ user["mcp"] = Stable)
  /\ pc[p] \in Uninstalling \cup Restoring =>
       IF Removed(p) THEN user["mcp"] = None /\ before[p]["mcp"] \in Versions \cup {Stable}
       ELSE Kept(p, "mcp")

Known(p) ==
  /\ Found(p) /\ Reached(p)
  /\ \A a \in Artefacts : Ahead(p, a)
  /\ \A a \in OnDisk : a \in touched \cup journal[p].unseen \/ FileKnown(p, a)
  /\ "mcp" \in touched \cup journal[p].unseen \/ EntryKnown(p)

InstallInv == /\ InstallTypes /\ InOrder
              /\ \A p \in Procs : Entered(p) /\ (pc[p] \in Committed => Known(p))

-----------------------------------------------------------------------------
(* What the queries see, and what `codex mcp add' and `remove' leave.      *)
LEMMA McpSeen ==
  ASSUME InstallAssumption, NEW v \in Versions, NEW m \in Values
  PROVE  /\ McpOf(v, m) \in Findings
         /\ McpOf(v, m) = "Absent" <=> m = None
         /\ McpOf(v, m) = "Matching" => m \in {Stable, v}
         /\ m = Stable => McpOf(v, m) = "Matching"
         /\ McpOf(v, m) = "NeedsUpdate" => m \in Versions \ {v}
  <1>1. m \notin Versions => m # v
    OBVIOUS
  <1>2. None \notin Versions /\ Stable \notin Versions
    BY InstallAssumption DEF InstallAssumption
  <1>3. CASE m = None
    BY <1>2, <1>3 DEF McpOf, Findings, None, Stable
  <1>4. CASE m = Stable
    BY <1>2, <1>4 DEF McpOf, Findings, None, Stable
  <1>5. CASE m # None /\ m # Stable /\ m = v
    BY <1>2, <1>5 DEF McpOf, Findings
  <1>6. CASE m # None /\ m # Stable /\ m # v
    BY <1>2, <1>6 DEF McpOf, Findings
  <1> QED BY <1>3, <1>4, <1>5, <1>6

LEMMA SkillSeen ==
  ASSUME InstallAssumption, NEW v \in Versions
  PROVE  /\ SkillOf(v) \in Findings
         /\ SkillOf(v) = "Matching" <=> user.skill = v /\ Resolves(v)
  BY InstallAssumption DEF InstallAssumption, SkillOf, Findings, None, Copy

LEMMA MarkerSeen ==
  ASSUME InstallAssumption, NEW v \in Versions
  PROVE  /\ MarkerOf(v) \in Findings
         /\ MarkerOf(v) = "Matching" <=> user.marker = v
  BY InstallAssumption DEF InstallAssumption, MarkerOf, Findings, None

LEMMA AddLeaves ==
  ASSUME InstallAssumption, NEW v \in Versions, user.mcp \in Values, NEW o \in Add(v)
  PROVE  /\ o[1] \in {Stable, user.mcp}
         /\ o[2] \in {"Ok", "Applied"} /\ user.mcp = None => o[1] = Stable
         /\ o[2] = "NotApplied" => o[1] = user.mcp
         /\ o[2] \in {"Ok", "Applied", "NotApplied", "Unknown"}
  <1>1. Stable \in Values /\ Stable # None
    BY DEF Values, Stable, None
  <1>2. McpOf(v, Stable) = "Matching" /\ (McpOf(v, user.mcp) = "Absent" <=> user.mcp = None)
    BY <1>1, McpSeen
  <1>3. PICK now \in {Stable, user.mcp} :
          /\ o[1] = now
          /\ \E s, q \in BOOLEAN :
               o[2] = CASE ~q -> "Unknown"
                        [] q /\ McpOf(v, now) = "Matching" /\ s -> "Ok"
                        [] q /\ McpOf(v, now) = "Matching" /\ ~s -> "Applied"
                        [] q /\ McpOf(v, now) \in {"Absent", "Matching"} \ {"Matching"} -> "NotApplied"
                        [] OTHER -> "Unknown"
    BY DEF Add, Outcomes
  <1>4. /\ o[2] \in {"Ok", "Applied"} => McpOf(v, now) = "Matching"
        /\ o[2] = "NotApplied" => McpOf(v, now) = "Absent"
        /\ o[2] \in {"Ok", "Applied", "NotApplied", "Unknown"}
    <2>1. PICK s \in BOOLEAN, q \in BOOLEAN :
            o[2] = CASE ~q -> "Unknown"
                     [] q /\ McpOf(v, now) = "Matching" /\ s -> "Ok"
                     [] q /\ McpOf(v, now) = "Matching" /\ ~s -> "Applied"
                     [] q /\ McpOf(v, now) \in {"Absent", "Matching"} \ {"Matching"} -> "NotApplied"
                     [] OTHER -> "Unknown"
      BY <1>3
    <2>2. CASE ~q
      BY <2>1, <2>2
    <2>3. CASE q /\ McpOf(v, now) = "Matching"
      BY <2>1, <2>3
    <2>4. CASE q /\ McpOf(v, now) = "Absent"
      BY <2>1, <2>4
    <2>5. CASE q /\ McpOf(v, now) \notin {"Absent", "Matching"}
      BY <2>1, <2>5
    <2> QED BY <2>2, <2>3, <2>4, <2>5
  <1>5. o[1] \in {Stable, user.mcp}
    BY <1>3
  <1>6. ASSUME o[2] \in {"Ok", "Applied"}, user.mcp = None PROVE o[1] = Stable
    <2>1. now # None
      BY <1>2, <1>4, <1>6
    <2> QED BY <1>3, <1>6, <2>1
  <1>7. ASSUME o[2] = "NotApplied" PROVE o[1] = user.mcp
    <2>1. now # Stable
      BY <1>2, <1>4, <1>7
    <2> QED BY <1>3, <2>1
  <1> QED BY <1>4, <1>5, <1>6, <1>7

LEMMA RemoveLeaves ==
  ASSUME InstallAssumption, NEW v \in Versions, user.mcp \in Values, NEW o \in Remove(v)
  PROVE  /\ o[1] \in {None, user.mcp}
         /\ o[2] \in {"Ok", "Applied"} => o[1] = None
         /\ o[2] = "NotApplied" => o[1] = user.mcp
         /\ o[2] \in {"Ok", "Applied", "NotApplied", "Unknown"}
  <1>1. None \in Values
    BY DEF Values
  <1>2. McpOf(v, None) = "Absent" /\ (McpOf(v, user.mcp) = "Absent" <=> user.mcp = None)
    BY <1>1, McpSeen
  <1>3. PICK now \in {None, user.mcp} :
          /\ o[1] = now
          /\ \E s, q \in BOOLEAN :
               o[2] = CASE ~q -> "Unknown"
                        [] q /\ McpOf(v, now) = "Absent" /\ s -> "Ok"
                        [] q /\ McpOf(v, now) = "Absent" /\ ~s -> "Applied"
                        [] q /\ McpOf(v, now) \in {"Absent", "Matching"} \ {"Absent"} -> "NotApplied"
                        [] OTHER -> "Unknown"
    BY DEF Remove, Outcomes
  <1>4. /\ o[2] \in {"Ok", "Applied"} => McpOf(v, now) = "Absent"
        /\ o[2] = "NotApplied" => McpOf(v, now) = "Matching"
        /\ o[2] \in {"Ok", "Applied", "NotApplied", "Unknown"}
    <2>1. PICK s \in BOOLEAN, q \in BOOLEAN :
            o[2] = CASE ~q -> "Unknown"
                     [] q /\ McpOf(v, now) = "Absent" /\ s -> "Ok"
                     [] q /\ McpOf(v, now) = "Absent" /\ ~s -> "Applied"
                     [] q /\ McpOf(v, now) \in {"Absent", "Matching"} \ {"Absent"} -> "NotApplied"
                     [] OTHER -> "Unknown"
      BY <1>3
    <2>2. CASE ~q
      BY <2>1, <2>2
    <2>3. CASE q /\ McpOf(v, now) = "Absent"
      BY <2>1, <2>3
    <2>4. CASE q /\ McpOf(v, now) = "Matching"
      BY <2>1, <2>4
    <2>5. CASE q /\ McpOf(v, now) \notin {"Absent", "Matching"}
      BY <2>1, <2>5
    <2> QED BY <2>2, <2>3, <2>4, <2>5
  <1>5. o[1] \in {None, user.mcp}
    BY <1>3
  <1>6. ASSUME o[2] \in {"Ok", "Applied"} PROVE o[1] = None
    <2>1. now = user.mcp => user.mcp = None
      BY <1>2, <1>4, <1>6
    <2> QED BY <1>3, <2>1
  <1>7. ASSUME o[2] = "NotApplied" PROVE o[1] = user.mcp
    <2>1. now # None
      BY <1>2, <1>4, <1>7
    <2> QED BY <1>3, <2>1
  <1> QED BY <1>4, <1>5, <1>6, <1>7

-----------------------------------------------------------------------------
(* A step of p moves p alone.                                              *)
Steps(p) == Installs(p) \/ Uninstalls(p) \/ Killed(p)

LEMMA OnlyItself ==
  ASSUME InstallTypes, NEW p \in Procs, Steps(p)
  PROVE  /\ job' = job
         /\ \A q \in Procs \ {p} : /\ pc'[q] = pc[q] /\ journal'[q] = journal[q]
                                  /\ pre'[q] = pre[q] /\ before'[q] = before[q]
  <1>1. CASE Stage(p)
    BY <1>1 DEF InstallTypes, Stage, Quiet, Goto, Log
  <1>2. CASE Publish(p)
    BY <1>2 DEF InstallTypes, Publish, Quiet, Goto, Log
  <1>3. CASE ResolveFirst(p)
    BY <1>3 DEF InstallTypes, ResolveFirst, Quiet, Goto, Log
  <1>4. CASE AcquireLock(p)
    BY <1>4 DEF InstallTypes, AcquireLock, Quiet, Goto, Log
  <1>5. CASE Preflight(p)
    BY <1>5 DEF InstallTypes, Preflight, Quiet, Goto, Log, Finish
  <1>6. CASE StepFails(p)
    BY <1>6 DEF InstallTypes, StepFails, Quiet, Goto, Log
  <1>7. CASE MigrateConfig(p)
    BY <1>7 DEF InstallTypes, MigrateConfig, Quiet, Goto, Log, Replaced, Torn, Late
  <1>8. CASE EnsureStableBinary(p)
    BY <1>8 DEF InstallTypes, EnsureStableBinary, Quiet, Goto, Log, Replaced, Torn, Late
  <1>9. CASE ReplaceMcp(p)
    BY <1>9 DEF InstallTypes, ReplaceMcp, Quiet, Goto, Log
  <1>10. CASE RegisterMcp(p)
    BY <1>10 DEF InstallTypes, RegisterMcp, Quiet, Goto, Log
  <1>11. CASE LinkSkill(p)
    BY <1>11 DEF InstallTypes, LinkSkill, Quiet, Goto, Log, Replaced, Torn, Late
  <1>12. CASE WriteMarker(p)
    BY <1>12 DEF InstallTypes, WriteMarker, Quiet, Goto, Log, Replaced, Torn, Late
  <1>13. CASE CleansUp(p)
    BY <1>13 DEF InstallTypes, CleansUp, Quiet, Goto, Log, Finish
  <1>14. CASE Prune(p)
    BY <1>14 DEF InstallTypes, Prune, Quiet, Goto, Log, Finish
  <1>15. CASE UndoFiles(p)
    BY <1>15 DEF InstallTypes, UndoFiles, Quiet, Goto, Log
  <1>16. CASE UndoRegister(p)
    BY <1>16 DEF InstallTypes, UndoRegister, Quiet, Goto, Log
  <1>17. CASE UndoReplace(p)
    BY <1>17 DEF InstallTypes, UndoReplace, Quiet, Goto, Log
  <1>18. CASE UndoStable(p)
    BY <1>18 DEF InstallTypes, UndoStable, Quiet, Goto, Log
  <1>19. CASE UndoConfig(p)
    BY <1>19 DEF InstallTypes, UndoConfig, Quiet, Goto, Log, Finish
  <1>20. CASE Unregister(p)
    BY <1>20 DEF InstallTypes, Unregister, Quiet, Goto, Log
  <1>21. CASE TakeSkill(p)
    BY <1>21 DEF InstallTypes, TakeSkill, Quiet, Goto, Log, Replaced, Torn, Late
  <1>22. CASE TakeMarker(p)
    BY <1>22 DEF InstallTypes, TakeMarker, Quiet, Goto, Log, Replaced, Torn, Late
  <1>23. CASE DeleteMarker(p)
    BY <1>23 DEF InstallTypes, DeleteMarker, Quiet, Goto, Log
  <1>24. CASE DeleteSkill(p)
    BY <1>24 DEF InstallTypes, DeleteSkill, Quiet, Goto, Log, Finish
  <1>25. CASE Restore(p)
    BY <1>25 DEF InstallTypes, Restore, Quiet, Goto, Log
  <1>26. CASE RegisterAgain(p)
    BY <1>26 DEF InstallTypes, RegisterAgain, Quiet, Goto, Log, Finish
  <1>27. CASE Killed(p)
    BY <1>27 DEF InstallTypes, Killed, Quiet, Goto, Log, Finish
  <1>28. CASE Verify(p)
    BY <1>28 DEF InstallTypes, Verify, Quiet, Goto, Log
  <1>29. CASE Withdraw(p)
    BY <1>29 DEF InstallTypes, Withdraw, Quiet, Goto, Log
  <1> QED BY <1>1, <1>2, <1>3, <1>4, <1>5, <1>6, <1>7, <1>8, <1>9, <1>10, <1>11, <1>12, <1>13, <1>14, <1>15, <1>16, <1>17, <1>18, <1>19, <1>20, <1>21, <1>22, <1>23, <1>24, <1>25, <1>26, <1>27, <1>28, <1>29 DEF Steps, Installs, Uninstalls

(* The lock goes to one that found it free and leaves one that ends; while *)
(* p is outside, no release goes that it does not withdraw; and that is    *)
(* remembered until another takes the lock.                                *)
LEMMA OnItsWay ==
  ASSUME InstallAssumption, InstallTypes, InOrder, NEW p \in Procs, Steps(p)
  PROVE  /\ lock' = p <=> pc'[p] \in Inside
         /\ lock' \in {lock, p, None} /\ (lock' # lock => lock \in {p, None})
         /\ pc[p] \notin Inside => \A v \in Versions : Resolves(v) => Resolves(v)' \/ v \in pulled'
         /\ pulled' \subseteq pulled \cup {Release(p)}
         /\ lock # None \/ lock' # p => pulled \subseteq pulled'
         /\ pc'[p] \in Committed => (Resolves(Release(p)) \/ Withdrawn(p))'
         /\ pc'[p] \in Publishing \cup Installing \cup Undoing => job[p].op = "install"
         /\ pc'[p] \in Uninstalling \cup Restoring => job[p].op = "uninstall"
         /\ pc'[p] \in Publishing \cup {"lock", "waiting", "preflight", "config", "unregister"} =>
              journal'[p] = NoJournal
         /\ pc'[p] \in Publishing \cup {"lock", "waiting"} \cup Inside \cup Ended
  <1> USE DEF Committed, Inside, Publishing, Installing, Undoing, Uninstalling, Restoring, Ended
  <1>0. /\ p # None /\ job[p].release \in Versions
        /\ lock = p <=> pc[p] \in Inside
        /\ pc[p] \in Committed => bundles[Release(p)] # "absent" \/ Release(p) \in pulled
        /\ pc[p] \in Publishing \cup Installing \cup Undoing => job[p].op = "install"
        /\ pc[p] \in Uninstalling \cup Restoring => job[p].op = "uninstall"
        /\ pc[p] \in Publishing \cup {"lock", "waiting", "preflight", "config", "unregister"} =>
             journal[p] = NoJournal
        /\ pc[p] \in Publishing \cup {"lock", "waiting"} \cup Inside \cup Ended
        /\ job[p].op \in {"install", "uninstall"}
    BY InstallAssumption DEF InstallAssumption, InstallTypes, InOrder, Resolves, Withdrawn
  <1>s. job' = job
    BY OnlyItself
  <1>g. \A l : Goto(p, l) => pc'[p] = l
    BY DEF InstallTypes, Goto
  <1>f. \A r : Finish(p, r) => pc'[p] = r /\ lock' = IF lock = p THEN None ELSE lock
    BY <1>g DEF Finish
  <1>1. CASE Stage(p)
    <2>1. /\ pc[p] = "stage" /\ pc'[p] \in {"copying", "lock", "error"}
          /\ lock' = lock /\ bundles' = bundles /\ pulled' = pulled /\ journal'[p] = journal[p]
      BY <1>1, <1>g, <1>f DEF Stage, Quiet
    <2> QED BY <1>0, <1>s, <2>1 DEF Resolves, Release, Withdrawn
  <1>2. CASE Publish(p)
    <2>1. /\ pc[p] = "copying" /\ pc'[p] \in {"verify", "lock", "error"}
          /\ lock' = lock /\ journal'[p] = journal[p] /\ pulled' = pulled
      BY <1>2, <1>g, <1>f DEF Publish, Quiet
    <2>2. \A v \in Versions : bundles[v] # "absent" => bundles'[v] # "absent"
      BY <1>2 DEF Publish, InstallTypes
    <2> QED BY <1>0, <1>s, <2>1, <2>2 DEF Resolves, Release, Withdrawn
  <1>3. CASE ResolveFirst(p)
    BY <1>0, <1>s, <1>g, <1>f, <1>3, ZenonT(40) DEF ResolveFirst, Quiet, Resolves, Release, Withdrawn
  <1>4. CASE AcquireLock(p)
    <2>1. /\ pc[p] = "waiting" /\ bundles' = bundles /\ journal'[p] = journal[p]
          /\ \/ lock = None /\ lock' = p /\ pc'[p] = "preflight" /\ pulled' = {}
             \/ lock' = lock /\ pc'[p] = "error" /\ pulled' = pulled
      BY <1>4, <1>g, <1>f DEF AcquireLock, Quiet
    <2> QED BY <1>0, <1>s, <2>1 DEF Resolves, Release, Withdrawn
  <1>5. CASE Preflight(p)
    <2>1. /\ pc[p] = "preflight" /\ bundles' = bundles /\ pulled' = pulled /\ journal'[p] = journal[p]
          /\ \/ /\ pc'[p] = (IF job[p].op = "install" THEN "config" ELSE "unregister")
                /\ Resolves(Release(p)) /\ lock' = lock
             \/ pc'[p] = "error" /\ lock' = (IF lock = p THEN None ELSE lock)
      BY <1>5, <1>g, <1>f DEF Preflight, Accepts
    <2> QED BY <1>0, <1>s, <2>1 DEF Resolves, Release, Withdrawn
  <1>6. CASE StepFails(p)
    <2>1. /\ pc[p] \in {"config", "stable", "replace", "register", "skill", "marker"} /\ pc'[p] \in {"undo files"}
          /\ lock' = (IF pc'[p] \in Ended /\ lock = p THEN None ELSE lock) /\ bundles' = bundles /\ pulled' = pulled
      BY <1>6, <1>g, <1>f DEF StepFails, Quiet
    <2> QED BY <1>0, <1>s, <2>1 DEF Resolves, Release, Withdrawn
  <1>7. CASE MigrateConfig(p)
    <2>1. /\ pc[p] \in {"config"} /\ pc'[p] \in {"stable", "undo files"}
          /\ lock' = (IF pc'[p] \in Ended /\ lock = p THEN None ELSE lock) /\ bundles' = bundles /\ pulled' = pulled
      BY <1>7, <1>g, <1>f DEF MigrateConfig, Quiet
    <2> QED BY <1>0, <1>s, <2>1 DEF Resolves, Release, Withdrawn
  <1>8. CASE EnsureStableBinary(p)
    <2>1. /\ pc[p] \in {"stable"} /\ pc'[p] \in {"replace", "undo files"}
          /\ lock' = (IF pc'[p] \in Ended /\ lock = p THEN None ELSE lock) /\ bundles' = bundles /\ pulled' = pulled
      BY <1>8, <1>g, <1>f DEF EnsureStableBinary, Quiet
    <2> QED BY <1>0, <1>s, <2>1 DEF Resolves, Release, Withdrawn
  <1>9. CASE ReplaceMcp(p)
    <2>1. /\ pc[p] \in {"replace"} /\ pc'[p] \in {"register", "undo files"}
          /\ lock' = (IF pc'[p] \in Ended /\ lock = p THEN None ELSE lock) /\ bundles' = bundles /\ pulled' = pulled
      BY <1>9, <1>g, <1>f DEF ReplaceMcp, Quiet
    <2> QED BY <1>0, <1>s, <2>1 DEF Resolves, Release, Withdrawn
  <1>10. CASE RegisterMcp(p)
    <2>1. /\ pc[p] \in {"register"} /\ pc'[p] \in {"skill", "undo files"}
          /\ lock' = (IF pc'[p] \in Ended /\ lock = p THEN None ELSE lock) /\ bundles' = bundles /\ pulled' = pulled
      BY <1>10, <1>g, <1>f DEF RegisterMcp, Quiet
    <2> QED BY <1>0, <1>s, <2>1 DEF Resolves, Release, Withdrawn
  <1>11. CASE LinkSkill(p)
    <2>1. /\ pc[p] \in {"skill"} /\ pc'[p] \in {"marker", "undo files"}
          /\ lock' = (IF pc'[p] \in Ended /\ lock = p THEN None ELSE lock) /\ bundles' = bundles /\ pulled' = pulled
      BY <1>11, <1>g, <1>f DEF LinkSkill, Quiet
    <2> QED BY <1>0, <1>s, <2>1 DEF Resolves, Release, Withdrawn
  <1>12. CASE WriteMarker(p)
    <2>1. /\ pc[p] \in {"marker"} /\ pc'[p] \in {"clean up", "undo files"}
          /\ lock' = (IF pc'[p] \in Ended /\ lock = p THEN None ELSE lock) /\ bundles' = bundles /\ pulled' = pulled
      BY <1>12, <1>g, <1>f DEF WriteMarker, Quiet
    <2> QED BY <1>0, <1>s, <2>1 DEF Resolves, Release, Withdrawn
  <1>13. CASE CleansUp(p)
    <2>1. /\ pc[p] \in {"clean up"} /\ pc'[p] \in {"prune", "error"}
          /\ lock' = (IF pc'[p] \in Ended /\ lock = p THEN None ELSE lock) /\ bundles' = bundles /\ pulled' = pulled
      BY <1>13, <1>g, <1>f DEF CleansUp, Quiet
    <2> QED BY <1>0, <1>s, <2>1 DEF Resolves, Release, Withdrawn
  <1>14. CASE Prune(p)
    <2>1. /\ pc[p] = "prune" /\ pc'[p] \in {"ok", "error", "killed"}
          /\ lock' = IF lock = p THEN None ELSE lock
          /\ pulled' = pulled
      BY <1>14, <1>g, <1>f DEF Prune, Quiet
    <2> QED BY <1>0, <1>s, <2>1 DEF Resolves, Release, Withdrawn
  <1>15. CASE UndoFiles(p)
    <2>1. /\ pc[p] \in {"undo files"} /\ pc'[p] \in {"undo register"}
          /\ lock' = (IF pc'[p] \in Ended /\ lock = p THEN None ELSE lock) /\ bundles' = bundles /\ pulled' = pulled
      BY <1>15, <1>g, <1>f DEF UndoFiles, Quiet
    <2> QED BY <1>0, <1>s, <2>1 DEF Resolves, Release, Withdrawn
  <1>16. CASE UndoRegister(p)
    <2>1. /\ pc[p] \in {"undo register"} /\ pc'[p] \in {"undo replace"}
          /\ lock' = (IF pc'[p] \in Ended /\ lock = p THEN None ELSE lock) /\ bundles' = bundles /\ pulled' = pulled
      BY <1>16, <1>g, <1>f DEF UndoRegister, Quiet
    <2> QED BY <1>0, <1>s, <2>1 DEF Resolves, Release, Withdrawn
  <1>17. CASE UndoReplace(p)
    <2>1. /\ pc[p] \in {"undo replace"} /\ pc'[p] \in {"undo stable"}
          /\ lock' = (IF pc'[p] \in Ended /\ lock = p THEN None ELSE lock) /\ bundles' = bundles /\ pulled' = pulled
      BY <1>17, <1>g, <1>f DEF UndoReplace, Quiet
    <2> QED BY <1>0, <1>s, <2>1 DEF Resolves, Release, Withdrawn
  <1>18. CASE UndoStable(p)
    <2>1. /\ pc[p] \in {"undo stable"} /\ pc'[p] \in {"undo config"}
          /\ lock' = (IF pc'[p] \in Ended /\ lock = p THEN None ELSE lock) /\ bundles' = bundles /\ pulled' = pulled
      BY <1>18, <1>g, <1>f DEF UndoStable, Quiet
    <2> QED BY <1>0, <1>s, <2>1 DEF Resolves, Release, Withdrawn
  <1>19. CASE UndoConfig(p)
    <2>1. /\ pc[p] \in {"undo config"} /\ pc'[p] \in {"incomplete", "error"}
          /\ lock' = (IF pc'[p] \in Ended /\ lock = p THEN None ELSE lock) /\ bundles' = bundles /\ pulled' = pulled
      BY <1>19, <1>g, <1>f DEF UndoConfig, Quiet
    <2> QED BY <1>0, <1>s, <2>1 DEF Resolves, Release, Withdrawn
  <1>20. CASE Unregister(p)
    <2>1. /\ pc[p] \in {"unregister"} /\ pc'[p] \in {"take skill", "restore"}
          /\ lock' = (IF pc'[p] \in Ended /\ lock = p THEN None ELSE lock) /\ bundles' = bundles /\ pulled' = pulled
      BY <1>20, <1>g, <1>f DEF Unregister, Quiet
    <2> QED BY <1>0, <1>s, <2>1 DEF Resolves, Release, Withdrawn
  <1>21. CASE TakeSkill(p)
    <2>1. /\ pc[p] \in {"take skill"} /\ pc'[p] \in {"take marker", "restore"}
          /\ lock' = (IF pc'[p] \in Ended /\ lock = p THEN None ELSE lock) /\ bundles' = bundles /\ pulled' = pulled
      BY <1>21, <1>g, <1>f DEF TakeSkill, Quiet
    <2> QED BY <1>0, <1>s, <2>1 DEF Resolves, Release, Withdrawn
  <1>22. CASE TakeMarker(p)
    <2>1. /\ pc[p] \in {"take marker"} /\ pc'[p] \in {"delete marker", "restore"}
          /\ lock' = (IF pc'[p] \in Ended /\ lock = p THEN None ELSE lock) /\ bundles' = bundles /\ pulled' = pulled
      BY <1>22, <1>g, <1>f DEF TakeMarker, Quiet
    <2> QED BY <1>0, <1>s, <2>1 DEF Resolves, Release, Withdrawn
  <1>23. CASE DeleteMarker(p)
    <2>1. /\ pc[p] \in {"delete marker"} /\ pc'[p] \in {"delete skill", "restore"}
          /\ lock' = (IF pc'[p] \in Ended /\ lock = p THEN None ELSE lock) /\ bundles' = bundles /\ pulled' = pulled
      BY <1>23, <1>g, <1>f DEF DeleteMarker, Quiet
    <2> QED BY <1>0, <1>s, <2>1 DEF Resolves, Release, Withdrawn
  <1>24. CASE DeleteSkill(p)
    <2>1. /\ pc[p] \in {"delete skill"} /\ pc'[p] \in {"ok", "restore"}
          /\ lock' = (IF pc'[p] \in Ended /\ lock = p THEN None ELSE lock) /\ bundles' = bundles /\ pulled' = pulled
      BY <1>24, <1>g, <1>f DEF DeleteSkill, Quiet
    <2> QED BY <1>0, <1>s, <2>1 DEF Resolves, Release, Withdrawn
  <1>25. CASE Restore(p)
    <2>1. /\ pc[p] \in {"restore"} /\ pc'[p] \in {"register again"}
          /\ lock' = (IF pc'[p] \in Ended /\ lock = p THEN None ELSE lock) /\ bundles' = bundles /\ pulled' = pulled
      BY <1>25, <1>g, <1>f DEF Restore, Quiet
    <2> QED BY <1>0, <1>s, <2>1 DEF Resolves, Release, Withdrawn
  <1>26. CASE RegisterAgain(p)
    <2>1. /\ pc[p] \in {"register again"} /\ pc'[p] \in {"incomplete", "error"}
          /\ lock' = (IF pc'[p] \in Ended /\ lock = p THEN None ELSE lock) /\ bundles' = bundles /\ pulled' = pulled
      BY <1>26, <1>g, <1>f DEF RegisterAgain, Quiet
    <2> QED BY <1>0, <1>s, <2>1 DEF Resolves, Release, Withdrawn
  <1>27. CASE Killed(p)
    <2>1. /\ pc[p] \notin Ended /\ pc'[p] = "killed" /\ bundles' = bundles /\ pulled' = pulled
          /\ lock' = IF lock = p THEN None ELSE lock
      BY <1>27, <1>g, <1>f DEF Killed, Quiet
    <2> QED BY <1>0, <1>s, <2>1 DEF Resolves, Release, Withdrawn
  <1>28. CASE Verify(p)
    <2>1. /\ pc[p] = "verify" /\ pc'[p] \in {"lock", "withdraw"}
          /\ lock' = lock /\ bundles' = bundles /\ pulled' = pulled /\ journal'[p] = journal[p]
      BY <1>28, <1>g, <1>f DEF Verify, Quiet
    <2> QED BY <1>0, <1>s, <2>1 DEF Resolves, Release, Withdrawn
  <1>29. CASE Withdraw(p)
    <2>1. /\ pc[p] = "withdraw" /\ pc'[p] = "error"
          /\ lock' = lock /\ journal'[p] = journal[p]
          /\ \/ /\ bundles' = [bundles EXCEPT ![Release(p)] = "absent"]
                /\ pulled' = pulled \cup {Release(p)}
             \/ bundles' = bundles /\ pulled' = pulled
      BY <1>29, <1>g, <1>f DEF Withdraw
    <2>2. \A v \in Versions : bundles[v] # "absent" => bundles'[v] # "absent" \/ v \in pulled'
      BY <2>1 DEF InstallTypes
    <2> QED BY <1>0, <1>s, <2>1, <2>2 DEF Resolves, Release, Withdrawn
  <1> QED BY <1>1, <1>2, <1>3, <1>4, <1>5, <1>6, <1>7, <1>8, <1>9, <1>10, <1>11, <1>12, <1>13, <1>14, <1>15, <1>16, <1>17, <1>18, <1>19, <1>20, <1>21, <1>22, <1>23, <1>24, <1>25, <1>26, <1>27, <1>28, <1>29 DEF Steps, Installs, Uninstalls

(* What is written keeps its type.                                         *)
LEMMA ArtefactTyped ==
  ASSUME user \in [Artefacts -> Values], NEW a \in Artefacts, NEW x \in Values
  PROVE  /\ [user EXCEPT ![a] = x] \in [Artefacts -> Values]
         /\ user[a] \in Values
  OBVIOUS

LEMMA ArtefactsAre ==
  /\ {"config", "stable", "mcp", "skill", "marker"} \subseteq Artefacts
  /\ None \in Values /\ Stable \in Values /\ "v2" \in Values /\ Versions \subseteq Values
  BY DEF Artefacts, Values

LEMMA EntryTyped ==
  ASSUME InstallAssumption, InstallTypes, NEW v \in Versions, NEW o \in Add(v) \cup Remove(v)
  PROVE  [user EXCEPT !.mcp = o[1]] \in [Artefacts -> Values]
  <1>1. "mcp" \in Artefacts /\ user["mcp"] \in Values
    BY ArtefactsAre DEF InstallTypes
  <1>2. o[1] \in {Stable, None, user.mcp}
    <2>1. CASE o \in Add(v)
      BY <1>1, <2>1, AddLeaves
    <2>2. CASE o \in Remove(v)
      BY <1>1, <2>2, RemoveLeaves
    <2> QED BY <2>1, <2>2
  <1>3. o[1] \in Values
    BY <1>1, <1>2, ArtefactsAre
  <1> QED BY <1>1, <1>3, ArtefactTyped DEF InstallTypes

LEMMA PutBackTyped ==
  ASSUME NEW now \in [Artefacts -> Values], NEW aside \in [Artefacts -> Values], NEW A
  PROVE  PutBack(now, aside, A) \in [Artefacts -> Values]
  BY DEF PutBack

LEMMA JournalTyped ==
  ASSUME NEW j \in Journals, NEW A \in SUBSET (Artefacts \cup {"added", "removed", "deleted"}),
         NEW U \in SUBSET Artefacts, NEW f \in BOOLEAN, NEW u \in BOOLEAN,
         NEW a \in Artefacts, NEW x \in Values
  PROVE  /\ [j EXCEPT !.done = @ \cup A, !.aside[a] = x] \in Journals
         /\ [j EXCEPT !.aside[a] = x, !.done = @ \cup A] \in Journals
         /\ [j EXCEPT !.aside[a] = x] \in Journals
         /\ [j EXCEPT !.aside[a] = x, !.unseen = @ \cup U] \in Journals
         /\ [j EXCEPT !.done = @ \cup A, !.unseen = @ \cup U] \in Journals
         /\ [j EXCEPT !.done = @ \cup A, !.unknown = u, !.unseen = @ \cup U] \in Journals
         /\ [j EXCEPT !.failed = f] \in Journals
         /\ \A g \in [Artefacts -> Values] : [j EXCEPT !.aside = g] \in Journals
  BY DEF Journals

LEMMA Written ==
  ASSUME InstallAssumption, InstallTypes, NEW p \in Procs, Steps(p)
  PROVE  user' \in [Artefacts -> Values] /\ journal' \in [Procs -> Journals]
  <1> DEFINE Fine == user' \in [Artefacts -> Values] /\ journal' \in [Procs -> Journals]
             j == journal[p]
  <1>0. /\ user \in [Artefacts -> Values] /\ journal \in [Procs -> Journals] /\ j \in Journals
        /\ Release(p) \in Versions /\ Release(p) \in Values
        /\ j.aside \in [Artefacts -> Values] /\ j.failed \in BOOLEAN /\ j.done \in SUBSET (Artefacts \cup {"added", "removed", "deleted"})
    BY ArtefactsAre DEF InstallTypes, Journals, Release
  <1>l. \A n \in Journals : Log(p, n) => journal' \in [Procs -> Journals]
    BY <1>0 DEF Log
  <1>r. ASSUME NEW a \in Artefacts, NEW x \in Values, Replaced(p, a, x) \/ Torn(p, a) \/ Late(p, a, x) PROVE Fine
    <2>1. /\ user[a] \in Values /\ None \in Values
          /\ {a} \in SUBSET (Artefacts \cup {"added", "removed", "deleted"}) /\ {a} \in SUBSET Artefacts
      BY <1>0, ArtefactTyped, ArtefactsAre
    <2>2. user' \in [Artefacts -> Values]
      BY <1>r, <1>0, <2>1, ArtefactTyped, SMTT(20) DEF Replaced, Torn, Late
    <2>3. /\ [j EXCEPT !.done = @ \cup {a}, !.aside[a] = user[a]] \in Journals
          /\ [j EXCEPT !.aside[a] = user[a]] \in Journals
          /\ [j EXCEPT !.aside[a] = user[a], !.unseen = @ \cup {a}] \in Journals
      BY <1>0, <2>1, JournalTyped, TRUE \in BOOLEAN
    <2> QED BY <1>r, <1>l, <2>2, <2>3 DEF Replaced, Torn, Late
  <1>m. ASSUME NEW o \in Add(Release(p)) \cup Remove(Release(p)), user' = [user EXCEPT !.mcp = o[1]]
        PROVE user' \in [Artefacts -> Values]
    BY <1>0, <1>m, EntryTyped
  <1>u. \A o : Unseen(o) \in SUBSET Artefacts
    BY ArtefactsAre DEF Unseen
  <1>1. CASE Stage(p)
    BY <1>0, <1>1 DEF Stage, Quiet
  <1>2. CASE Publish(p)
    BY <1>0, <1>2 DEF Publish, Quiet
  <1>3. CASE ResolveFirst(p)
    BY <1>0, <1>3 DEF ResolveFirst, Quiet
  <1>4. CASE AcquireLock(p)
    BY <1>0, <1>4 DEF AcquireLock, Quiet
  <1>5. CASE Preflight(p)
    BY <1>0, <1>5 DEF Preflight, Quiet
  <1>6. CASE StepFails(p)
    BY <1>0, <1>6 DEF StepFails, Quiet
  <1>7. CASE MigrateConfig(p)
    BY <1>0, <1>r, <1>7, ArtefactsAre DEF MigrateConfig
  <1>8. CASE EnsureStableBinary(p)
    BY <1>0, <1>r, <1>8, ArtefactsAre DEF EnsureStableBinary
  <1>9. CASE ReplaceMcp(p)
    <2>1. CASE user' = user /\ journal' = journal
      BY <1>0, <2>1
    <2>2. CASE \E o \in Remove(Release(p)) :
                 /\ user' = [user EXCEPT !.mcp = o[1]]
                 /\ Log(p, [j EXCEPT !.done = @ \cup IF o[2] \in {"Ok", "Applied"} THEN {"removed"} ELSE {},
                                     !.unseen = @ \cup Unseen(o)])
      <3>1. PICK o \in Remove(Release(p)) :
              /\ user' = [user EXCEPT !.mcp = o[1]]
              /\ Log(p, [j EXCEPT !.done = @ \cup IF o[2] \in {"Ok", "Applied"} THEN {"removed"} ELSE {},
                                  !.unseen = @ \cup Unseen(o)])
        BY <2>2
      <3>2. (IF o[2] \in {"Ok", "Applied"} THEN {"removed"} ELSE {}) \in SUBSET (Artefacts \cup {"added", "removed", "deleted"})
        OBVIOUS
      <3>3. Unseen(o) \in SUBSET Artefacts /\ (o[2] = "Unknown") \in BOOLEAN
        BY <1>u
      <3>4. [j EXCEPT !.done = @ \cup IF o[2] \in {"Ok", "Applied"} THEN {"removed"} ELSE {},
                      !.unseen = @ \cup Unseen(o)] \in Journals
        BY <1>0, <3>2, <3>3, JournalTyped, ArtefactsAre
      <3> QED BY <1>l, <1>m, <3>1, <3>4
    <2> QED BY <1>9, <2>1, <2>2 DEF ReplaceMcp
  <1>10. CASE RegisterMcp(p)
    <2>1. CASE user' = user /\ journal' = journal
      BY <1>0, <2>1
    <2>2. CASE \E o \in Add(Release(p)) :
                 /\ user' = [user EXCEPT !.mcp = o[1]]
                 /\ Log(p, [j EXCEPT !.done = @ \cup IF o[2] \in {"Ok", "Applied"} THEN {"added"} ELSE {}, !.unknown = (o[2] = "Unknown"),
                                     !.unseen = @ \cup Unseen(o)])
      <3>1. PICK o \in Add(Release(p)) :
              /\ user' = [user EXCEPT !.mcp = o[1]]
              /\ Log(p, [j EXCEPT !.done = @ \cup IF o[2] \in {"Ok", "Applied"} THEN {"added"} ELSE {}, !.unknown = (o[2] = "Unknown"),
                                  !.unseen = @ \cup Unseen(o)])
        BY <2>2
      <3>2. (IF o[2] \in {"Ok", "Applied"} THEN {"added"} ELSE {}) \in SUBSET (Artefacts \cup {"added", "removed", "deleted"})
        OBVIOUS
      <3>3. Unseen(o) \in SUBSET Artefacts /\ (o[2] = "Unknown") \in BOOLEAN
        BY <1>u
      <3>4. [j EXCEPT !.done = @ \cup IF o[2] \in {"Ok", "Applied"} THEN {"added"} ELSE {}, !.unknown = (o[2] = "Unknown"),
                      !.unseen = @ \cup Unseen(o)] \in Journals
        BY <1>0, <3>2, <3>3, JournalTyped, ArtefactsAre, ZenonT(40)
      <3> QED BY <1>l, <1>m, <3>1, <3>4
    <2> QED BY <1>10, <2>1, <2>2 DEF RegisterMcp
  <1>11. CASE LinkSkill(p)
    BY <1>0, <1>r, <1>11, ArtefactsAre DEF LinkSkill
  <1>12. CASE WriteMarker(p)
    BY <1>0, <1>r, <1>12, ArtefactsAre DEF WriteMarker
  <1>13. CASE CleansUp(p)
    <2>1. NoJournal.aside \in [Artefacts -> Values]
      BY ArtefactsAre DEF NoJournal
    <2>2. [j EXCEPT !.aside = NoJournal.aside] \in Journals
      BY <1>0, <2>1 DEF Journals
    <2> QED BY <1>0, <1>l, <1>13, <2>2 DEF CleansUp
  <1>14. CASE Prune(p)
    BY <1>0, <1>14 DEF Prune, Quiet
  <1>15. CASE UndoFiles(p)
    <2>1. \A b \in BOOLEAN : [j EXCEPT !.failed = b] \in Journals
      BY <1>0 DEF Journals
    <2>2. \A bad : (j.failed \/ bad # {}) \in BOOLEAN
      OBVIOUS
    <2>3. \A bad : [j EXCEPT !.failed = @ \/ bad # {}] \in Journals
      BY <2>1, <2>2
    <2>4. journal' \in [Procs -> Journals]
      BY <1>l, <1>15, <2>3 DEF UndoFiles
    <2> DEFINE ours == (IF "marker" \in j.done /\ MarkerOf(Release(p)) = "Matching" THEN {"marker"} ELSE {})
                       \cup (IF "skill" \in j.done /\ SkillOf(Release(p)) = "Matching" THEN {"skill"} ELSE {})
    <2>5. PICK bad \in OneFails : user' = [a \in Artefacts |-> IF a \in ours \ bad THEN None ELSE user[a]]
      BY <1>15 DEF UndoFiles
    <2>6. user' \in [Artefacts -> Values]
      BY <1>0, <2>5, ArtefactsAre
    <2> QED BY <2>4, <2>6
  <1>16. CASE UndoRegister(p)
    <2>1. \A b \in BOOLEAN : [j EXCEPT !.failed = b] \in Journals
      BY <1>0 DEF Journals
    <2>2. TRUE \in BOOLEAN /\ \A o : (j.failed \/ o[2] \notin {"Ok", "Applied"}) \in BOOLEAN
      OBVIOUS
    <2>3. /\ [j EXCEPT !.failed = TRUE] \in Journals
          /\ \A o : [j EXCEPT !.failed = @ \/ o[2] \notin {"Ok", "Applied"}] \in Journals
      BY <2>1, <2>2
    <2> QED BY <1>0, <1>l, <1>m, <1>16, <2>3 DEF UndoRegister
  <1>17. CASE UndoReplace(p)
    <2>1. \A b \in BOOLEAN : [j EXCEPT !.failed = b] \in Journals
      BY <1>0 DEF Journals
    <2>2. TRUE \in BOOLEAN /\ \A o : (j.failed \/ o[2] # "Ok") \in BOOLEAN
      OBVIOUS
    <2>3. /\ [j EXCEPT !.failed = TRUE] \in Journals
          /\ \A o : [j EXCEPT !.failed = @ \/ o[2] # "Ok"] \in Journals
      BY <2>1, <2>2
    <2> QED BY <1>0, <1>l, <1>m, <1>17, <2>3 DEF UndoReplace
  <1>18. CASE UndoStable(p)
    <2> DEFINE now == [user EXCEPT !.stable = IF "stable" \in j.done THEN None ELSE @]
    <2>1. now \in [Artefacts -> Values]
      BY <1>0, ArtefactsAre
    <2>2. \A A : PutBack(now, j.aside, A) \in [Artefacts -> Values]
      BY <1>0, <2>1, PutBackTyped
    <2>3. \E b \in BOOLEAN : Log(p, [j EXCEPT !.failed = b])
      BY <1>18 DEF UndoStable
    <2>4. \E A : user' = PutBack(now, j.aside, A)
      BY <1>18 DEF UndoStable
    <2>5. \A b \in BOOLEAN : [j EXCEPT !.failed = b] \in Journals
      BY <1>0 DEF Journals
    <2> QED BY <1>l, <2>2, <2>3, <2>4, <2>5
  <1>19. CASE UndoConfig(p)
    <2>1. [user EXCEPT !.config = IF "config" \in j.done THEN None ELSE @] \in [Artefacts -> Values]
      BY <1>0, ArtefactsAre
    <2>2. PutBack([user EXCEPT !.config = IF "config" \in j.done THEN None ELSE @], j.aside, {"config"})
            \in [Artefacts -> Values]
      BY <1>0, <2>1, PutBackTyped
    <2> QED BY <1>0, <1>19, <2>2 DEF UndoConfig
  <1>20. CASE Unregister(p)
    <2>1. CASE user' = user /\ journal' = journal
      BY <1>0, <2>1
    <2>2. CASE \E o \in Remove(Release(p)) :
                 /\ user' = [user EXCEPT !.mcp = o[1]]
                 /\ Log(p, [j EXCEPT !.done = @ \cup IF o[2] \in {"Ok", "Applied"} THEN {"removed"} ELSE {}, !.unknown = (o[2] = "Unknown"),
                                     !.unseen = @ \cup Unseen(o)])
      <3>1. PICK o \in Remove(Release(p)) :
              /\ user' = [user EXCEPT !.mcp = o[1]]
              /\ Log(p, [j EXCEPT !.done = @ \cup IF o[2] \in {"Ok", "Applied"} THEN {"removed"} ELSE {}, !.unknown = (o[2] = "Unknown"),
                                  !.unseen = @ \cup Unseen(o)])
        BY <2>2
      <3>2. (IF o[2] \in {"Ok", "Applied"} THEN {"removed"} ELSE {}) \in SUBSET (Artefacts \cup {"added", "removed", "deleted"})
        OBVIOUS
      <3>3. Unseen(o) \in SUBSET Artefacts /\ (o[2] = "Unknown") \in BOOLEAN
        BY <1>u
      <3>4. [j EXCEPT !.done = @ \cup IF o[2] \in {"Ok", "Applied"} THEN {"removed"} ELSE {}, !.unknown = (o[2] = "Unknown"),
                      !.unseen = @ \cup Unseen(o)] \in Journals
        BY <1>0, <3>2, <3>3, JournalTyped, ArtefactsAre, ZenonT(40)
      <3> QED BY <1>l, <1>m, <3>1, <3>4
    <2> QED BY <1>20, <2>1, <2>2 DEF Unregister
  <1>21. CASE TakeSkill(p)
    BY <1>0, <1>r, <1>21, ArtefactsAre DEF TakeSkill
  <1>22. CASE TakeMarker(p)
    BY <1>0, <1>r, <1>22, ArtefactsAre DEF TakeMarker
  <1>23. CASE DeleteMarker(p)
    <2>1. {"deleted"} \in SUBSET (Artefacts \cup {"added", "removed", "deleted"})
      OBVIOUS
    <2>2. [j EXCEPT !.aside["marker"] = None, !.done = @ \cup {"deleted"}] \in Journals
      BY <1>0, <2>1, JournalTyped, ArtefactsAre, TRUE \in BOOLEAN
    <2> QED BY <1>0, <1>l, <1>23, <2>2 DEF DeleteMarker
  <1>24. CASE DeleteSkill(p)
    <2>1. [j EXCEPT !.aside["skill"] = None] \in Journals
      BY <1>0, ArtefactsAre, JournalTyped, TRUE \in BOOLEAN
    <2> QED BY <1>0, <1>l, <1>24, <2>1 DEF DeleteSkill
  <1>25. CASE Restore(p)
    <2> DEFINE now == [user EXCEPT !.marker = IF "deleted" \in j.done /\ @ = None THEN Release(p) ELSE @]
    <2>1. now \in [Artefacts -> Values]
      BY <1>0, ArtefactsAre
    <2>2. \A A : \A n \in {user, now} : PutBack(n, j.aside, A) \in [Artefacts -> Values]
      BY <1>0, <2>1, PutBackTyped
    <2>3. \E b \in BOOLEAN : Log(p, [j EXCEPT !.failed = b])
      BY <1>25 DEF Restore
    <2>4. \E A : \E n \in {user, now} : user' = PutBack(n, j.aside, A)
      BY <1>25 DEF Restore
    <2>5. \A b \in BOOLEAN : [j EXCEPT !.failed = b] \in Journals
      BY <1>0 DEF Journals
    <2> QED BY <1>l, <2>2, <2>3, <2>4, <2>5
  <1>26. CASE RegisterAgain(p)
    BY <1>0, <1>m, <1>26 DEF RegisterAgain
  <1>27. CASE Killed(p)
    BY <1>0, <1>27 DEF Killed, Quiet
  <1>28. CASE Verify(p)
    BY <1>0, <1>28 DEF Verify, Quiet
  <1>29. CASE Withdraw(p)
    BY <1>0, <1>29 DEF Withdraw, Quiet
  <1> QED BY <1>1, <1>2, <1>3, <1>4, <1>5, <1>6, <1>7, <1>8, <1>9, <1>10, <1>11, <1>12, <1>13, <1>14, <1>15, <1>16, <1>17, <1>18, <1>19, <1>20, <1>21, <1>22, <1>23, <1>24, <1>25, <1>26, <1>27, <1>28, <1>29 DEF Steps, Installs, Uninstalls

LEMMA TypesStay ==
  ASSUME InstallAssumption, InstallTypes, InOrder, NEW p \in Procs, Steps(p)
  PROVE  InstallTypes'
  <1>1. user' \in [Artefacts -> Values] /\ journal' \in [Procs -> Journals] /\ job' = job
    BY Written, OnlyItself
  <1>2. pc' \in [Procs -> Publishing \cup {"lock", "waiting"} \cup Inside \cup Ended]
    <2>1. \A l : Goto(p, l) => pc' = [pc EXCEPT ![p] = l]
      BY DEF Goto
    <2>2. \E l : pc' = [pc EXCEPT ![p] = l]
      <3>1. CASE Stage(p)
        BY <2>1, <3>1 DEF Stage
      <3>2. CASE Publish(p)
        BY <2>1, <3>2 DEF Publish
      <3>3. CASE ResolveFirst(p)
        BY <2>1, <3>3 DEF ResolveFirst
      <3>4. CASE AcquireLock(p)
        BY <2>1, <3>4 DEF AcquireLock
      <3>5. CASE Preflight(p)
        BY <2>1, <3>5 DEF Preflight, Finish
      <3>6. CASE StepFails(p)
        BY <2>1, <3>6 DEF StepFails
      <3>7. CASE MigrateConfig(p)
        BY <2>1, <3>7 DEF MigrateConfig
      <3>8. CASE EnsureStableBinary(p)
        BY <2>1, <3>8 DEF EnsureStableBinary
      <3>9. CASE ReplaceMcp(p)
        BY <2>1, <3>9 DEF ReplaceMcp
      <3>10. CASE RegisterMcp(p)
        BY <2>1, <3>10 DEF RegisterMcp
      <3>11. CASE LinkSkill(p)
        BY <2>1, <3>11 DEF LinkSkill
      <3>12. CASE WriteMarker(p)
        BY <2>1, <3>12 DEF WriteMarker
      <3>13. CASE CleansUp(p)
        BY <2>1, <3>13 DEF CleansUp, Finish
      <3>14. CASE Prune(p)
        BY <2>1, <3>14 DEF Prune, Finish
      <3>15. CASE UndoFiles(p)
        BY <2>1, <3>15 DEF UndoFiles
      <3>16. CASE UndoRegister(p)
        BY <2>1, <3>16 DEF UndoRegister
      <3>17. CASE UndoReplace(p)
        BY <2>1, <3>17 DEF UndoReplace
      <3>18. CASE UndoStable(p)
        BY <2>1, <3>18 DEF UndoStable
      <3>19. CASE UndoConfig(p)
        BY <2>1, <3>19 DEF UndoConfig, Finish
      <3>20. CASE Unregister(p)
        BY <2>1, <3>20 DEF Unregister
      <3>21. CASE TakeSkill(p)
        BY <2>1, <3>21 DEF TakeSkill
      <3>22. CASE TakeMarker(p)
        BY <2>1, <3>22 DEF TakeMarker
      <3>23. CASE DeleteMarker(p)
        BY <2>1, <3>23 DEF DeleteMarker
      <3>24. CASE DeleteSkill(p)
        BY <2>1, <3>24 DEF DeleteSkill, Finish
      <3>25. CASE Restore(p)
        BY <2>1, <3>25 DEF Restore
      <3>26. CASE RegisterAgain(p)
        BY <2>1, <3>26 DEF RegisterAgain, Finish
      <3>27. CASE Killed(p)
        BY <2>1, <3>27 DEF Killed, Finish
      <3>28. CASE Verify(p)
        BY <2>1, <3>28 DEF Verify
      <3>29. CASE Withdraw(p)
        BY <2>1, <3>29 DEF Withdraw
      <3> QED BY <3>1, <3>2, <3>3, <3>4, <3>5, <3>6, <3>7, <3>8, <3>9, <3>10, <3>11, <3>12, <3>13, <3>14, <3>15, <3>16, <3>17, <3>18, <3>19, <3>20, <3>21, <3>22, <3>23, <3>24, <3>25, <3>26, <3>27, <3>28, <3>29 DEF Steps, Installs, Uninstalls
    <2>3. PICK l : pc' = [pc EXCEPT ![p] = l]
      BY <2>2
    <2>4. pc'[p] = l
      BY <2>3 DEF InstallTypes
    <2> QED BY <2>3, <2>4, OnItsWay DEF InstallTypes
  <1>3. lock' \in Procs \cup {None}
    BY OnItsWay DEF InstallTypes
  <1>4. before' \in [Procs -> [Artefacts -> Values]] /\ touched' \subseteq Artefacts
    <2>1. CASE AcquireLock(p)
      <3>1. \/ before' = [before EXCEPT ![p] = user] /\ touched' = {}
            \/ before' = before /\ touched' = touched
        BY <2>1 DEF AcquireLock
      <3> QED BY <3>1 DEF InstallTypes
    <2>2. CASE ~AcquireLock(p)
      <3>1. before' = before /\ touched' = touched
        BY <2>2 DEF Steps, Installs, Uninstalls, Quiet, Stage, Publish, Verify, Withdraw, ResolveFirst, Preflight, StepFails, MigrateConfig, EnsureStableBinary, ReplaceMcp, RegisterMcp, LinkSkill, WriteMarker, CleansUp, Prune, UndoFiles, UndoRegister, UndoReplace, UndoStable, UndoConfig, Unregister, TakeSkill, TakeMarker, DeleteMarker, DeleteSkill, Restore, RegisterAgain, Killed
      <3> QED BY <3>1 DEF InstallTypes
    <2> QED BY <2>1, <2>2
  <1>5. bundles' \in [Versions -> {"absent", "same", "different"}]
    <2>1. CASE Publish(p)
      BY <2>1 DEF Publish, InstallTypes
    <2>2. CASE Prune(p)
      BY <2>2 DEF Prune, InstallTypes
    <2>3. CASE Withdraw(p)
      BY <2>3 DEF Withdraw, InstallTypes
    <2>4. CASE ~Publish(p) /\ ~Withdraw(p) /\ ~Prune(p)
      <3>1. bundles' = bundles
        BY <2>4 DEF Steps, Installs, Uninstalls, Quiet, Stage, Verify, ResolveFirst, AcquireLock, Preflight, StepFails, MigrateConfig, EnsureStableBinary, ReplaceMcp, RegisterMcp, LinkSkill, WriteMarker, CleansUp, UndoFiles, UndoRegister, UndoReplace, UndoStable, UndoConfig, Unregister, TakeSkill, TakeMarker, DeleteMarker, DeleteSkill, Restore, RegisterAgain, Killed
      <3> QED BY <3>1 DEF InstallTypes
    <2> QED BY <2>1, <2>2, <2>3, <2>4
  <1>6. pre' \in [Procs -> Preflights]
    <2>1. CASE Preflight(p)
      <3>1. Release(p) \in Versions /\ user["mcp"] \in Values
        BY ArtefactsAre DEF InstallTypes, Release
      <3>2. /\ McpOf(Release(p), user.mcp) \in Findings
            /\ SkillOf(Release(p)) \in Findings /\ MarkerOf(Release(p)) \in Findings
        BY <3>1, McpSeen, SkillSeen, MarkerSeen
      <3>3. [mcp |-> McpOf(Release(p), user.mcp), skill |-> SkillOf(Release(p)),
             marker |-> MarkerOf(Release(p)), migrate |-> Migrates] \in Preflights
        BY <3>2 DEF Preflights, Migrates
      <3> QED BY <2>1, <3>3 DEF Preflight, InstallTypes
    <2>2. CASE ~Preflight(p)
      <3>1. pre' = pre
        BY <2>2 DEF Steps, Installs, Uninstalls, Quiet, Stage, Publish, Verify, Withdraw, ResolveFirst, AcquireLock, StepFails, MigrateConfig, EnsureStableBinary, ReplaceMcp, RegisterMcp, LinkSkill, WriteMarker, CleansUp, Prune, UndoFiles, UndoRegister, UndoReplace, UndoStable, UndoConfig, Unregister, TakeSkill, TakeMarker, DeleteMarker, DeleteSkill, Restore, RegisterAgain, Killed
      <3> QED BY <3>1 DEF InstallTypes
    <2> QED BY <2>1, <2>2
  <1>7. pulled' \subseteq Versions
    <2>1. Release(p) \in Versions
      BY DEF InstallTypes, Release
    <2> QED BY <2>1, OnItsWay DEF InstallTypes
  <1> QED BY <1>1, <1>2, <1>3, <1>4, <1>5, <1>6, <1>7 DEF InstallTypes

-----------------------------------------------------------------------------
(* What is known of p while others move, and of what p itself leaves alone *)
LEMMA KnownStays ==
  ASSUME NEW p \in Procs, Known(p), user' = user, touched' = touched, job' = job,
         pulled \subseteq pulled', pc'[p] = pc[p], journal'[p] = journal[p], pre'[p] = pre[p], before'[p] = before[p]
  PROVE  Known(p)'
  <1>1. Found(p)'
    BY DEF Known, Found, Release
  <1>2. Reached(p)'
    BY ZenonT(40) DEF Known, Reached, Release, Kept, Waiting
  <1>3. \A a \in Artefacts : Ahead(p, a)'
    BY DEF Known, Ahead, Kept, Waiting
  <1>4. \A a \in OnDisk : a \in touched' \cup journal'[p].unseen \/ FileKnown(p, a)'
    <2>1. \A a \in OnDisk : FileKnown(p, a) => FileKnown(p, a)'
      BY ZenonT(40) DEF FileKnown, Made, Cleared, Back, TakenAway, Still, Away, Changed, Deleted, Dangles, Withdrawn, New, Kept,
             Release, Making, Clearing, BackAt, Taking
    <2> QED BY <2>1 DEF Known
  <1>5. "mcp" \in touched' \cup journal'[p].unseen \/ EntryKnown(p)'
    BY DEF Known, EntryKnown, Added, Removed, Replaceable, Taken, Kept
  <1> QED BY <1>1, <1>2, <1>3, <1>4, <1>5 DEF Known

(* The preflight's findings stay.                                          *)
LEMMA FixedFacts ==
  ASSUME InstallTypes, NEW p \in Procs, Steps(p), pc[p] \in Committed
  PROVE  /\ pre' = pre /\ before' = before /\ touched' = touched /\ pulled' = pulled
         /\ Release(p)' = Release(p)
  <1> USE DEF Committed, Installing, Undoing, Uninstalling, Restoring
  <1>1. job' = job
    BY OnlyItself
  <1>2. ~AcquireLock(p) /\ ~Preflight(p) /\ ~Withdraw(p)
    BY DEF AcquireLock, Preflight, Withdraw
  <1>3. pre' = pre /\ before' = before /\ touched' = touched /\ pulled' = pulled
    BY <1>2 DEF Steps, Installs, Uninstalls, Quiet, Stage, Publish, Verify, ResolveFirst, StepFails, MigrateConfig, EnsureStableBinary, ReplaceMcp, RegisterMcp, LinkSkill, WriteMarker, CleansUp, Prune, UndoFiles, UndoRegister, UndoReplace, UndoStable, UndoConfig, Unregister, TakeSkill, TakeMarker, DeleteMarker, DeleteSkill, Restore, RegisterAgain, Killed
  <1> QED BY <1>1, <1>3 DEF Release

LEMMA FoundStays ==
  ASSUME NEW p \in Procs, Found(p), pre' = pre, before' = before, touched' = touched,
         Release(p)' = Release(p), job' = job
  PROVE  Found(p)'
  BY DEF Found, Release

Untouched(p, b) ==
  /\ user'[b] = user[b] /\ journal'[p].aside[b] = journal[p].aside[b]
  /\ b \in journal'[p].done <=> b \in journal[p].done

LEMMA FileStays ==
  ASSUME NEW p \in Procs, NEW b \in OnDisk, Untouched(p, b),
         before' = before, Release(p)' = Release(p), job' = job, pulled \subseteq pulled',
         "deleted" \in journal'[p].done <=> "deleted" \in journal[p].done,
         journal[p].failed => journal'[p].failed
  PROVE  /\ Still(p, b) => Still(p, b)'
         /\ Kept(p, b) => Kept(p, b)'
         /\ Made(p, b) => Made(p, b)'
         /\ Cleared(p, b) => Cleared(p, b)'
         /\ Back(p, b) => Back(p, b)'
         /\ TakenAway(p, b) => TakenAway(p, b)'
  <1>1. /\ Still(p, b) <=> Still(p, b)'
        /\ Kept(p, b) <=> Kept(p, b)'
        /\ Away(p, b) <=> Away(p, b)'
        /\ Changed(p, b) <=> Changed(p, b)'
        /\ Deleted(p, b) <=> Deleted(p, b)'
        /\ Dangles(p, b) => Dangles(p, b)'
    BY DEF Untouched, Still, Kept, Away, Changed, Deleted, Dangles, Withdrawn, New
  <1> QED BY <1>1 DEF Untouched, Made, Cleared, Back, TakenAway

(* A step that replaces or sets aside one file.                            *)
Changes(p, a) == \/ Replaced(p, a, New(p, a)) \/ Torn(p, a) \/ Late(p, a, New(p, a))

LEMMA OneFile ==
  ASSUME InstallTypes, NEW p \in Procs, NEW a \in OnDisk, Changes(p, a)
  PROVE  /\ \A b \in Artefacts \ {a} : Untouched(p, b)
         /\ \A d \in {"deleted", "removed", "added"} : d \in journal'[p].done <=> d \in journal[p].done
         /\ journal'[p].failed = journal[p].failed
         /\ journal[p].unseen \subseteq journal'[p].unseen
  <1> DEFINE j == journal[p]
  <1>0. j \in Journals /\ a \in Artefacts /\ a # "mcp" /\ user \in [Artefacts -> Values]
    BY DEF InstallTypes, OnDisk
  <1>l. \A n : Log(p, n) => journal'[p] = n
    BY DEF Log, InstallTypes
  <1>1. CASE Replaced(p, a, New(p, a))
    <2>1. user' = [user EXCEPT ![a] = New(p, a)]
          /\ journal'[p] = [j EXCEPT !.done = @ \cup {a}, !.aside[a] = user[a]]
      BY <1>1, <1>l DEF Replaced
    <2> QED BY <1>0, <2>1 DEF Journals, Untouched, Artefacts
  <1>2. CASE Torn(p, a)
    <2>1. user' = [user EXCEPT ![a] = None]
          /\ journal'[p] = [j EXCEPT !.aside[a] = user[a]]
      BY <1>2, <1>l DEF Torn
    <2> QED BY <1>0, <2>1 DEF Journals, Untouched, Artefacts
  <1>3. CASE Late(p, a, New(p, a))
    <2>1. user' = [user EXCEPT ![a] = New(p, a)]
          /\ journal'[p] = [j EXCEPT !.aside[a] = user[a], !.unseen = @ \cup {a}]
      BY <1>3, <1>l DEF Late
    <2> QED BY <1>0, <2>1 DEF Journals, Untouched, Artefacts
  <1> QED BY <1>1, <1>2, <1>3 DEF Changes

(* What the step leaves of its own file.                                   *)
LEMMA ItsFile ==
  ASSUME InstallTypes, NEW p \in Procs, NEW a \in OnDisk, Changes(p, a), Kept(p, a),
         before' = before, Release(p)' = Release(p)
  PROVE  \/ a \in journal'[p].unseen
         \/ Changed(p, a)' /\ a \in journal'[p].done
         \/ Away(p, a)' /\ (a \in journal'[p].done <=> a \in journal[p].done)
  <1> DEFINE j == journal[p]
  <1>0. j \in Journals /\ a \in Artefacts /\ user \in [Artefacts -> Values]
    BY DEF InstallTypes, OnDisk
  <1>l. \A n : Log(p, n) => journal'[p] = n
    BY DEF Log, InstallTypes
  <1>1. CASE Replaced(p, a, New(p, a))
    <2>1. user' = [user EXCEPT ![a] = New(p, a)]
          /\ journal'[p] = [j EXCEPT !.done = @ \cup {a}, !.aside[a] = user[a]]
      BY <1>1, <1>l DEF Replaced
    <2>2. user'[a] = New(p, a) /\ a \in journal'[p].done /\ journal'[p].aside[a] = before[p][a]
      BY <1>0, <2>1 DEF Journals, Kept
    <2>3. New(p, a)' = New(p, a)
      BY DEF New
    <2> QED BY <2>2, <2>3 DEF Changed
  <1>2. CASE Torn(p, a)
    <2>1. user' = [user EXCEPT ![a] = None]
          /\ journal'[p] = [j EXCEPT !.aside[a] = user[a]]
      BY <1>2, <1>l DEF Torn
    <2>2. user'[a] = None /\ journal'[p].done = j.done /\ journal'[p].aside[a] = before[p][a]
      BY <1>0, <2>1 DEF Journals, Kept
    <2> QED BY <2>2 DEF Away
  <1>3. CASE Late(p, a, New(p, a))
    <2>1. journal'[p] = [j EXCEPT !.aside[a] = user[a], !.unseen = @ \cup {a}]
      BY <1>3, <1>l DEF Late
    <2> QED BY <1>0, <2>1 DEF Journals
  <1> QED BY <1>1, <1>2, <1>3 DEF Changes

(* p stays within the groups of states where its files and its entry are   *)
(* known.                                                                  *)
StaysWithin(p) ==
  /\ \A b \in OnDisk : /\ pc'[p] \in Making(b) => pc[p] \in Making(b)
                       /\ pc'[p] \in Clearing(b) => pc[p] \in Clearing(b)
                       /\ pc'[p] \in BackAt(b) => pc[p] \in BackAt(b)
                       /\ pc'[p] \in Taking => pc[p] \in Taking
  /\ pc'[p] \in (Installing \ {"prune"}) \cup {"undo files", "undo register"} =>
       pc[p] \in (Installing \ {"prune"}) \cup {"undo files", "undo register"}
  /\ pc'[p] = "undo replace" => pc[p] = "undo replace"
  /\ pc'[p] \in {"undo stable", "undo config"} => pc[p] \in {"undo stable", "undo config"}
  /\ pc'[p] \in Uninstalling \cup Restoring => pc[p] \in Uninstalling \cup Restoring

Settled(p) ==
  /\ \A a \in OnDisk : a \in touched \cup journal[p].unseen \/ FileKnown(p, a)
  /\ "mcp" \in touched \cup journal[p].unseen \/ EntryKnown(p)

LEMMA EntryStays ==
  ASSUME NEW p \in Procs, EntryKnown(p), StaysWithin(p), user'["mcp"] = user["mcp"],
         \A d \in {"removed", "added"} : d \in journal'[p].done <=> d \in journal[p].done,
         before' = before, journal[p].failed => journal'[p].failed
  PROVE  EntryKnown(p)'
  <1>1. /\ Added(p)' <=> Added(p)
        /\ Removed(p)' <=> Removed(p)
        /\ Replaceable(p)' <=> Replaceable(p)
        /\ Kept(p, "mcp")' <=> Kept(p, "mcp")
    BY DEF Added, Removed, Replaceable, Kept
  <1>2. Taken(p)' <=> Taken(p)
    BY <1>1 DEF Taken
  <1>3. /\ pc'[p] \in (Installing \ {"prune"}) \cup {"undo files", "undo register"} =>
             IF Added(p)' THEN /\ user'["mcp"] = Stable
                         /\ IF Removed(p)' THEN Replaceable(p)' ELSE before'[p]["mcp"] = None
             ELSE Taken(p)'
    BY <1>1, <1>2 DEF EntryKnown, StaysWithin
  <1>4. pc'[p] = "undo replace" => journal'[p].failed \/ Taken(p)'
    BY <1>1, <1>2 DEF EntryKnown, StaysWithin
  <1>5. pc'[p] \in {"undo stable", "undo config"} =>
          journal'[p].failed \/ Kept(p, "mcp")' \/ (Replaceable(p)' /\ user'["mcp"] = Stable)
    BY <1>1, <1>2 DEF EntryKnown, StaysWithin
  <1>6. pc'[p] \in Uninstalling \cup Restoring =>
          IF Removed(p)' THEN user'["mcp"] = None /\ before'[p]["mcp"] \in Versions \cup {Stable}
          ELSE Kept(p, "mcp")'
    BY <1>1, <1>2 DEF EntryKnown, StaysWithin
  <1> QED BY <1>3, <1>4, <1>5, <1>6 DEF EntryKnown

LEMMA FileKnownStays ==
  ASSUME NEW p \in Procs, NEW b \in OnDisk, FileKnown(p, b), StaysWithin(p), Untouched(p, b),
         before' = before, Release(p)' = Release(p), job' = job, pulled \subseteq pulled',
         "deleted" \in journal'[p].done <=> "deleted" \in journal[p].done,
         journal[p].failed => journal'[p].failed
  PROVE  FileKnown(p, b)'
  <1>1. /\ Made(p, b) => Made(p, b)'
        /\ Cleared(p, b) => Cleared(p, b)'
        /\ Back(p, b) => Back(p, b)'
        /\ TakenAway(p, b) => TakenAway(p, b)'
    BY FileStays
  <1>2. Making(b)' = Making(b) /\ Clearing(b)' = Clearing(b) /\ BackAt(b)' = BackAt(b)
    BY DEF Making, Clearing, BackAt
  <1> QED BY <1>1, <1>2 DEF FileKnown, StaysWithin

LEMMA NothingWritten ==
  ASSUME NEW p \in Procs, Settled(p), StaysWithin(p),
         user' = user, journal'[p] = journal[p], before' = before, touched' = touched,
         Release(p)' = Release(p), job' = job, pulled \subseteq pulled'
  PROVE  Settled(p)'
  <1>1. \A b \in OnDisk : Untouched(p, b)
    BY DEF Untouched
  <1>2. \A b \in OnDisk : FileKnown(p, b) => FileKnown(p, b)'
    BY <1>1, FileKnownStays
  <1>3. EntryKnown(p) => EntryKnown(p)'
    BY EntryStays
  <1> QED BY <1>2, <1>3 DEF Settled

(* A step that works on the file it has come to.                           *)
LEMMA FileWorked ==
  ASSUME InstallAssumption, InstallTypes, NEW p \in Procs, NEW a \in OnDisk, Changes(p, a),
         Settled(p), StaysWithin(p), Ahead(p, a), pc[p] \in Waiting(a),
         pc[p] \in Taking => a \in {"skill", "marker"} /\ Torn(p, a),
         before' = before, touched' = touched, Release(p)' = Release(p), job' = job,
         pulled \subseteq pulled'
  PROVE  Settled(p)'
  <1>1. /\ \A b \in Artefacts \ {a} : Untouched(p, b)
        /\ \A d \in {"deleted", "removed", "added"} : d \in journal'[p].done <=> d \in journal[p].done
        /\ journal'[p].failed = journal[p].failed
        /\ journal[p].unseen \subseteq journal'[p].unseen
    BY OneFile
  <1>2. ASSUME NEW b \in OnDisk \ {a}, b \notin touched \cup journal'[p].unseen
        PROVE FileKnown(p, b)'
    <2>1. FileKnown(p, b)
      BY <1>1, <1>2 DEF Settled
    <2> QED BY <1>1, <2>1, FileKnownStays DEF OnDisk
  <1>3. ASSUME a \notin touched \cup journal'[p].unseen
        PROVE FileKnown(p, a)'
    <2>1. FileKnown(p, a) /\ Kept(p, a) /\ a \notin journal[p].done
      BY <1>1, <1>3 DEF Settled, Ahead
    <2>2. \/ Changed(p, a)' /\ a \in journal'[p].done
          \/ Away(p, a)' /\ a \notin journal'[p].done
      BY <1>3, <2>1, ItsFile
    <2>3. Made(p, a)'
      BY <2>2 DEF Made
    <2>4. pc'[p] \notin Clearing(a) /\ pc'[p] \notin BackAt(a)
      BY DEF StaysWithin, Waiting, Clearing, BackAt, OnDisk, Artefacts
    <2>5. pc'[p] \in Taking => TakenAway(p, a)'
      <3>1. SUFFICES ASSUME pc'[p] \in Taking PROVE TakenAway(p, a)'
        OBVIOUS
      <3>2. a \in {"skill", "marker"} /\ Torn(p, a) /\ TakenAway(p, a)
        BY <2>1, <3>1 DEF StaysWithin, FileKnown
      <3>3. ~(a = "marker" /\ "deleted" \in journal[p].done)
        <4>1. Release(p) # None
          BY InstallAssumption DEF InstallAssumption, InstallTypes, Release
        <4> QED BY <2>1, <3>2, <4>1 DEF TakenAway, Deleted, Kept
      <3>4. Away(p, a)'
        <4>1. journal'[p] = [journal[p] EXCEPT !.aside[a] = user[a]]
          BY <3>2 DEF Torn, Log, InstallTypes
        <4>2. journal'[p].done = journal[p].done
          BY <4>1 DEF InstallTypes, Journals
        <4> QED BY <2>1, <2>2, <4>2
      <3> QED BY <1>1, <3>2, <3>3, <3>4 DEF TakenAway
    <2> QED BY <2>3, <2>4, <2>5 DEF FileKnown
  <1>4. ASSUME "mcp" \notin touched \cup journal'[p].unseen
        PROVE EntryKnown(p)'
    <2>1. EntryKnown(p) /\ Untouched(p, "mcp")
      BY <1>1, <1>4 DEF Settled, OnDisk, Artefacts
    <2> QED BY <1>1, <2>1, EntryStays DEF Untouched
  <1> QED BY <1>2, <1>3, <1>4 DEF Settled

(* Once it undoes what it did, only what it settled matters.               *)
LEMMA Undone ==
  ASSUME NEW p \in Procs, pc'[p] \in Undoing \cup Restoring, Found(p)', Settled(p)'
  PROVE  Known(p)'
  <1>1. Reached(p)'
    BY DEF Reached, Undoing, Restoring, Installing, Uninstalling
  <1>2. \A a \in Artefacts : Ahead(p, a)'
    BY DEF Ahead, Waiting, Undoing, Restoring, Artefacts
  <1> QED BY <1>1, <1>2 DEF Known, Settled

LEMMA AheadStays ==
  ASSUME NEW p \in Procs, NEW b, Ahead(p, b), Untouched(p, b), before' = before, touched' = touched,
         pc'[p] \in Waiting(b) => pc[p] \in Waiting(b)
  PROVE  Ahead(p, b)'
  BY DEF Ahead, Untouched, Kept, Waiting

LEMMA NothingAhead ==
  ASSUME NEW p \in Procs, \A b \in Artefacts : Ahead(p, b), user' = user, journal'[p] = journal[p],
         before' = before, touched' = touched,
         \A b \in Artefacts : pc'[p] \in Waiting(b) => pc[p] \in Waiting(b)
  PROVE  \A b \in Artefacts : Ahead(p, b)'
  <1>1. \A b \in Artefacts : Untouched(p, b)
    BY DEF Untouched
  <1> QED BY <1>1, AheadStays

(* What an installation or an uninstallation knows wherever it is.         *)
LEMMA Inner ==
  ASSUME InstallAssumption, InstallInv, NEW p \in Procs, Steps(p), pc[p] \in Committed
  PROVE  /\ InstallTypes /\ Known(p) /\ Found(p) /\ Reached(p) /\ Settled(p)
         /\ \A a \in Artefacts : Ahead(p, a)
         /\ pre' = pre /\ before' = before /\ touched' = touched /\ job' = job
         /\ pulled' = pulled
         /\ Release(p)' = Release(p) /\ Release(p) \in Versions
         /\ Found(p)'
         /\ Resolves(Release(p)) \/ Withdrawn(p)
  <1>1. InstallTypes /\ InOrder /\ Known(p)
    BY DEF InstallInv
  <1>2. Found(p) /\ Reached(p) /\ Settled(p) /\ \A a \in Artefacts : Ahead(p, a)
    BY <1>1 DEF Known, Settled
  <1>3. /\ pre' = pre /\ before' = before /\ touched' = touched /\ job' = job
        /\ pulled' = pulled /\ Release(p)' = Release(p) /\ Release(p) \in Versions
        /\ Resolves(Release(p)) \/ Withdrawn(p)
    BY <1>1, FixedFacts, OnlyItself DEF InOrder, InstallTypes, Release
  <1>4. Found(p)'
    BY <1>2, <1>3, FoundStays
  <1> QED BY <1>1, <1>2, <1>3, <1>4

(* A step that works on a file, or leaves it as it is.                     *)
LEMMA FileStep ==
  ASSUME InstallAssumption, InstallInv, NEW p \in Procs, Steps(p), NEW a \in OnDisk,
         pc[p] \in Committed, pc[p] \in Waiting(a), pc'[p] \notin Waiting(a), StaysWithin(p),
         \/ user' = user /\ journal'[p] = journal[p]
         \/ Changes(p, a) /\ (pc[p] \in Taking => a \in {"skill", "marker"} /\ Torn(p, a)),
         \A b \in Artefacts : pc'[p] \in Waiting(b) => pc[p] \in Waiting(b),
         Reached(p)'
  PROVE  Known(p)'
  <1>1. a \in Artefacts
    BY DEF OnDisk
  <1>2. CASE user' = user /\ journal'[p] = journal[p]
    <2>1. Settled(p)'
      BY <1>2, Inner, NothingWritten
    <2>2. \A b \in Artefacts : Ahead(p, b)'
      BY <1>2, Inner, NothingAhead
    <2> QED BY <2>1, <2>2, Inner DEF Known, Settled
  <1>3. CASE Changes(p, a) /\ (pc[p] \in Taking => a \in {"skill", "marker"} /\ Torn(p, a))
    <2>1. Settled(p)'
      BY <1>1, <1>3, Inner, FileWorked
    <2>2. ASSUME NEW b \in Artefacts PROVE Ahead(p, b)'
      <3>1. CASE b = a
        BY <3>1 DEF Ahead, Waiting
      <3>2. CASE b # a
        <4>1. Untouched(p, b)
          BY <1>3, <3>2, Inner, OneFile
        <4> QED BY <4>1, Inner, AheadStays
      <3> QED BY <3>1, <3>2
    <2> QED BY <2>1, <2>2, Inner DEF Known, Settled
  <1> QED BY <1>2, <1>3

-----------------------------------------------------------------------------
(* The steps of an installation.                                           *)
LEMMA StepFailed ==
  ASSUME InstallAssumption, InstallInv, NEW p \in Procs, StepFails(p)
  PROVE  Known(p)'
  <1>1. /\ pc[p] \in {"config", "stable", "replace", "register", "skill", "marker"}
        /\ user' = user /\ journal'[p] = journal[p]
    BY DEF StepFails
  <1>2. pc'[p] = "undo files"
    BY DEF StepFails, Goto, InstallInv, InstallTypes
  <1>3. pc[p] \in Committed /\ Steps(p)
    BY <1>1 DEF Committed, Installing, Steps, Installs
  <1>4. StaysWithin(p)
    BY <1>1, <1>2 DEF StaysWithin, Making, Clearing, BackAt, Taking, Installing, Undoing, Uninstalling, Restoring
  <1>5. Settled(p)'
    BY <1>1, <1>3, <1>4, Inner, NothingWritten
  <1> QED BY <1>2, <1>3, <1>5, Inner, Undone DEF Undoing


LEMMA ConfigMigrated ==
  ASSUME InstallAssumption, InstallInv, NEW p \in Procs, MigrateConfig(p)
  PROVE  Known(p)'
  <1>g. \A l : Goto(p, l) => pc'[p] = l
    BY DEF Goto, InstallInv, InstallTypes
  <1>a. "config" \in OnDisk /\ "config" \in Artefacts /\ New(p, "config") = "v2"
    BY DEF OnDisk, Artefacts, New
  <1>1. /\ pc[p] = "config"
        /\ \/ ~pre[p].migrate /\ pc'[p] = "stable" /\ user' = user /\ journal'[p] = journal[p]
           \/ pc'[p] = "undo files" /\ user' = user /\ journal'[p] = journal[p]
           \/ Replaced(p, "config", New(p, "config")) /\ pc'[p] = "stable"
           \/ Torn(p, "config") /\ pc'[p] = "undo files"
    BY <1>g, <1>a DEF MigrateConfig
  <1>2. pc[p] \in Committed /\ Steps(p) /\ pc[p] \in Waiting("config") /\ pc'[p] \notin Waiting("config")
        /\ pc[p] \notin Taking
    BY <1>1 DEF Committed, Installing, Steps, Installs, Waiting, Taking, Uninstalling
  <1>3. StaysWithin(p) /\ \A b \in Artefacts : pc'[p] \in Waiting(b) => pc[p] \in Waiting(b)
    BY <1>1 DEF StaysWithin, Making, Clearing, BackAt, Taking, Installing, Undoing, Uninstalling, Restoring,
             Waiting, Artefacts
  <1>4. pc'[p] = "stable" => \A b \in Artefacts \ {"config"} : user'[b] = user[b]
    BY <1>1, <1>a DEF Replaced, InstallInv, InstallTypes
  <1>5. Reached(p)'
    <2>1. CASE pc'[p] = "undo files"
      BY <2>1 DEF Reached, Installing, Uninstalling
    <2>2. CASE pc'[p] = "stable"
      <3>1. "config" \notin touched => user'["config"] # "v1"
        <4>1. CASE ~pre[p].migrate /\ user' = user
          BY <1>a, <1>2, <4>1, Inner DEF Found, Ahead, Kept
        <4>2. CASE Replaced(p, "config", New(p, "config"))
          BY <4>2, <1>a DEF Replaced, InstallInv, InstallTypes
        <4> QED BY <1>1, <2>2, <4>1, <4>2
      <3> QED BY <1>1, <1>2, <1>4, <2>2, <3>1, Inner DEF Reached, Installing, Uninstalling, Waiting, Artefacts
    <2> QED BY <1>1, <2>1, <2>2
  <1>6. \/ user' = user /\ journal'[p] = journal[p]
        \/ Changes(p, "config")
    BY <1>1 DEF Changes
  <1> QED BY <1>a, <1>2, <1>3, <1>5, <1>6, FileStep

LEMMA StableLinked ==
  ASSUME InstallAssumption, InstallInv, NEW p \in Procs, EnsureStableBinary(p)
  PROVE  Known(p)'
  <1>g. \A l : Goto(p, l) => pc'[p] = l
    BY DEF Goto, InstallInv, InstallTypes
  <1>a. "stable" \in OnDisk /\ "stable" \in Artefacts /\ New(p, "stable") = Release(p)
    BY DEF OnDisk, Artefacts, New
  <1>1. /\ pc[p] = "stable"
        /\ \/ user.stable = Release(p) /\ pc'[p] = "replace" /\ user' = user /\ journal'[p] = journal[p]
           \/ pc'[p] = "undo files" /\ user' = user /\ journal'[p] = journal[p]
           \/ Replaced(p, "stable", New(p, "stable")) /\ pc'[p] = "replace"
           \/ Torn(p, "stable") /\ pc'[p] = "undo files"
    BY <1>g, <1>a DEF EnsureStableBinary
  <1>2. pc[p] \in Committed /\ Steps(p) /\ pc[p] \in Waiting("stable") /\ pc'[p] \notin Waiting("stable")
        /\ pc[p] \notin Taking
    BY <1>1 DEF Committed, Installing, Steps, Installs, Waiting, Taking, Uninstalling
  <1>3. StaysWithin(p) /\ \A b \in Artefacts : pc'[p] \in Waiting(b) => pc[p] \in Waiting(b)
    BY <1>1 DEF StaysWithin, Making, Clearing, BackAt, Taking, Installing, Undoing, Uninstalling, Restoring,
             Waiting, Artefacts
  <1>4. pc'[p] = "replace" => \A b \in Artefacts \ {"stable"} : user'[b] = user[b]
    BY <1>1, <1>a DEF Replaced, InstallInv, InstallTypes
  <1>5. Reached(p)'
    <2>1. CASE pc'[p] = "undo files"
      BY <2>1 DEF Reached, Installing, Uninstalling
    <2>2. CASE pc'[p] = "replace"
      <3>1. user'["stable"] = Release(p)
        BY <1>1, <1>a, <2>2 DEF Replaced, InstallInv, InstallTypes
      <3> QED BY <1>1, <1>2, <1>4, <2>2, <3>1, Inner DEF Reached, Installing, Uninstalling, Waiting, Artefacts
    <2> QED BY <1>1, <2>1, <2>2
  <1>6. \/ user' = user /\ journal'[p] = journal[p]
        \/ Changes(p, "stable")
    BY <1>1 DEF Changes
  <1> QED BY <1>a, <1>2, <1>3, <1>5, <1>6, FileStep

LEMMA SkillLinked ==
  ASSUME InstallAssumption, InstallInv, NEW p \in Procs, LinkSkill(p)
  PROVE  Known(p)'
  <1>g. \A l : Goto(p, l) => pc'[p] = l
    BY DEF Goto, InstallInv, InstallTypes
  <1>a. "skill" \in OnDisk /\ "skill" \in Artefacts /\ New(p, "skill") = Release(p)
    BY DEF OnDisk, Artefacts, New
  <1>1. /\ pc[p] = "skill"
        /\ \/ pre[p].skill = "Matching" /\ pc'[p] = "marker" /\ user' = user /\ journal'[p] = journal[p]
           \/ pc'[p] = "undo files" /\ user' = user /\ journal'[p] = journal[p]
           \/ Replaced(p, "skill", New(p, "skill")) /\ pc'[p] = "marker"
           \/ Torn(p, "skill") /\ pc'[p] = "undo files"
    BY <1>g, <1>a DEF LinkSkill
  <1>2. pc[p] \in Committed /\ Steps(p) /\ pc[p] \in Waiting("skill") /\ pc'[p] \notin Waiting("skill")
        /\ pc[p] \notin Taking
    BY <1>1 DEF Committed, Installing, Steps, Installs, Waiting, Taking, Uninstalling
  <1>3. StaysWithin(p) /\ \A b \in Artefacts : pc'[p] \in Waiting(b) => pc[p] \in Waiting(b)
    BY <1>1 DEF StaysWithin, Making, Clearing, BackAt, Taking, Installing, Undoing, Uninstalling, Restoring,
             Waiting, Artefacts
  <1>4. pc'[p] = "marker" => \A b \in Artefacts \ {"skill"} : user'[b] = user[b]
    BY <1>1, <1>a DEF Replaced, InstallInv, InstallTypes
  <1>5. Reached(p)'
    <2>1. CASE pc'[p] = "undo files"
      BY <2>1 DEF Reached, Installing, Uninstalling
    <2>2. CASE pc'[p] = "marker"
      <3>1. "skill" \notin touched => user'["skill"] = Release(p)
        <4>1. CASE pre[p].skill = "Matching" /\ user' = user
          BY <1>a, <1>2, <4>1, Inner DEF Found, Ahead, Kept
        <4>2. CASE Replaced(p, "skill", New(p, "skill"))
          BY <4>2, <1>a DEF Replaced, InstallInv, InstallTypes
        <4> QED BY <1>1, <2>2, <4>1, <4>2
      <3> QED BY <1>1, <1>2, <1>4, <2>2, <3>1, Inner DEF Reached, Installing, Uninstalling, Waiting, Artefacts
    <2> QED BY <1>1, <2>1, <2>2
  <1>6. \/ user' = user /\ journal'[p] = journal[p]
        \/ Changes(p, "skill")
    BY <1>1 DEF Changes
  <1> QED BY <1>a, <1>2, <1>3, <1>5, <1>6, FileStep

LEMMA MarkerWritten ==
  ASSUME InstallAssumption, InstallInv, NEW p \in Procs, WriteMarker(p)
  PROVE  Known(p)'
  <1>g. \A l : Goto(p, l) => pc'[p] = l
    BY DEF Goto, InstallInv, InstallTypes
  <1>a. "marker" \in OnDisk /\ "marker" \in Artefacts /\ New(p, "marker") = Release(p)
    BY DEF OnDisk, Artefacts, New
  <1>1. /\ pc[p] = "marker"
        /\ \/ pre[p].marker = "Matching" /\ pc'[p] = "clean up" /\ user' = user /\ journal'[p] = journal[p]
           \/ pc'[p] = "undo files" /\ user' = user /\ journal'[p] = journal[p]
           \/ Replaced(p, "marker", New(p, "marker")) /\ pc'[p] = "clean up"
           \/ (Torn(p, "marker") \/ Late(p, "marker", New(p, "marker"))) /\ pc'[p] = "undo files"
    BY <1>g, <1>a DEF WriteMarker
  <1>2. pc[p] \in Committed /\ Steps(p) /\ pc[p] \in Waiting("marker") /\ pc'[p] \notin Waiting("marker")
        /\ pc[p] \notin Taking
    BY <1>1 DEF Committed, Installing, Steps, Installs, Waiting, Taking, Uninstalling
  <1>3. StaysWithin(p) /\ \A b \in Artefacts : pc'[p] \in Waiting(b) => pc[p] \in Waiting(b)
    BY <1>1 DEF StaysWithin, Making, Clearing, BackAt, Taking, Installing, Undoing, Uninstalling, Restoring,
             Waiting, Artefacts
  <1>4. pc'[p] = "clean up" => \A b \in Artefacts \ {"marker"} : user'[b] = user[b]
    BY <1>1, <1>a DEF Replaced, InstallInv, InstallTypes
  <1>5. Reached(p)'
    <2>1. CASE pc'[p] = "undo files"
      BY <2>1 DEF Reached, Installing, Uninstalling
    <2>2. CASE pc'[p] = "clean up"
      <3>1. "marker" \notin touched => user'["marker"] = Release(p)
        <4>1. CASE pre[p].marker = "Matching" /\ user' = user
          BY <1>a, <1>2, <4>1, Inner DEF Found, Ahead, Kept
        <4>2. CASE Replaced(p, "marker", New(p, "marker"))
          BY <4>2, <1>a DEF Replaced, InstallInv, InstallTypes
        <4> QED BY <1>1, <2>2, <4>1, <4>2
      <3>2. /\ "config" \notin touched => user["config"] # "v1"
            /\ "stable" \notin touched => user["stable"] = Release(p)
            /\ "mcp" \notin touched => user["mcp"] \in {Stable, Release(p)}
            /\ "skill" \notin touched => user["skill"] = Release(p)
        BY <1>1, <1>2, Inner DEF Reached, Installing, Waiting
      <3>3. \A b \in {"config", "stable", "mcp", "skill"} : user'[b] = user[b]
        BY <1>4, <2>2 DEF Artefacts
      <3>4. Release(p)' = Release(p) /\ touched' = touched
        BY <1>2, Inner
      <3> QED BY <2>2, <3>1, <3>2, <3>3, <3>4 DEF Reached, Installing, Uninstalling, Waiting
    <2> QED BY <1>1, <2>1, <2>2
  <1>6. \/ user' = user /\ journal'[p] = journal[p]
        \/ Changes(p, "marker")
    BY <1>1 DEF Changes
  <1> QED BY <1>a, <1>2, <1>3, <1>5, <1>6, FileStep

-----------------------------------------------------------------------------
(* The steps that run `codex'.                                             *)
LEMMA EntryStep ==
  ASSUME InstallAssumption, InstallInv, NEW p \in Procs, Steps(p), pc[p] \in Committed,
         pc'[p] \notin Waiting("mcp"), StaysWithin(p), \A b \in OnDisk : Untouched(p, b),
         "deleted" \in journal'[p].done <=> "deleted" \in journal[p].done,
         journal[p].failed => journal'[p].failed,
         journal[p].unseen \subseteq journal'[p].unseen,
         \A b \in Artefacts : pc'[p] \in Waiting(b) => pc[p] \in Waiting(b),
         "mcp" \notin touched \cup journal'[p].unseen => EntryKnown(p)',
         Reached(p)'
  PROVE  Known(p)'
  <1>1. ASSUME NEW b \in OnDisk, b \notin touched \cup journal'[p].unseen
        PROVE FileKnown(p, b)'
    <2>1. FileKnown(p, b)
      BY <1>1, Inner DEF Settled
    <2> QED BY <2>1, Inner, FileKnownStays
  <1>2. ASSUME NEW b \in Artefacts PROVE Ahead(p, b)'
    <2>1. CASE b = "mcp"
      BY <2>1 DEF Ahead, Waiting
    <2>2. CASE b # "mcp"
      <3>1. Untouched(p, b)
        BY <2>2 DEF OnDisk
      <3> QED BY <3>1, Inner, AheadStays
    <2> QED BY <2>1, <2>2
  <1>3. touched' = touched
    BY Inner
  <1> QED BY <1>1, <1>2, <1>3, Inner DEF Known

(* `codex' left the entry x; S and U went into the journal.                *)
CodexLeaves(p, x, S, U) ==
  /\ user' = [user EXCEPT !.mcp = x]
  /\ \/ Log(p, [journal[p] EXCEPT !.done = @ \cup S, !.unseen = @ \cup U])
     \/ \E u : Log(p, [journal[p] EXCEPT !.done = @ \cup S, !.unknown = u, !.unseen = @ \cup U])

EntryOnly(p, x, S, U) ==
  /\ \A b \in OnDisk : Untouched(p, b)
  /\ "deleted" \in journal'[p].done <=> "deleted" \in journal[p].done
  /\ journal'[p].failed = journal[p].failed
  /\ journal'[p].unseen = journal[p].unseen \cup U
  /\ journal'[p].done = journal[p].done \cup S
  /\ user'["mcp"] = x

LEMMA CodexRan ==
  ASSUME InstallTypes, NEW p \in Procs, NEW S \in SUBSET {"removed", "added"},
         NEW U \in SUBSET {"mcp"}, NEW x, CodexLeaves(p, x, S, U)
  PROVE  EntryOnly(p, x, S, U)
  <1> DEFINE j == journal[p]
  <1>0. j \in Journals /\ user \in [Artefacts -> Values] /\ "mcp" \in Artefacts
    BY DEF InstallTypes, Artefacts
  <1>1. \/ journal'[p] = [j EXCEPT !.done = @ \cup S, !.unseen = @ \cup U]
        \/ \E u : journal'[p] = [j EXCEPT !.done = @ \cup S, !.unknown = u, !.unseen = @ \cup U]
    BY DEF CodexLeaves, Log, InstallTypes
  <1>2. /\ journal'[p].failed = j.failed /\ journal'[p].unseen = j.unseen \cup U
        /\ journal'[p].done = j.done \cup S /\ journal'[p].aside = j.aside
    BY <1>0, <1>1 DEF Journals
  <1>3. user'["mcp"] = x /\ \A b \in OnDisk : user'[b] = user[b]
    BY <1>0 DEF CodexLeaves, OnDisk
  <1>4. \A b \in OnDisk : b \notin S
    BY DEF OnDisk, Artefacts
  <1> QED BY <1>2, <1>3, <1>4 DEF EntryOnly, Untouched

LEMMA ValuesDiffer ==
  ASSUME InstallAssumption, NEW v \in Versions
  PROVE  v # None /\ v # Stable /\ None # Stable
  BY InstallAssumption DEF InstallAssumption, None, Stable

LEMMA McpReplaced ==
  ASSUME InstallAssumption, InstallInv, NEW p \in Procs, ReplaceMcp(p)
  PROVE  Known(p)'
  <1>g. \A l : Goto(p, l) => pc'[p] = l
    BY DEF Goto, InstallInv, InstallTypes
  <1>1. pc[p] = "replace" /\ pc'[p] \in {"register", "undo files"}
    BY <1>g DEF ReplaceMcp
  <1>2. pc[p] \in Committed /\ Steps(p) /\ pc[p] \in Waiting("mcp") /\ pc'[p] \notin Waiting("mcp")
    BY <1>1 DEF Committed, Installing, Steps, Installs, Waiting
  <1>3. StaysWithin(p) /\ \A b \in Artefacts : pc'[p] \in Waiting(b) => pc[p] \in Waiting(b)
    BY <1>1 DEF StaysWithin, Making, Clearing, BackAt, Taking, Installing, Undoing, Uninstalling, Restoring,
             Waiting, Artefacts
  <1>4. /\ "mcp" \in Artefacts /\ Release(p) \in Versions /\ user.mcp \in Values
        /\ "mcp" \notin touched => Kept(p, "mcp")
        /\ before[p]["mcp"] \in Versions => before[p]["mcp"] # None /\ before[p]["mcp"] # Stable
    BY <1>2, Inner, ValuesDiffer DEF Ahead, Artefacts, InstallInv, InstallTypes
  <1>5. ASSUME pc'[p] = "register" /\ "mcp" \notin touched =>
                 IF pre[p].mcp = "NeedsUpdate" THEN user'["mcp"] = None ELSE Kept(p, "mcp")',
               \A b \in OnDisk : user'[b] = user[b]
        PROVE Reached(p)'
    <2>1. CASE pc'[p] = "undo files"
      BY <2>1 DEF Reached, Installing, Uninstalling
    <2>2. CASE pc'[p] = "register"
      <3>1. /\ "config" \notin touched => user["config"] # "v1"
            /\ "stable" \notin touched => user["stable"] = Release(p)
        BY <1>1, <1>2, Inner DEF Reached, Installing, Waiting
      <3>2. \A b \in {"config", "stable"} : user'[b] = user[b]
        BY <1>5 DEF OnDisk, Artefacts
      <3>3. Release(p)' = Release(p) /\ touched' = touched /\ pre' = pre
        BY <1>2, Inner
      <3> QED BY <1>5, <2>2, <3>1, <3>2, <3>3 DEF Reached, Installing, Uninstalling, Waiting
    <2> QED BY <1>1, <2>1, <2>2
  <1>6. CASE /\ user' = user /\ journal'[p] = journal[p]
             /\ pc'[p] = "register" => pre[p].mcp # "NeedsUpdate"
    <2>0. Kept(p, "mcp") => Kept(p, "mcp")'
      BY <1>2, <1>6, Inner DEF Kept
    <2>1. Reached(p)'
      BY <1>4, <1>5, <1>6, <2>0
    <2>2. Settled(p)' /\ \A b \in Artefacts : Ahead(p, b)'
      BY <1>2, <1>3, <1>6, Inner, NothingWritten, NothingAhead
    <2> QED BY <1>2, <2>1, <2>2, Inner DEF Known, Settled
  <1>7. CASE /\ pre[p].mcp = "NeedsUpdate"
             /\ \E o \in Remove(Release(p)) :
                  /\ user' = [user EXCEPT !.mcp = o[1]]
                  /\ Log(p, [journal[p] EXCEPT
                               !.done = @ \cup IF o[2] \in {"Ok", "Applied"} THEN {"removed"} ELSE {},
                               !.unseen = @ \cup Unseen(o)])
                  /\ pc'[p] = IF o[2] = "Ok" THEN "register" ELSE "undo files"
    <2>1. PICK o \in Remove(Release(p)) :
            /\ user' = [user EXCEPT !.mcp = o[1]]
            /\ Log(p, [journal[p] EXCEPT
                         !.done = @ \cup IF o[2] \in {"Ok", "Applied"} THEN {"removed"} ELSE {},
                         !.unseen = @ \cup Unseen(o)])
            /\ pc'[p] = IF o[2] = "Ok" THEN "register" ELSE "undo files"
      BY <1>7
    <2>2. /\ o[2] \in {"Ok", "Applied"} => o[1] = None
          /\ o[2] = "NotApplied" => o[1] = user.mcp
          /\ o[2] \in {"Ok", "Applied", "NotApplied", "Unknown"}
      BY <1>4, RemoveLeaves
    <2>3. PICK S \in SUBSET {"removed", "added"} : S = IF o[2] \in {"Ok", "Applied"} THEN {"removed"} ELSE {}
      OBVIOUS
    <2>e. Unseen(o) \in SUBSET {"mcp"}
      BY DEF Unseen
    <2>l. CodexLeaves(p, o[1], S, Unseen(o))
      BY <2>1, <2>3 DEF CodexLeaves
    <2>c. EntryOnly(p, o[1], S, Unseen(o))
      BY <2>e, <2>l, CodexRan DEF InstallInv
    <2>4. /\ \A b \in OnDisk : Untouched(p, b)
          /\ "deleted" \in journal'[p].done <=> "deleted" \in journal[p].done
          /\ journal'[p].failed = journal[p].failed
          /\ journal'[p].unseen = journal[p].unseen \cup Unseen(o)
          /\ journal'[p].done = journal[p].done \cup S
          /\ user'["mcp"] = o[1]
      BY <2>c DEF EntryOnly
    <2>5. Reached(p)'
      BY <1>5, <1>7, <2>1, <2>2, <2>4 DEF Untouched
    <2>6. ASSUME "mcp" \notin touched \cup journal'[p].unseen PROVE EntryKnown(p)'
      <3>1. /\ Kept(p, "mcp") /\ EntryKnown(p) /\ o[2] # "Unknown"
            /\ before[p]["mcp"] \in Versions
        BY <1>2, <1>4, <1>7, <2>3, <2>4, <2>6, Inner DEF Settled, Found, Unseen
      <3>2. ~Added(p) /\ ~Removed(p)
        BY <1>1, <1>4, <3>1 DEF EntryKnown, Taken, Kept, Installing
      <3>3. /\ ~Added(p)' /\ before' = before
            /\ Removed(p)' <=> o[2] \in {"Ok", "Applied"}
        BY <1>2, <2>3, <2>4, <3>2, Inner DEF Added, Removed
      <3>4. Taken(p)'
        BY <1>4, <2>2, <2>4, <3>1, <3>3 DEF Taken, Replaceable, Kept
      <3> QED BY <1>1, <3>3, <3>4 DEF EntryKnown, Uninstalling, Restoring
    <2> QED BY <1>2, <1>3, <2>4, <2>5, <2>6, EntryStep
  <1> QED BY <1>6, <1>7, <1>g DEF ReplaceMcp

LEMMA McpRegistered ==
  ASSUME InstallAssumption, InstallInv, NEW p \in Procs, RegisterMcp(p)
  PROVE  Known(p)'
  <1>g. \A l : Goto(p, l) => pc'[p] = l
    BY DEF Goto, InstallInv, InstallTypes
  <1>1. pc[p] = "register" /\ pc'[p] \in {"skill", "undo files"}
    BY <1>g DEF RegisterMcp
  <1>2. pc[p] \in Committed /\ Steps(p) /\ pc'[p] \notin Waiting("mcp")
    BY <1>1 DEF Committed, Installing, Steps, Installs, Waiting
  <1>3. StaysWithin(p) /\ \A b \in Artefacts : pc'[p] \in Waiting(b) => pc[p] \in Waiting(b)
    BY <1>1 DEF StaysWithin, Making, Clearing, BackAt, Taking, Installing, Undoing, Uninstalling, Restoring,
             Waiting, Artefacts
  <1>4. /\ "mcp" \in Artefacts /\ Release(p) \in Versions /\ user.mcp \in Values
        /\ None # Stable
    BY <1>2, Inner, ValuesDiffer DEF Artefacts, InstallInv, InstallTypes
  <1>5. ASSUME pc'[p] = "skill" /\ "mcp" \notin touched => user'["mcp"] \in {Stable, Release(p)},
               \A b \in OnDisk : user'[b] = user[b]
        PROVE Reached(p)'
    <2>1. CASE pc'[p] = "undo files"
      BY <2>1 DEF Reached, Installing, Uninstalling
    <2>2. CASE pc'[p] = "skill"
      <3>1. /\ "config" \notin touched => user["config"] # "v1"
            /\ "stable" \notin touched => user["stable"] = Release(p)
        BY <1>1, <1>2, Inner DEF Reached, Installing, Waiting
      <3>2. \A b \in {"config", "stable"} : user'[b] = user[b]
        BY <1>5 DEF OnDisk, Artefacts
      <3>3. Release(p)' = Release(p) /\ touched' = touched
        BY <1>2, Inner
      <3> QED BY <1>5, <2>2, <3>1, <3>2, <3>3 DEF Reached, Installing, Uninstalling, Waiting
    <2> QED BY <1>1, <2>1, <2>2
  <1>6. CASE /\ user' = user /\ journal'[p] = journal[p]
             /\ pc'[p] = "skill" => pre[p].mcp = "Matching"
    <2>1. "mcp" \notin touched /\ pre[p].mcp = "Matching" => user'["mcp"] \in {Stable, Release(p)}
      <3>1. Found(p) /\ Reached(p)
        BY <1>2, Inner
      <3> QED BY <1>1, <1>6, <3>1 DEF Found, Reached, Kept
    <2>2. Reached(p)'
      BY <1>5, <1>6, <2>1
    <2>3. Settled(p)' /\ \A b \in Artefacts : Ahead(p, b)'
      BY <1>2, <1>3, <1>6, Inner, NothingWritten, NothingAhead
    <2> QED BY <1>2, <2>2, <2>3, Inner DEF Known, Settled
  <1>7. CASE /\ user.mcp = None
             /\ \E o \in Add(Release(p)) :
                  /\ user' = [user EXCEPT !.mcp = o[1]]
                  /\ Log(p, [journal[p] EXCEPT
                               !.done = @ \cup IF o[2] \in {"Ok", "Applied"} THEN {"added"} ELSE {},
                               !.unknown = (o[2] = "Unknown"),
                               !.unseen = @ \cup Unseen(o)])
                  /\ pc'[p] = IF o[2] = "Ok" THEN "skill" ELSE "undo files"
    <2>1. PICK o \in Add(Release(p)) :
            /\ user' = [user EXCEPT !.mcp = o[1]]
            /\ Log(p, [journal[p] EXCEPT
                         !.done = @ \cup IF o[2] \in {"Ok", "Applied"} THEN {"added"} ELSE {},
                         !.unknown = (o[2] = "Unknown"),
                         !.unseen = @ \cup Unseen(o)])
            /\ pc'[p] = IF o[2] = "Ok" THEN "skill" ELSE "undo files"
      BY <1>7
    <2>2. /\ o[2] \in {"Ok", "Applied"} => o[1] = Stable
          /\ o[2] = "NotApplied" => o[1] = user.mcp
          /\ o[2] \in {"Ok", "Applied", "NotApplied", "Unknown"}
      BY <1>4, <1>7, AddLeaves
    <2>3. PICK S \in SUBSET {"removed", "added"} : S = IF o[2] \in {"Ok", "Applied"} THEN {"added"} ELSE {}
      OBVIOUS
    <2>e. Unseen(o) \in SUBSET {"mcp"}
      BY DEF Unseen
    <2>l. CodexLeaves(p, o[1], S, Unseen(o))
      BY <2>1, <2>3 DEF CodexLeaves
    <2>c. EntryOnly(p, o[1], S, Unseen(o))
      BY <2>e, <2>l, CodexRan DEF InstallInv
    <2>4. /\ \A b \in OnDisk : Untouched(p, b)
          /\ "deleted" \in journal'[p].done <=> "deleted" \in journal[p].done
          /\ journal'[p].failed = journal[p].failed
          /\ journal'[p].unseen = journal[p].unseen \cup Unseen(o)
          /\ journal'[p].done = journal[p].done \cup S
          /\ user'["mcp"] = o[1]
      BY <2>c DEF EntryOnly
    <2>5. Reached(p)'
      BY <1>5, <2>1, <2>2, <2>4 DEF Untouched
    <2>6. ASSUME "mcp" \notin touched \cup journal'[p].unseen PROVE EntryKnown(p)'
      <3>1. EntryKnown(p) /\ o[2] # "Unknown" /\ before' = before
        BY <1>2, <2>4, <2>6, Inner DEF Settled, Unseen
      <3>2. ~Added(p) /\ Taken(p)
        BY <1>1, <1>4, <1>7, <3>1 DEF EntryKnown, Installing
      <3>3. /\ Added(p)' <=> o[2] \in {"Ok", "Applied"}
            /\ Removed(p)' <=> Removed(p)
            /\ Replaceable(p)' <=> Replaceable(p)
        BY <2>3, <2>4, <3>1, <3>2 DEF Added, Removed, Replaceable
      <3>4. CASE o[2] \in {"Ok", "Applied"}
        <4>1. user'["mcp"] = Stable /\ IF Removed(p)' THEN Replaceable(p)' ELSE before'[p]["mcp"] = None
          BY <1>7, <2>2, <2>4, <3>1, <3>2, <3>3, <3>4 DEF Taken, Kept
        <4> QED BY <1>1, <3>3, <3>4, <4>1 DEF EntryKnown, Uninstalling, Restoring
      <3>5. CASE o[2] = "NotApplied"
        <4>1. Taken(p)'
          BY <2>2, <2>4, <3>1, <3>2, <3>3, <3>5 DEF Taken, Kept
        <4> QED BY <1>1, <3>3, <3>5, <4>1 DEF EntryKnown, Uninstalling, Restoring
      <3> QED BY <2>2, <3>1, <3>4, <3>5
    <2> QED BY <1>2, <1>3, <2>4, <2>5, <2>6, EntryStep
  <1> QED BY <1>6, <1>7, <1>g DEF RegisterMcp

LEMMA Unregistered ==
  ASSUME InstallAssumption, InstallInv, NEW p \in Procs, Unregister(p)
  PROVE  Known(p)'
  <1>g. \A l : Goto(p, l) => pc'[p] = l
    BY DEF Goto, InstallInv, InstallTypes
  <1>1. pc[p] = "unregister" /\ pc'[p] \in {"take skill", "restore"}
    BY <1>g DEF Unregister
  <1>2. pc[p] \in Committed /\ Steps(p) /\ pc[p] \in Waiting("mcp") /\ pc'[p] \notin Waiting("mcp")
    BY <1>1 DEF Committed, Uninstalling, Steps, Uninstalls, Waiting
  <1>3. StaysWithin(p) /\ \A b \in Artefacts : pc'[p] \in Waiting(b) => pc[p] \in Waiting(b)
    BY <1>1 DEF StaysWithin, Making, Clearing, BackAt, Taking, Installing, Undoing, Uninstalling, Restoring,
             Waiting, Artefacts
  <1>4. /\ "mcp" \in Artefacts /\ Release(p) \in Versions /\ user.mcp \in Values
        /\ "mcp" \notin touched => Kept(p, "mcp")
        /\ None # Stable /\ Stable \notin Versions /\ None \notin Versions
    BY <1>2, Inner, ValuesDiffer DEF Ahead, Artefacts, InstallInv, InstallTypes
  <1>5. ASSUME pc'[p] = "take skill" /\ "mcp" \notin touched => user'["mcp"] \notin {Stable, Release(p)}
        PROVE Reached(p)'
    <2>1. CASE pc'[p] = "restore"
      BY <2>1 DEF Reached, Installing, Uninstalling
    <2>2. CASE pc'[p] = "take skill"
      <3>3. Release(p)' = Release(p) /\ touched' = touched
        BY <1>2, Inner
      <3> QED BY <1>5, <2>2, <3>3 DEF Reached, Installing, Uninstalling, Waiting
    <2> QED BY <1>1, <2>1, <2>2
  <1>6. CASE /\ user' = user /\ journal'[p] = journal[p]
             /\ pc'[p] = "take skill" => pre[p].mcp # "Matching"
    <2>1. "mcp" \notin touched /\ pre[p].mcp # "Matching" => user'["mcp"] \notin {Stable, Release(p)}
      <3>1. Found(p) /\ pre[p].mcp \in Findings
        BY <1>2, Inner DEF InstallInv, InstallTypes, Preflights
      <3>2. "mcp" \notin touched /\ pre[p].mcp # "Matching" =>
              before[p]["mcp"] = None \/ before[p]["mcp"] \in Versions \ {Release(p)}
        BY <3>1 DEF Found, Findings
      <3>3. \A x : x = None \/ x \in Versions \ {Release(p)} => x \notin {Stable, Release(p)}
        BY <1>4
      <3> QED BY <1>4, <1>6, <3>2, <3>3 DEF Kept
    <2>2. Reached(p)'
      BY <1>5, <1>6, <2>1
    <2>3. Settled(p)' /\ \A b \in Artefacts : Ahead(p, b)'
      BY <1>2, <1>3, <1>6, Inner, NothingWritten, NothingAhead
    <2> QED BY <1>2, <2>2, <2>3, Inner DEF Known, Settled
  <1>7. CASE /\ pre[p].mcp = "Matching"
             /\ \E o \in Remove(Release(p)) :
                  /\ user' = [user EXCEPT !.mcp = o[1]]
                  /\ Log(p, [journal[p] EXCEPT
                               !.done = @ \cup IF o[2] \in {"Ok", "Applied"} THEN {"removed"} ELSE {},
                               !.unknown = (o[2] = "Unknown"),
                               !.unseen = @ \cup Unseen(o)])
                  /\ pc'[p] = IF o[2] = "Ok" THEN "take skill" ELSE "restore"
    <2>1. PICK o \in Remove(Release(p)) :
            /\ user' = [user EXCEPT !.mcp = o[1]]
            /\ Log(p, [journal[p] EXCEPT
                         !.done = @ \cup IF o[2] \in {"Ok", "Applied"} THEN {"removed"} ELSE {},
                         !.unknown = (o[2] = "Unknown"),
                         !.unseen = @ \cup Unseen(o)])
            /\ pc'[p] = IF o[2] = "Ok" THEN "take skill" ELSE "restore"
      BY <1>7
    <2>2. /\ o[2] \in {"Ok", "Applied"} => o[1] = None
          /\ o[2] = "NotApplied" => o[1] = user.mcp
          /\ o[2] \in {"Ok", "Applied", "NotApplied", "Unknown"}
      BY <1>4, RemoveLeaves
    <2>3. PICK S \in SUBSET {"removed", "added"} : S = IF o[2] \in {"Ok", "Applied"} THEN {"removed"} ELSE {}
      OBVIOUS
    <2>e. Unseen(o) \in SUBSET {"mcp"}
      BY DEF Unseen
    <2>l. CodexLeaves(p, o[1], S, Unseen(o))
      BY <2>1, <2>3 DEF CodexLeaves
    <2>c. EntryOnly(p, o[1], S, Unseen(o))
      BY <2>e, <2>l, CodexRan DEF InstallInv
    <2>4. /\ \A b \in OnDisk : Untouched(p, b)
          /\ "deleted" \in journal'[p].done <=> "deleted" \in journal[p].done
          /\ journal'[p].failed = journal[p].failed
          /\ journal'[p].unseen = journal[p].unseen \cup Unseen(o)
          /\ journal'[p].done = journal[p].done \cup S
          /\ user'["mcp"] = o[1]
      BY <2>c DEF EntryOnly
    <2>5. Reached(p)'
      <3>1. None \notin {Stable, Release(p)}
        BY <1>4
      <3>2. pc'[p] = "take skill" => user'["mcp"] = None
        BY <2>1, <2>2, <2>4
      <3> QED BY <1>5, <3>1, <3>2
    <2>6. ASSUME "mcp" \notin touched \cup journal'[p].unseen PROVE EntryKnown(p)'
      <3>1. /\ Kept(p, "mcp") /\ EntryKnown(p) /\ o[2] # "Unknown" /\ before' = before
            /\ before[p]["mcp"] \in Versions \cup {Stable}
        BY <1>2, <1>4, <1>7, <2>4, <2>6, Inner DEF Settled, Found, Unseen
      <3>2. ~Removed(p)
        BY <1>1, <1>4, <3>1 DEF EntryKnown, Kept, Uninstalling
      <3>3. Removed(p)' <=> o[2] \in {"Ok", "Applied"}
        BY <2>3, <2>4, <3>2 DEF Removed
      <3>4. IF Removed(p)' THEN user'["mcp"] = None /\ before'[p]["mcp"] \in Versions \cup {Stable}
            ELSE Kept(p, "mcp")'
        BY <2>2, <2>4, <3>1, <3>3 DEF Kept
      <3> QED BY <1>1, <3>4 DEF EntryKnown, Installing
    <2> QED BY <1>2, <1>3, <2>4, <2>5, <2>6, EntryStep
  <1> QED BY <1>6, <1>7, <1>g DEF Unregister

-----------------------------------------------------------------------------
(* The steps of an uninstallation.                                         *)
LEMMA SkillTaken ==
  ASSUME InstallAssumption, InstallInv, NEW p \in Procs, TakeSkill(p)
  PROVE  Known(p)'
  <1>g. \A l : Goto(p, l) => pc'[p] = l
    BY DEF Goto, InstallInv, InstallTypes
  <1>1. /\ pc[p] = "take skill"
        /\ \/ pre[p].skill # "Matching" /\ pc'[p] = "take marker" /\ user' = user /\ journal'[p] = journal[p]
           \/ pc'[p] = "restore" /\ user' = user /\ journal'[p] = journal[p]
           \/ Torn(p, "skill") /\ pc'[p] = "take marker"
    BY <1>g DEF TakeSkill
  <1>2. /\ pc[p] \in Committed /\ Steps(p) /\ pc[p] \in Waiting("skill") /\ pc'[p] \notin Waiting("skill")
        /\ "skill" \in OnDisk /\ "skill" \in Artefacts
    BY <1>1 DEF Committed, Uninstalling, Steps, Uninstalls, Waiting, OnDisk, Artefacts
  <1>3. StaysWithin(p) /\ \A b \in Artefacts : pc'[p] \in Waiting(b) => pc[p] \in Waiting(b)
    BY <1>1 DEF StaysWithin, Making, Clearing, BackAt, Taking, Installing, Undoing, Uninstalling, Restoring,
             Waiting, Artefacts
  <1>4. pc'[p] = "take marker" => /\ user'["mcp"] = user["mcp"]
                                  /\ "skill" \notin touched => user'["skill"] # Release(p)
    <2>1. CASE pre[p].skill # "Matching" /\ user' = user
      BY <1>2, <2>1, Inner, ZenonT(40) DEF Found, Ahead, Kept
    <2>2. CASE Torn(p, "skill")
      <3>1. user'["skill"] = None /\ user'["mcp"] = user["mcp"]
        BY <2>2 DEF Torn, InstallInv, InstallTypes, Artefacts
      <3> QED BY <1>2, <3>1, Inner, ValuesDiffer
    <2> QED BY <1>1, <2>1, <2>2
  <1>5. Reached(p)'
    <2>1. CASE pc'[p] = "restore"
      BY <2>1 DEF Reached, Installing, Uninstalling
    <2>2. CASE pc'[p] = "take marker"
      <3>1. "mcp" \notin touched => user["mcp"] \notin {Stable, Release(p)}
        BY <1>1, <1>2, Inner DEF Reached, Uninstalling, Waiting
      <3>2. Release(p)' = Release(p) /\ touched' = touched
        BY <1>2, Inner
      <3> QED BY <1>4, <2>2, <3>1, <3>2 DEF Reached, Installing, Uninstalling, Waiting
    <2> QED BY <1>1, <2>1, <2>2
  <1>6. \/ user' = user /\ journal'[p] = journal[p]
        \/ Changes(p, "skill") /\ Torn(p, "skill")
    BY <1>1 DEF Changes
  <1> QED BY <1>2, <1>3, <1>5, <1>6, FileStep

LEMMA MarkerTaken ==
  ASSUME InstallAssumption, InstallInv, NEW p \in Procs, TakeMarker(p)
  PROVE  Known(p)'
  <1>g. \A l : Goto(p, l) => pc'[p] = l
    BY DEF Goto, InstallInv, InstallTypes
  <1>1. /\ pc[p] = "take marker"
        /\ \/ pc'[p] = "restore" /\ user' = user /\ journal'[p] = journal[p]
           \/ Torn(p, "marker") /\ pc'[p] = "delete marker"
    BY <1>g DEF TakeMarker
  <1>2. /\ pc[p] \in Committed /\ Steps(p) /\ pc[p] \in Waiting("marker") /\ pc'[p] \notin Waiting("marker")
        /\ "marker" \in OnDisk /\ "marker" \in Artefacts
    BY <1>1 DEF Committed, Uninstalling, Steps, Uninstalls, Waiting, OnDisk, Artefacts
  <1>3. StaysWithin(p) /\ \A b \in Artefacts : pc'[p] \in Waiting(b) => pc[p] \in Waiting(b)
    BY <1>1 DEF StaysWithin, Making, Clearing, BackAt, Taking, Installing, Undoing, Uninstalling, Restoring,
             Waiting, Artefacts
  <1>4. Reached(p)'
    <2>1. CASE pc'[p] = "restore"
      BY <2>1 DEF Reached, Installing, Uninstalling
    <2>2. CASE Torn(p, "marker") /\ pc'[p] = "delete marker"
      <3>1. user'["marker"] = None /\ user'["mcp"] = user["mcp"] /\ user'["skill"] = user["skill"]
        BY <2>2 DEF Torn, InstallInv, InstallTypes, Artefacts
      <3>2. /\ "mcp" \notin touched => user["mcp"] \notin {Stable, Release(p)}
            /\ "skill" \notin touched => user["skill"] # Release(p)
        BY <1>1, <1>2, Inner DEF Reached, Uninstalling, Waiting
      <3>3. Release(p)' = Release(p) /\ touched' = touched
        BY <1>2, Inner
      <3> QED BY <2>2, <3>1, <3>2, <3>3 DEF Reached, Installing, Uninstalling, Waiting
    <2> QED BY <1>1, <2>1, <2>2
  <1>5. \/ user' = user /\ journal'[p] = journal[p]
        \/ Changes(p, "marker") /\ Torn(p, "marker")
    BY <1>1 DEF Changes
  <1> QED BY <1>2, <1>3, <1>4, <1>5, FileStep

(* A step that fails before it deletes anything leads to the rollback.     *)
LEMMA TurnsBack ==
  ASSUME InstallAssumption, InstallInv, NEW p \in Procs, Steps(p), pc[p] \in Uninstalling,
         pc'[p] = "restore", user' = user, journal'[p] = journal[p]
  PROVE  Known(p)'
  <1>1. pc[p] \in Committed
    BY DEF Committed
  <1>2. StaysWithin(p)
    BY DEF StaysWithin, Making, Clearing, BackAt, Taking, Installing, Undoing, Uninstalling, Restoring
  <1>3. Settled(p)'
    BY <1>1, <1>2, Inner, NothingWritten
  <1> QED BY <1>1, <1>3, Inner, Undone DEF Restoring

LEMMA MarkerDeleted ==
  ASSUME InstallAssumption, InstallInv, NEW p \in Procs, DeleteMarker(p)
  PROVE  Known(p)'
  <1> DEFINE j == journal[p]
  <1>g. \A l : Goto(p, l) => pc'[p] = l
    BY DEF Goto, InstallInv, InstallTypes
  <1>0. /\ pc[p] = "delete marker" /\ user' = user
        /\ pc[p] \in Committed /\ pc[p] \in Uninstalling /\ Steps(p)
    BY DEF DeleteMarker, Committed, Uninstalling, Steps, Uninstalls
  <1>1. CASE pc'[p] = "restore" /\ journal'[p] = journal[p]
    BY <1>0, <1>1, TurnsBack
  <1>2. CASE /\ pc'[p] = "delete skill"
             /\ Log(p, [j EXCEPT !.aside["marker"] = None, !.done = @ \cup {"deleted"}])
    <2>1. j \in Journals
      BY DEF InstallInv, InstallTypes
    <2>2. journal'[p] = [j EXCEPT !.aside["marker"] = None, !.done = @ \cup {"deleted"}]
      BY <1>2 DEF Log, InstallInv, InstallTypes
    <2>3. /\ journal'[p].done = j.done \cup {"deleted"} /\ journal'[p].unseen = j.unseen
          /\ journal'[p].aside["marker"] = None
          /\ \A b \in Artefacts : b # "marker" => journal'[p].aside[b] = j.aside[b]
      BY <2>1, <2>2 DEF Journals, Artefacts
    <2>4. /\ before' = before /\ touched' = touched /\ Release(p)' = Release(p) /\ Found(p) /\ Found(p)'
          /\ Settled(p) /\ Reached(p)
      BY <1>0, Inner
    <2>5. Reached(p)'
      BY <1>0, <1>2, <2>4 DEF Reached, Installing, Uninstalling, Waiting
    <2>6. \A b \in Artefacts : Ahead(p, b)'
      BY <1>2 DEF Ahead, Waiting, Artefacts
    <2>7. ASSUME NEW b \in OnDisk, b \notin touched \cup j.unseen PROVE FileKnown(p, b)'
      <3>1. TakenAway(p, b)
        BY <1>0, <2>4, <2>7 DEF Settled, FileKnown, Taking
      <3>2. CASE b = "marker"
        <4>1. user["marker"] = None
          BY <1>0, <2>4, <2>7, <3>2 DEF Reached, Uninstalling, Waiting
        <4>2. before[p]["marker"] = Release(p)
          <5>1. job[p].op = "uninstall"
            BY <1>0 DEF InstallInv, InOrder
          <5> QED BY <2>4, <2>7, <3>2, <5>1 DEF Found
        <4>3. Deleted(p, "marker")'
          BY <1>0, <2>3, <2>4, <4>1, <4>2 DEF Deleted
        <4> QED BY <1>2, <2>3, <3>2, <4>3 DEF FileKnown, TakenAway, Making, Clearing, BackAt, Taking,
                 Installing, Undoing, Uninstalling
      <3>3. CASE b # "marker"
        <4>1. /\ Still(p, b)' <=> Still(p, b)
              /\ Away(p, b)' <=> Away(p, b)
          BY <1>0, <2>3, <2>4, <3>3 DEF Still, Away, Kept, OnDisk
        <4>2. TakenAway(p, b)'
          BY <3>1, <3>3, <4>1 DEF TakenAway
        <4> QED BY <1>2, <4>2 DEF FileKnown, Making, Clearing, BackAt, Taking, Installing, Undoing, Uninstalling
      <3> QED BY <3>2, <3>3
    <2>8. ASSUME "mcp" \notin touched \cup j.unseen PROVE EntryKnown(p)'
      <3>1. EntryKnown(p)
        BY <2>4, <2>8 DEF Settled
      <3>2. /\ Removed(p)' <=> Removed(p)
            /\ Kept(p, "mcp")' <=> Kept(p, "mcp")
        BY <1>0, <2>3, <2>4 DEF Removed, Kept
      <3> QED BY <1>0, <1>2, <2>4, <3>1, <3>2 DEF EntryKnown, Installing, Uninstalling, Restoring
    <2> QED BY <2>3, <2>4, <2>5, <2>6, <2>7, <2>8 DEF Known
  <1> QED BY <1>1, <1>2, <1>g DEF DeleteMarker

LEMMA SkillNotDeleted ==
  ASSUME InstallAssumption, InstallInv, NEW p \in Procs, DeleteSkill(p), pc'[p] \in Committed
  PROVE  Known(p)'
  <1>g. /\ \A l : Goto(p, l) => pc'[p] = l
        /\ \A r : Finish(p, r) => pc'[p] = r
    BY DEF Goto, Finish, InstallInv, InstallTypes
  <1>1. pc'[p] # "ok"
    BY DEF Committed, Installing, Undoing, Uninstalling, Restoring
  <1>2. pc'[p] = "restore" /\ user' = user /\ journal'[p] = journal[p] /\ pc[p] = "delete skill"
    BY <1>g, <1>1 DEF DeleteSkill
  <1>3. Steps(p) /\ pc[p] \in Uninstalling
    BY <1>2 DEF Steps, Uninstalls, Uninstalling
  <1> QED BY <1>2, <1>3, TurnsBack

-----------------------------------------------------------------------------
(* The preflight, and the deletion of what was set aside.                  *)
LEMMA Preflown ==
  ASSUME InstallAssumption, InstallInv, NEW p \in Procs, Preflight(p), pc'[p] \in Committed
  PROVE  Known(p)'
  <1>g. /\ \A l : Goto(p, l) => pc'[p] = l
        /\ \A r : Finish(p, r) => pc'[p] = r
    BY DEF Goto, Finish, InstallInv, InstallTypes
  <1>1. pc'[p] # "error"
    BY DEF Committed, Installing, Undoing, Uninstalling, Restoring
  <1>2. /\ pc[p] = "preflight" /\ Accepts(p)
        /\ pre' = [pre EXCEPT ![p] = [mcp |-> McpOf(Release(p), user.mcp),
                                      skill |-> SkillOf(Release(p)),
                                      marker |-> MarkerOf(Release(p)), migrate |-> Migrates]]
        /\ pc'[p] = (IF job[p].op = "install" THEN "config" ELSE "unregister")
        /\ user' = user /\ journal' = journal /\ before' = before /\ touched' = touched
        /\ job' = job /\ Release(p)' = Release(p)
    BY <1>g, <1>1 DEF Preflight, Release
  <1>3. /\ journal[p] = NoJournal
        /\ \A a \in Artefacts \ touched : Kept(p, a)
        /\ Release(p) \in Versions /\ user.mcp \in Values
        /\ job[p].op \in {"install", "uninstall"}
    BY <1>2 DEF InstallInv, InOrder, Entered, InstallTypes, Release, Artefacts
  <1>4. /\ pre'[p].mcp = McpOf(Release(p), user.mcp) /\ pre'[p].skill = SkillOf(Release(p))
        /\ pre'[p].marker = MarkerOf(Release(p)) /\ pre'[p].migrate = Migrates
    BY <1>2 DEF InstallInv, InstallTypes
  <1>5. Found(p)'
    <2>1. /\ SkillOf(Release(p)) # "Refused" /\ McpOf(Release(p), user.mcp) # "Refused"
          /\ MarkerOf(Release(p)) # "Refused" /\ Resolves(Release(p))
          /\ job[p].op = "uninstall" => MarkerOf(Release(p)) = "Matching"
      BY <1>2, <1>3 DEF Accepts
    <2>2. \A a \in Artefacts \ touched : user[a] = before[p][a]
      BY <1>3 DEF Kept
    <2>3. "mcp" \notin touched =>
            /\ pre'[p].mcp = "Absent" => before[p]["mcp"] = None
            /\ pre'[p].mcp = "Matching" => before[p]["mcp"] \in {Stable, Release(p)}
            /\ pre'[p].mcp = "NeedsUpdate" => before[p]["mcp"] \in Versions \ {Release(p)}
      BY <1>3, <1>4, <2>2, McpSeen DEF Artefacts
    <2>4. "skill" \notin touched => (pre'[p].skill = "Matching" <=> before[p]["skill"] = Release(p))
      BY <1>3, <1>4, <2>1, <2>2, SkillSeen DEF Artefacts
    <2>5. "marker" \notin touched => (pre'[p].marker = "Matching" <=> before[p]["marker"] = Release(p))
      BY <1>3, <1>4, <2>2, MarkerSeen DEF Artefacts
    <2>6. "config" \notin touched => (pre'[p].migrate <=> before[p]["config"] = "v1")
      BY <1>4, <2>2 DEF Artefacts, Migrates
    <2> QED BY <1>2, <1>4, <2>1, <2>3, <2>4, <2>5, <2>6 DEF Found
  <1>6. Reached(p)'
    BY <1>2 DEF Reached, Installing, Uninstalling, Waiting
  <1>7. ASSUME NEW a \in Artefacts PROVE Ahead(p, a)'
    <2>1. a \notin journal'[p].done
      BY <1>2, <1>3 DEF NoJournal
    <2> QED BY <1>2, <1>3, <2>1 DEF Ahead, Kept
  <1>8. ASSUME NEW a \in OnDisk, a \notin touched PROVE FileKnown(p, a)'
    <2>1. Still(p, a)'
      BY <1>2, <1>3, <1>8 DEF Still, Kept, NoJournal, OnDisk
    <2>2. \A d : d \notin journal'[p].done
      BY <1>2, <1>3 DEF NoJournal
    <2>3. Made(p, a)' /\ TakenAway(p, a)'
      BY <2>1, <2>2 DEF Made, TakenAway
    <2> QED BY <1>2, <2>3 DEF FileKnown, Clearing, BackAt
  <1>9. ASSUME "mcp" \notin touched PROVE EntryKnown(p)'
    <2>1. Kept(p, "mcp")'
      BY <1>2, <1>3, <1>9 DEF Kept, Artefacts
    <2>2. ~Added(p)' /\ ~Removed(p)'
      BY <1>2, <1>3 DEF NoJournal, Added, Removed
    <2> QED BY <1>2, <2>1, <2>2 DEF EntryKnown, Taken
  <1> QED BY <1>2, <1>5, <1>6, <1>7, <1>8, <1>9 DEF Known

LEMMA CleanedUp ==
  ASSUME InstallAssumption, InstallInv, NEW p \in Procs, CleansUp(p), pc'[p] \in Committed
  PROVE  Known(p)'
  <1>g. /\ \A l : Goto(p, l) => pc'[p] = l
        /\ \A r : Finish(p, r) => pc'[p] = r
    BY DEF Goto, Finish, InstallInv, InstallTypes
  <1>1. pc'[p] # "error"
    BY DEF Committed, Installing, Undoing, Uninstalling, Restoring
  <1>2. pc[p] = "clean up" /\ pc'[p] = "prune" /\ user' = user
    BY <1>g, <1>1 DEF CleansUp
  <1>3. Steps(p) /\ pc[p] \in Committed
    BY <1>2 DEF Steps, Installs, Committed, Installing
  <1>4. Reached(p)'
    BY <1>2, <1>3, Inner DEF Reached, Installing, Uninstalling, Waiting
  <1>5. \A a \in Artefacts : Ahead(p, a)'
    BY <1>2 DEF Ahead, Waiting, Artefacts
  <1>6. \A a \in OnDisk : FileKnown(p, a)'
    BY <1>2 DEF FileKnown, Making, Clearing, BackAt, Taking, Installing, Undoing, Uninstalling, OnDisk, Artefacts
  <1>7. EntryKnown(p)'
    BY <1>2 DEF EntryKnown, Installing, Uninstalling, Restoring
  <1> QED BY <1>3, <1>4, <1>5, <1>6, <1>7, Inner DEF Known

-----------------------------------------------------------------------------
(* The rollback of an installation.                                        *)
Marks(p, f) == Log(p, [journal[p] EXCEPT !.failed = f])

LEMMA Marked ==
  ASSUME InstallTypes, NEW p \in Procs, NEW f, Marks(p, f)
  PROVE  /\ journal'[p].failed = f /\ journal'[p].done = journal[p].done
         /\ journal'[p].aside = journal[p].aside /\ journal'[p].unseen = journal[p].unseen
  <1>1. journal[p] \in Journals /\ journal'[p] = [journal[p] EXCEPT !.failed = f]
    BY DEF Marks, Log, InstallTypes
  <1> QED BY <1>1 DEF Journals

LEMMA FilesUndone ==
  ASSUME InstallAssumption, InstallInv, NEW p \in Procs, UndoFiles(p)
  PROVE  Known(p)'
  <1> DEFINE j == journal[p]
             ours == (IF "marker" \in j.done /\ MarkerOf(Release(p)) = "Matching" THEN {"marker"} ELSE {})
                     \cup (IF "skill" \in j.done /\ SkillOf(Release(p)) = "Matching" THEN {"skill"} ELSE {})
  <1>1. pc[p] = "undo files" /\ pc'[p] = "undo register"
    BY DEF UndoFiles, Goto, InstallInv, InstallTypes
  <1>2. Steps(p) /\ pc[p] \in Committed
    BY <1>1 DEF Steps, Installs, Committed, Undoing
  <1>3. /\ before' = before /\ touched' = touched /\ Release(p)' = Release(p) /\ Found(p)'
        /\ Settled(p) /\ Release(p) \in Versions
    BY <1>2, Inner
  <1>11. job' = job /\ pulled' = pulled /\ job[p].op = "install"
    BY <1>1, <1>2, Inner DEF InstallInv, InOrder, Undoing
  <1>12. Resolves(Release(p)) \/ Withdrawn(p)
    BY <1>2, Inner
  <1>4. PICK bad \in OneFails :
          /\ user' = [a \in Artefacts |-> IF a \in ours \ bad THEN None ELSE user[a]]
          /\ Log(p, [j EXCEPT !.failed = @ \/ bad # {}])
    BY DEF UndoFiles
  <1>5. PICK f \in BOOLEAN : Marks(p, f) /\ (f <=> j.failed \/ bad # {})
    BY <1>4 DEF Marks
  <1>6. /\ journal'[p].failed = f /\ journal'[p].done = j.done
        /\ journal'[p].aside = j.aside /\ journal'[p].unseen = j.unseen
    BY <1>5, Marked DEF InstallInv
  <1>7. ASSUME NEW b \in {"config", "stable"}, b \notin touched \cup j.unseen PROVE FileKnown(p, b)'
    <2>1. FileKnown(p, b) /\ b \in OnDisk /\ b \in Artefacts /\ b \notin ours
      BY <1>3, <1>7 DEF Settled, OnDisk, Artefacts
    <2>2. Made(p, b)
      BY <1>1, <2>1 DEF FileKnown, Making
    <2>3. Untouched(p, b)
      BY <1>4, <1>6, <2>1 DEF Untouched
    <2>4. Made(p, b)'
      BY <1>3, <1>5, <1>6, <1>11, <2>1, <2>2, <2>3, FileStays
    <2> QED BY <1>1, <1>7, <2>4 DEF FileKnown, Clearing, BackAt, Taking, Uninstalling
  <1>8. ASSUME NEW b \in {"skill", "marker"}, b \notin touched \cup j.unseen PROVE FileKnown(p, b)'
    <2>1. FileKnown(p, b) /\ b \in OnDisk /\ b \in Artefacts
      BY <1>3, <1>8 DEF Settled, OnDisk, Artefacts
    <2>2. Made(p, b)
      BY <1>1, <2>1 DEF FileKnown, Making
    <2>3. Cleared(p, b)'
      <3>1. CASE b \in j.done
        <4>1. Changed(p, b) /\ user[b] = Release(p)
          BY <1>8, <2>2, <3>1 DEF Made, Changed, New
        <4>2. b \in ours \/ (b = "skill" /\ Withdrawn(p))
          <5>1. MarkerOf(Release(p)) = "Matching" <=> user.marker = Release(p)
            BY <1>3, MarkerSeen
          <5>2. SkillOf(Release(p)) = "Matching" <=> user.skill = Release(p) /\ Resolves(Release(p))
            BY <1>3, SkillSeen
          <5> QED BY <1>8, <1>12, <3>1, <4>1, <5>1, <5>2
        <4>3. CASE b \in bad
          <5>1. f
            BY <1>5, <4>3
          <5> QED BY <1>6, <5>1 DEF Cleared
        <4>4. CASE b \notin bad /\ b \in ours
          <5>1. user'[b] = None /\ journal'[p].aside[b] = before'[p][b]
            BY <1>3, <1>4, <1>6, <2>1, <4>1, <4>4 DEF Changed
          <5> QED BY <5>1 DEF Cleared, Away
        <4>5. CASE b \notin ours
          <5>1. user'[b] = Release(p)
            BY <1>4, <2>1, <4>1, <4>5
          <5>2. Dangles(p, b)'
            BY <1>3, <1>11, <4>2, <4>5, <5>1 DEF Dangles, Withdrawn
          <5> QED BY <5>2 DEF Cleared
        <4> QED BY <4>3, <4>4, <4>5
      <3>2. CASE b \notin j.done
        <4>1. b \notin ours
          BY <1>8, <3>2
        <4>2. user'[b] = user[b]
          BY <1>4, <2>1, <4>1
        <4>3. Still(p, b) \/ Away(p, b)
          BY <2>2, <3>2 DEF Made
        <4> QED BY <1>3, <1>6, <4>2, <4>3 DEF Cleared, Still, Away, Kept
      <3> QED BY <3>1, <3>2
    <2> QED BY <1>1, <1>8, <2>3 DEF FileKnown, Making, BackAt, Taking, Installing, Uninstalling
  <1>9. ASSUME "mcp" \notin touched \cup j.unseen PROVE EntryKnown(p)'
    <2>1. EntryKnown(p) /\ "mcp" \notin ours /\ "mcp" \in Artefacts
      BY <1>3, <1>9 DEF Settled, Artefacts
    <2>2. user'["mcp"] = user["mcp"]
      BY <1>4, <2>1
    <2>3. /\ Added(p)' <=> Added(p)
          /\ Removed(p)' <=> Removed(p)
          /\ Replaceable(p)' <=> Replaceable(p)
          /\ Kept(p, "mcp")' <=> Kept(p, "mcp")
      BY <1>3, <1>6, <2>2 DEF Added, Removed, Replaceable, Kept
    <2>4. Taken(p)' <=> Taken(p)
      BY <2>2, <2>3 DEF Taken
    <2>5. IF Added(p) THEN /\ user["mcp"] = Stable
                           /\ IF Removed(p) THEN Replaceable(p) ELSE before[p]["mcp"] = None
          ELSE Taken(p)
      BY <1>1, <2>1 DEF EntryKnown
    <2> QED BY <1>1, <1>3, <2>2, <2>3, <2>4, <2>5 DEF EntryKnown, Uninstalling, Restoring
  <1>10. Settled(p)'
    <2>1. \A b \in OnDisk : b \in {"config", "stable"} \cup {"skill", "marker"}
      BY DEF OnDisk, Artefacts
    <2> QED BY <1>3, <1>6, <1>7, <1>8, <1>9, <2>1 DEF Settled
  <1> QED BY <1>1, <1>3, <1>10, Undone DEF Undoing

(* The steps of the rollback that concern the entry alone.                 *)
LEMMA EntryUndone ==
  ASSUME InstallAssumption, InstallInv, NEW p \in Procs, Steps(p),
         \/ pc[p] = "undo register" /\ pc'[p] = "undo replace"
         \/ pc[p] = "undo replace" /\ pc'[p] = "undo stable",
         \A b \in OnDisk : Untouched(p, b), journal'[p].unseen = journal[p].unseen,
         "deleted" \in journal'[p].done <=> "deleted" \in journal[p].done,
         journal[p].failed => journal'[p].failed,
         "mcp" \notin touched \cup journal[p].unseen => EntryKnown(p)'
  PROVE  Known(p)'
  <1>1. pc[p] \in Committed
    BY DEF Committed, Undoing
  <1>2. /\ before' = before /\ touched' = touched /\ Release(p)' = Release(p) /\ Found(p)' /\ Settled(p)
        /\ job' = job /\ pulled \subseteq pulled'
    BY <1>1, Inner
  <1>3. ASSUME NEW b \in OnDisk, b \notin touched \cup journal[p].unseen PROVE FileKnown(p, b)'
    <2>1. FileKnown(p, b)
      BY <1>2, <1>3 DEF Settled
    <2>2. /\ Made(p, b) => Made(p, b)'
          /\ Cleared(p, b) => Cleared(p, b)'
      BY <1>2, <1>3, FileStays
    <2>3. /\ pc'[p] \in Making(b) => pc[p] \in Making(b)
          /\ pc'[p] \in Clearing(b) => pc[p] \in Clearing(b)
          /\ pc'[p] \notin BackAt(b) /\ pc'[p] \notin Taking
      BY DEF Making, Clearing, BackAt, Taking, Installing, Undoing, Uninstalling, OnDisk, Artefacts
    <2>4. Making(b)' = Making(b) /\ Clearing(b)' = Clearing(b) /\ BackAt(b)' = BackAt(b)
      BY DEF Making, Clearing, BackAt
    <2> QED BY <2>1, <2>2, <2>3, <2>4 DEF FileKnown
  <1>4. Settled(p)'
    BY <1>2, <1>3 DEF Settled
  <1> QED BY <1>2, <1>4, Undone DEF Undoing

LEMMA EntryMarked ==
  ASSUME InstallTypes, NEW p \in Procs, NEW f \in BOOLEAN, Marks(p, f), journal[p].failed => f,
         user' = user \/ \E x : user' = [user EXCEPT !.mcp = x]
  PROVE  /\ \A b \in OnDisk : Untouched(p, b)
         /\ journal'[p].unseen = journal[p].unseen
         /\ journal'[p].done = journal[p].done
         /\ journal'[p].failed = f
  <1>1. /\ journal'[p].failed = f /\ journal'[p].done = journal[p].done
        /\ journal'[p].aside = journal[p].aside /\ journal'[p].unseen = journal[p].unseen
    BY Marked
  <1>2. \A b \in OnDisk : user'[b] = user[b]
    BY DEF InstallTypes, OnDisk, Artefacts
  <1> QED BY <1>1, <1>2 DEF Untouched

LEMMA RegisterUndone ==
  ASSUME InstallAssumption, InstallInv, NEW p \in Procs, UndoRegister(p)
  PROVE  Known(p)'
  <1> DEFINE j == journal[p]
  <1>1. pc[p] = "undo register" /\ pc'[p] = "undo replace"
    BY DEF UndoRegister, Goto, InstallInv, InstallTypes
  <1>2. Steps(p) /\ pc[p] \in Committed
    BY <1>1 DEF Steps, Installs, Committed, Undoing
  <1>3. /\ before' = before /\ touched' = touched /\ Settled(p) /\ Release(p) \in Versions
        /\ "mcp" \in Artefacts /\ user.mcp \in Values /\ Stable \in Values /\ j.failed \in BOOLEAN
        /\ None # Stable
    BY <1>2, Inner, ArtefactsAre, ValuesDiffer DEF InstallInv, InstallTypes, Journals
  <1>4. ASSUME "mcp" \notin touched \cup j.unseen
        PROVE  IF Added(p) THEN /\ user["mcp"] = Stable
                                /\ IF Removed(p) THEN Replaceable(p) ELSE before[p]["mcp"] = None
               ELSE Taken(p)
    BY <1>1, <1>3, <1>4 DEF Settled, EntryKnown
  <1>5. CASE /\ "added" \notin j.done \/ McpOf(Release(p), user.mcp) # "Matching"
             /\ user' = user /\ journal' = journal
    <2>1. /\ \A b \in OnDisk : Untouched(p, b)
          /\ journal'[p] = j
      BY <1>5 DEF Untouched
    <2>2. ASSUME "mcp" \notin touched \cup j.unseen PROVE EntryKnown(p)'
      <3>1. ~Added(p)
        BY <1>3, <1>4, <1>5, <2>2, McpSeen DEF Added
      <3>2. Taken(p)'
        BY <1>3, <1>4, <1>5, <2>2, <3>1 DEF Taken, Removed, Replaceable, Kept
      <3> QED BY <1>1, <3>2 DEF EntryKnown, Installing, Uninstalling, Restoring
    <2> QED BY <1>1, <1>2, <2>1, <2>2, EntryUndone
  <1>6. CASE \E o \in Remove(Release(p)) :
               /\ "added" \in j.done /\ user' = [user EXCEPT !.mcp = o[1]]
               /\ Log(p, [j EXCEPT !.failed = @ \/ o[2] \notin {"Ok", "Applied"}])
    <2>1. PICK o \in Remove(Release(p)) :
            /\ "added" \in j.done /\ user' = [user EXCEPT !.mcp = o[1]]
            /\ Log(p, [j EXCEPT !.failed = @ \/ o[2] \notin {"Ok", "Applied"}])
      BY <1>6
    <2>2. PICK f \in BOOLEAN : Marks(p, f) /\ (f <=> j.failed \/ o[2] \notin {"Ok", "Applied"})
      BY <2>1 DEF Marks
    <2>3. /\ \A b \in OnDisk : Untouched(p, b)
          /\ journal'[p].unseen = j.unseen /\ journal'[p].done = j.done /\ journal'[p].failed = f
      BY <2>1, <2>2, EntryMarked DEF InstallInv
    <2>4. ASSUME "mcp" \notin touched \cup j.unseen PROVE EntryKnown(p)'
      <3>1. CASE f
        BY <1>1, <2>3, <3>1 DEF EntryKnown, Installing, Uninstalling, Restoring
      <3>2. CASE ~f
        <4>1. o[1] = None
          BY <1>3, <2>2, <3>2, RemoveLeaves
        <4>2. user'["mcp"] = None
          BY <1>3, <2>1, <4>1 DEF InstallInv, InstallTypes
        <4>3. IF Removed(p) THEN Replaceable(p) ELSE before[p]["mcp"] = None
          BY <1>4, <2>1, <2>4 DEF Added
        <4>4. Taken(p)'
          BY <1>3, <2>3, <4>2, <4>3 DEF Taken, Removed, Replaceable, Kept
        <4> QED BY <1>1, <4>4 DEF EntryKnown, Installing, Uninstalling, Restoring
      <3> QED BY <3>1, <3>2
    <2> QED BY <1>1, <1>2, <2>2, <2>3, <2>4, EntryUndone
  <1>7. CASE Log(p, [j EXCEPT !.failed = TRUE]) /\ user' = user
    <2>1. Marks(p, TRUE)
      BY <1>7 DEF Marks
    <2>2. PICK f \in BOOLEAN : Marks(p, f) /\ f
      BY <2>1
    <2>3. /\ \A b \in OnDisk : Untouched(p, b)
          /\ journal'[p].unseen = j.unseen /\ journal'[p].done = j.done /\ journal'[p].failed = f
      BY <1>7, <2>2, EntryMarked DEF InstallInv
    <2>4. EntryKnown(p)'
      BY <1>1, <2>2, <2>3 DEF EntryKnown, Installing, Uninstalling, Restoring
    <2> QED BY <1>1, <1>2, <2>2, <2>3, <2>4, EntryUndone
  <1> QED BY <1>5, <1>6, <1>7 DEF UndoRegister

LEMMA ReplacementUndone ==
  ASSUME InstallAssumption, InstallInv, NEW p \in Procs, UndoReplace(p)
  PROVE  Known(p)'
  <1> DEFINE j == journal[p]
  <1>1. pc[p] = "undo replace" /\ pc'[p] = "undo stable"
    BY DEF UndoReplace, Goto, InstallInv, InstallTypes
  <1>2. Steps(p) /\ pc[p] \in Committed
    BY <1>1 DEF Steps, Installs, Committed, Undoing
  <1>3. /\ before' = before /\ touched' = touched /\ Settled(p) /\ Release(p) \in Versions
        /\ "mcp" \in Artefacts /\ user.mcp \in Values /\ None \in Values /\ j.failed \in BOOLEAN
        /\ None # Stable
    BY <1>2, Inner, ArtefactsAre, ValuesDiffer DEF InstallInv, InstallTypes, Journals
  <1>4. ASSUME "mcp" \notin touched \cup j.unseen PROVE j.failed \/ Taken(p)
    BY <1>1, <1>3, <1>4 DEF Settled, EntryKnown
  <1>5. CASE /\ "removed" \notin j.done \/ McpOf(Release(p), user.mcp) = "Matching"
             /\ user' = user /\ journal' = journal
    <2>1. /\ \A b \in OnDisk : Untouched(p, b)
          /\ journal'[p] = j
      BY <1>5 DEF Untouched
    <2>2. ASSUME "mcp" \notin touched \cup j.unseen PROVE EntryKnown(p)'
      <3>1. CASE j.failed
        BY <1>1, <2>1, <3>1 DEF EntryKnown, Installing, Uninstalling, Restoring
      <3>2. CASE ~j.failed
        <4>1. user["mcp"] = None => McpOf(Release(p), user.mcp) = "Absent"
          BY <1>3, McpSeen
        <4>2. Kept(p, "mcp")
          BY <1>4, <1>5, <2>2, <3>2, <4>1 DEF Taken, Removed
        <4>3. Kept(p, "mcp")'
          BY <1>3, <1>5, <4>2 DEF Kept
        <4> QED BY <1>1, <4>3 DEF EntryKnown, Installing, Uninstalling, Restoring
      <3> QED BY <3>1, <3>2
    <2> QED BY <1>1, <1>2, <2>1, <2>2, EntryUndone
  <1>6. CASE \E o \in Add(Release(p)) :
               /\ "removed" \in j.done /\ McpOf(Release(p), user.mcp) = "Absent"
               /\ user' = [user EXCEPT !.mcp = o[1]]
               /\ Log(p, [j EXCEPT !.failed = @ \/ o[2] # "Ok"])
    <2>1. PICK o \in Add(Release(p)) :
            /\ "removed" \in j.done /\ McpOf(Release(p), user.mcp) = "Absent"
            /\ user' = [user EXCEPT !.mcp = o[1]]
            /\ Log(p, [j EXCEPT !.failed = @ \/ o[2] # "Ok"])
      BY <1>6
    <2>2. PICK f \in BOOLEAN : Marks(p, f) /\ (f <=> j.failed \/ o[2] # "Ok")
      BY <2>1 DEF Marks
    <2>3. /\ \A b \in OnDisk : Untouched(p, b)
          /\ journal'[p].unseen = j.unseen /\ journal'[p].done = j.done /\ journal'[p].failed = f
      BY <2>1, <2>2, EntryMarked DEF InstallInv
    <2>4. ASSUME "mcp" \notin touched \cup j.unseen PROVE EntryKnown(p)'
      <3>1. CASE f
        BY <1>1, <2>3, <3>1 DEF EntryKnown, Installing, Uninstalling, Restoring
      <3>2. CASE ~f
        <4>1. user.mcp = None
          BY <1>3, <2>1, McpSeen
        <4>2. o[1] = Stable
          BY <1>3, <2>2, <3>2, <4>1, AddLeaves
        <4>3. user'["mcp"] = Stable
          BY <1>3, <2>1, <4>2 DEF InstallInv, InstallTypes
        <4>4. Replaceable(p)'
          BY <1>3, <1>4, <2>1, <2>2, <2>4, <3>2 DEF Taken, Removed, Replaceable
        <4> QED BY <1>1, <4>3, <4>4 DEF EntryKnown, Installing, Uninstalling, Restoring
      <3> QED BY <3>1, <3>2
    <2> QED BY <1>1, <1>2, <2>2, <2>3, <2>4, EntryUndone
  <1>7. CASE Log(p, [j EXCEPT !.failed = TRUE]) /\ user' = user
    <2>1. Marks(p, TRUE)
      BY <1>7 DEF Marks
    <2>2. PICK f \in BOOLEAN : Marks(p, f) /\ f
      BY <2>1
    <2>3. /\ \A b \in OnDisk : Untouched(p, b)
          /\ journal'[p].unseen = j.unseen /\ journal'[p].done = j.done /\ journal'[p].failed = f
      BY <1>7, <2>2, EntryMarked DEF InstallInv
    <2>4. EntryKnown(p)'
      BY <1>1, <2>2, <2>3 DEF EntryKnown, Installing, Uninstalling, Restoring
    <2> QED BY <1>1, <1>2, <2>2, <2>3, <2>4, EntryUndone
  <1> QED BY <1>5, <1>6, <1>7 DEF UndoReplace

(* What a file is put back to.                                             *)
LEMMA PutBackIs ==
  ASSUME NEW now, NEW aside, NEW A, NEW b \in Artefacts
  PROVE  PutBack(now, aside, A)[b] =
           IF b \in A /\ aside[b] # None /\ now[b] = None THEN aside[b] ELSE now[b]
  BY DEF PutBack

LEMMA StableUndone ==
  ASSUME InstallAssumption, InstallInv, NEW p \in Procs, UndoStable(p)
  PROVE  Known(p)'
  <1> DEFINE j == journal[p]
             back == {"stable", "skill", "marker"}
             now == [user EXCEPT !.stable = IF "stable" \in j.done THEN None ELSE @]
  <1>1. pc[p] = "undo stable" /\ pc'[p] = "undo config"
    BY DEF UndoStable, Goto, InstallInv, InstallTypes
  <1>2. Steps(p) /\ pc[p] \in Committed
    BY <1>1 DEF Steps, Installs, Committed, Undoing
  <1>3. /\ before' = before /\ touched' = touched /\ Release(p)' = Release(p) /\ Found(p)'
        /\ Settled(p) /\ j.failed \in BOOLEAN
        /\ job' = job /\ pulled' = pulled /\ Release(p) # None
    BY <1>2, Inner, ValuesDiffer DEF InstallInv, InstallTypes, Journals
  <1>4. PICK bad \in OneFails :
          /\ user' = PutBack(now, j.aside, back \ bad)
          /\ Log(p, [j EXCEPT !.failed = \/ @ \/ bad # {} \/ ("stable" \in j.done /\ user.stable = None)
                                         \/ Blocked(now, j.aside, back)])
    BY DEF UndoStable
  <1>5. PICK f \in BOOLEAN : Marks(p, f) /\ (j.failed \/ bad # {} => f)
    BY <1>4 DEF Marks
  <1>6. /\ journal'[p].failed = f /\ journal'[p].done = j.done
        /\ journal'[p].aside = j.aside /\ journal'[p].unseen = j.unseen
    BY <1>5, Marked DEF InstallInv
  <1>7. /\ now["stable"] = IF "stable" \in j.done THEN None ELSE user["stable"]
        /\ \A b \in Artefacts \ {"stable"} : now[b] = user[b]
    BY DEF InstallInv, InstallTypes, Artefacts
  <1>8. \A b \in Artefacts : user'[b] = IF b \in back \ bad /\ j.aside[b] # None /\ now[b] = None
                                        THEN j.aside[b] ELSE now[b]
    BY <1>4, PutBackIs
  <1>9. ASSUME NEW b \in back, b \notin touched \cup j.unseen PROVE FileKnown(p, b)'
    <2>1. FileKnown(p, b) /\ b \in Artefacts
      BY <1>3, <1>9 DEF Settled, OnDisk, Artefacts
    <2>2. Back(p, b)'
      <3>1. CASE f
        BY <1>6, <3>1 DEF Back
      <3>2. CASE ~f /\ b = "stable"
        <4>1. Made(p, b) /\ b \notin bad
          BY <1>1, <1>5, <2>1, <3>2 DEF FileKnown, Making
        <4>2. user'[b] = before[p][b]
          <5>1. CASE b \in j.done
            BY <1>7, <1>8, <1>9, <2>1, <3>2, <4>1, <5>1 DEF Made, Changed
          <5>2. CASE b \notin j.done
            BY <1>7, <1>8, <1>9, <2>1, <3>2, <4>1, <5>2 DEF Made, Still, Away, Kept
          <5> QED BY <5>1, <5>2
        <4> QED BY <1>3, <4>2 DEF Back, Kept
      <3>3. CASE ~f /\ b # "stable"
        <4>1. Cleared(p, b) /\ b \notin bad /\ ~j.failed
          BY <1>1, <1>5, <1>9, <2>1, <3>3 DEF FileKnown, Clearing
        <4>2. now[b] = user[b]
          BY <1>7, <2>1, <3>3
        <4>3. CASE Still(p, b) \/ Away(p, b)
          <5>1. user'[b] = before[p][b]
            BY <1>8, <1>9, <2>1, <4>1, <4>2, <4>3 DEF Still, Away, Kept
          <5> QED BY <1>3, <5>1 DEF Back, Kept
        <4>4. CASE Dangles(p, b)
          <5>1. user'[b] = user[b]
            BY <1>3, <1>8, <2>1, <4>2, <4>4 DEF Dangles
          <5>2. Dangles(p, b)'
            BY <1>3, <4>4, <5>1 DEF Dangles, Withdrawn
          <5> QED BY <5>2 DEF Back
        <4> QED BY <4>1, <4>3, <4>4 DEF Cleared
      <3> QED BY <3>1, <3>2, <3>3
    <2> QED BY <1>1, <1>9, <2>2 DEF FileKnown, Making, Clearing, Taking, Installing, Undoing, Uninstalling
  <1>10. ASSUME "config" \notin touched \cup j.unseen PROVE FileKnown(p, "config")'
    <2>1. /\ FileKnown(p, "config") /\ "config" \in Artefacts /\ "config" \in OnDisk
          /\ "config" \notin back
      BY <1>3, <1>10 DEF Settled, OnDisk, Artefacts
    <2>2. Untouched(p, "config")
      BY <1>6, <1>7, <1>8, <2>1 DEF Untouched
    <2>3. Made(p, "config")
      BY <1>1, <2>1 DEF FileKnown, Making, Undoing
    <2>4. Made(p, "config")'
      BY <1>3, <1>5, <1>6, <2>1, <2>2, <2>3, FileStays
    <2> QED BY <1>1, <2>4 DEF FileKnown, Clearing, BackAt, Taking, Uninstalling
  <1>11. ASSUME "mcp" \notin touched \cup j.unseen PROVE EntryKnown(p)'
    <2>1. EntryKnown(p) /\ "mcp" \in Artefacts /\ "mcp" \notin back
      BY <1>3, <1>11 DEF Settled, Artefacts
    <2>2. user'["mcp"] = user["mcp"]
      BY <1>7, <1>8, <2>1
    <2>3. /\ Replaceable(p)' <=> Replaceable(p)
          /\ Kept(p, "mcp")' <=> Kept(p, "mcp")
      BY <1>3, <2>2 DEF Replaceable, Kept
    <2>4. j.failed \/ Kept(p, "mcp") \/ (Replaceable(p) /\ user["mcp"] = Stable)
      BY <1>1, <2>1 DEF EntryKnown
    <2>5. journal'[p].failed \/ Kept(p, "mcp")' \/ (Replaceable(p)' /\ user'["mcp"] = Stable)
      BY <1>5, <1>6, <2>2, <2>3, <2>4
    <2> QED BY <1>1, <2>5 DEF EntryKnown, Installing, Uninstalling, Restoring
  <1>12. Settled(p)'
    <2>1. \A b \in OnDisk : b = "config" \/ b \in back
      BY DEF OnDisk, Artefacts
    <2> QED BY <1>3, <1>6, <1>9, <1>10, <1>11, <2>1 DEF Settled
  <1> QED BY <1>1, <1>3, <1>12, Undone DEF Undoing

LEMMA Restored ==
  ASSUME InstallAssumption, InstallInv, NEW p \in Procs, Restore(p)
  PROVE  Known(p)'
  <1> DEFINE j == journal[p]
             back == {"skill", "marker"}
             rewrites == "deleted" \in j.done
             now == [user EXCEPT !.marker = IF rewrites /\ @ = None THEN Release(p) ELSE @]
  <1>1. pc[p] = "restore" /\ pc'[p] = "register again"
    BY DEF Restore, Goto, InstallInv, InstallTypes
  <1>2. Steps(p) /\ pc[p] \in Committed
    BY <1>1 DEF Steps, Uninstalls, Committed, Restoring
  <1>3. /\ before' = before /\ touched' = touched /\ Release(p)' = Release(p) /\ Found(p)'
        /\ Settled(p) /\ Release(p) # None
    BY <1>2, Inner, ValuesDiffer
  <1>4. PICK bad \in OneFails :
          /\ user' = PutBack(IF rewrites /\ "marker" \in bad THEN user ELSE now, j.aside, back \ bad)
          /\ Log(p, [j EXCEPT !.failed = \/ bad # {} \/ Blocked(user, j.aside, back)
                                         \/ (rewrites /\ user.marker # None)])
    BY DEF Restore
  <1>5. PICK f \in BOOLEAN : Marks(p, f) /\ (bad # {} => f)
    BY <1>4 DEF Marks
  <1>6. /\ journal'[p].failed = f /\ journal'[p].done = j.done
        /\ journal'[p].aside = j.aside /\ journal'[p].unseen = j.unseen
    BY <1>5, Marked DEF InstallInv
  <1>7. PICK n : /\ user' = PutBack(n, j.aside, back \ bad)
                 /\ \A b \in Artefacts \ {"marker"} : n[b] = user[b]
                 /\ bad = {} => n["marker"] = IF rewrites /\ user["marker"] = None THEN Release(p) ELSE user["marker"]
    <2>1. /\ \A b \in Artefacts \ {"marker"} : now[b] = user[b]
          /\ now["marker"] = IF rewrites /\ user["marker"] = None THEN Release(p) ELSE user["marker"]
      BY DEF InstallInv, InstallTypes, Artefacts
    <2>2. CASE rewrites /\ "marker" \in bad
      BY <1>4, <2>2
    <2>3. CASE ~(rewrites /\ "marker" \in bad)
      BY <1>4, <2>1, <2>3
    <2> QED BY <2>2, <2>3
  <1>8. \A b \in Artefacts : user'[b] = IF b \in back \ bad /\ j.aside[b] # None /\ n[b] = None
                                        THEN j.aside[b] ELSE n[b]
    BY <1>7, PutBackIs
  <1>9. ASSUME NEW b \in OnDisk, b \notin touched \cup j.unseen PROVE FileKnown(p, b)'
    <2>1. FileKnown(p, b) /\ b \in Artefacts
      BY <1>3, <1>9 DEF Settled, OnDisk
    <2>2. TakenAway(p, b)
      BY <1>1, <2>1 DEF FileKnown, Taking
    <2>3. Back(p, b)'
      <3>1. CASE f
        BY <1>6, <3>1 DEF Back
      <3>2. CASE ~f /\ b = "marker" /\ rewrites
        <4>1. /\ user[b] = None /\ j.aside[b] = None /\ before[p][b] = Release(p)
              /\ n[b] = Release(p)
          BY <1>5, <1>7, <2>2, <3>2 DEF TakenAway, Deleted
        <4>2. user'[b] = before[p][b]
          BY <1>8, <2>1, <4>1
        <4> QED BY <1>3, <4>2 DEF Back, Kept
      <3>3. CASE ~f /\ ~(b = "marker" /\ rewrites)
        <4>1. Still(p, b) \/ (b \in back /\ Away(p, b))
          BY <2>2, <3>3 DEF TakenAway
        <4>2. n[b] = user[b] /\ b \notin bad
          BY <1>5, <1>7, <2>1, <3>3
        <4>3. user'[b] = before[p][b]
          BY <1>8, <2>1, <4>1, <4>2 DEF Still, Away, Kept
        <4> QED BY <1>3, <4>3 DEF Back, Kept
      <3> QED BY <3>1, <3>2, <3>3
    <2> QED BY <1>1, <2>3 DEF FileKnown, Making, Clearing, Taking, Installing, Undoing, Uninstalling
  <1>10. ASSUME "mcp" \notin touched \cup j.unseen PROVE EntryKnown(p)'
    <2>1. EntryKnown(p) /\ "mcp" \in Artefacts /\ "mcp" \notin back
      BY <1>3, <1>10 DEF Settled, Artefacts
    <2>2. user'["mcp"] = user["mcp"]
      BY <1>7, <1>8, <2>1
    <2>3. /\ Removed(p)' <=> Removed(p)
          /\ Kept(p, "mcp")' <=> Kept(p, "mcp")
      BY <1>3, <1>6, <2>2 DEF Removed, Kept
    <2>4. IF Removed(p) THEN user["mcp"] = None /\ before[p]["mcp"] \in Versions \cup {Stable}
          ELSE Kept(p, "mcp")
      BY <1>1, <2>1 DEF EntryKnown, Restoring
    <2> QED BY <1>1, <1>3, <2>2, <2>3, <2>4 DEF EntryKnown, Installing, Restoring
  <1>11. Settled(p)'
    BY <1>3, <1>6, <1>9, <1>10 DEF Settled
  <1> QED BY <1>1, <1>3, <1>11, Undone DEF Restoring

-----------------------------------------------------------------------------
(* Together.                                                               *)
LEMMA KnownGoesOn ==
  ASSUME InstallAssumption, InstallInv, NEW p \in Procs, Steps(p), pc'[p] \in Committed
  PROVE  Known(p)'
  <1>g. /\ \A l : Goto(p, l) => pc'[p] = l
        /\ \A r : Finish(p, r) => pc'[p] = r
    BY DEF Goto, Finish, InstallInv, InstallTypes
  <1>1. pc'[p] \notin Publishing \cup {"lock", "waiting", "preflight"} \cup Ended
    BY DEF Publishing, Committed, Installing, Undoing, Uninstalling, Restoring, Ended
  <1>2. ~Stage(p) /\ ~Publish(p) /\ ~Verify(p) /\ ~Withdraw(p) /\ ~ResolveFirst(p) /\ ~AcquireLock(p)
    BY <1>g, <1>1 DEF Publishing, Stage, Publish, Verify, Withdraw, ResolveFirst, AcquireLock, Ended
  <1>3. ~Prune(p) /\ ~UndoConfig(p) /\ ~RegisterAgain(p) /\ ~Killed(p)
    BY <1>g, <1>1 DEF Prune, UndoConfig, RegisterAgain, Killed, Ended
  <1>4. CASE Preflight(p)
    BY <1>4, Preflown
  <1>5. CASE CleansUp(p)
    BY <1>5, CleanedUp
  <1>6. CASE DeleteSkill(p)
    BY <1>6, SkillNotDeleted
  <1>7. CASE \/ StepFails(p) \/ MigrateConfig(p) \/ EnsureStableBinary(p) \/ ReplaceMcp(p)
             \/ RegisterMcp(p) \/ LinkSkill(p) \/ WriteMarker(p)
    BY <1>7, StepFailed, ConfigMigrated, StableLinked, McpReplaced, McpRegistered, SkillLinked, MarkerWritten
  <1>8. CASE UndoFiles(p) \/ UndoRegister(p) \/ UndoReplace(p) \/ UndoStable(p)
    BY <1>8, FilesUndone, RegisterUndone, ReplacementUndone, StableUndone
  <1>9. CASE Unregister(p) \/ TakeSkill(p) \/ TakeMarker(p) \/ DeleteMarker(p) \/ Restore(p)
    BY <1>9, Unregistered, SkillTaken, MarkerTaken, MarkerDeleted, Restored
  <1> QED BY <1>2, <1>3, <1>4, <1>5, <1>6, <1>7, <1>8, <1>9 DEF Steps, Installs, Uninstalls

(* Outside the lock nothing is touched; it is entered with everything as   *)
(* it was found.                                                           *)
LEMMA Outside ==
  ASSUME InstallTypes, NEW p \in Procs, Steps(p), pc[p] \notin Inside
  PROVE  user' = user /\ (touched' = touched \/ lock = None)
  <1>1. Stage(p) \/ Publish(p) \/ Verify(p) \/ Withdraw(p) \/ ResolveFirst(p) \/ AcquireLock(p) \/ Killed(p)
    <2> USE DEF Inside, Committed, Installing, Undoing, Uninstalling, Restoring
    <2>1. ~Preflight(p) /\ ~StepFails(p) /\ ~MigrateConfig(p) /\ ~EnsureStableBinary(p) /\ ~ReplaceMcp(p)
      BY DEF Preflight, StepFails, MigrateConfig, EnsureStableBinary, ReplaceMcp
    <2>2. ~RegisterMcp(p) /\ ~LinkSkill(p) /\ ~WriteMarker(p) /\ ~CleansUp(p) /\ ~Prune(p)
      BY DEF RegisterMcp, LinkSkill, WriteMarker, CleansUp, Prune
    <2>3. ~UndoFiles(p) /\ ~UndoRegister(p) /\ ~UndoReplace(p) /\ ~UndoStable(p) /\ ~UndoConfig(p)
      BY DEF UndoFiles, UndoRegister, UndoReplace, UndoStable, UndoConfig
    <2>4. ~Unregister(p) /\ ~TakeSkill(p) /\ ~TakeMarker(p) /\ ~DeleteMarker(p) /\ ~DeleteSkill(p)
      BY DEF Unregister, TakeSkill, TakeMarker, DeleteMarker, DeleteSkill
    <2>5. ~Restore(p) /\ ~RegisterAgain(p)
      BY DEF Restore, RegisterAgain
    <2> QED BY <2>1, <2>2, <2>3, <2>4, <2>5 DEF Steps, Installs, Uninstalls
  <1> QED BY <1>1 DEF Stage, Publish, Verify, Withdraw, ResolveFirst, AcquireLock, Killed, Quiet

LEMMA EntersAsFound ==
  ASSUME InstallTypes, NEW p \in Procs, Steps(p), pc'[p] = "preflight"
  PROVE  Entered(p)'
  <1>g. /\ \A l : Goto(p, l) => pc'[p] = l
        /\ \A r : Finish(p, r) => pc'[p] = r
    BY DEF Goto, Finish, InstallTypes
  <1>1. AcquireLock(p)
    <2>0. ~Stage(p) /\ ~Publish(p) /\ ~Verify(p) /\ ~Withdraw(p)
      BY <1>g DEF Stage, Publish, Verify, Withdraw
    <2>1. ~ResolveFirst(p) /\ ~Preflight(p) /\ ~StepFails(p) /\ ~MigrateConfig(p)
      BY <1>g DEF ResolveFirst, Preflight, StepFails, MigrateConfig
    <2>2. ~EnsureStableBinary(p) /\ ~ReplaceMcp(p) /\ ~RegisterMcp(p) /\ ~LinkSkill(p) /\ ~WriteMarker(p)
      BY <1>g DEF EnsureStableBinary, ReplaceMcp, RegisterMcp, LinkSkill, WriteMarker
    <2>3. ~CleansUp(p) /\ ~Prune(p) /\ ~UndoFiles(p) /\ ~UndoRegister(p) /\ ~UndoReplace(p)
      BY <1>g DEF CleansUp, Prune, UndoFiles, UndoRegister, UndoReplace
    <2>4. ~UndoStable(p) /\ ~UndoConfig(p) /\ ~Unregister(p) /\ ~TakeSkill(p) /\ ~TakeMarker(p)
      BY <1>g DEF UndoStable, UndoConfig, Unregister, TakeSkill, TakeMarker
    <2>5. ~DeleteMarker(p) /\ ~DeleteSkill(p) /\ ~Restore(p) /\ ~RegisterAgain(p) /\ ~Killed(p)
      BY <1>g DEF DeleteMarker, DeleteSkill, Restore, RegisterAgain, Killed
    <2> QED BY <2>0, <2>1, <2>2, <2>3, <2>4, <2>5 DEF Steps, Installs, Uninstalls
  <1>2. before' = [before EXCEPT ![p] = user] /\ user' = user
    BY <1>g, <1>1 DEF AcquireLock
  <1>3. before'[p] = user
    BY <1>2 DEF InstallTypes
  <1> QED BY <1>2, <1>3 DEF Entered, Kept

LEMMA InstallStepKeeps ==
  ASSUME InstallAssumption, InstallInv, NEW p \in Procs, Steps(p)
  PROVE  InstallInv'
  <1>1. InstallTypes /\ InOrder
    BY DEF InstallInv
  <1>2. InstallTypes'
    BY <1>1, TypesStay
  <1>3. /\ job' = job
        /\ \A q \in Procs \ {p} : /\ pc'[q] = pc[q] /\ journal'[q] = journal[q]
                                  /\ pre'[q] = pre[q] /\ before'[q] = before[q]
    BY <1>1, OnlyItself
  <1>4. /\ lock' = p <=> pc'[p] \in Inside
        /\ lock' \in {lock, p, None} /\ (lock' # lock => lock \in {p, None})
        /\ pc[p] \notin Inside => \A v \in Versions : Resolves(v) => Resolves(v)' \/ v \in pulled'
        /\ lock # None \/ lock' # p => pulled \subseteq pulled'
    BY <1>1, OnItsWay
  <1>5. ASSUME NEW q \in Procs \ {p}, pc[q] \in Inside
        PROVE  /\ lock = q /\ pc[p] \notin Inside /\ user' = user /\ touched' = touched
               /\ pulled \subseteq pulled'
    <2>1. lock = q /\ lock # p /\ lock # None
      BY <1>1, <1>5, InstallAssumption DEF InOrder, InstallAssumption
    <2>2. pc[p] \notin Inside
      BY <1>1, <2>1 DEF InOrder
    <2> QED BY <1>1, <1>4, <2>1, <2>2, Outside
  <1>6. InOrder'
    <2>1. ASSUME NEW q \in Procs
          PROVE  /\ lock' = q <=> pc'[q] \in Inside
                 /\ pc'[q] \in Committed => (Resolves(Release(q)) \/ Withdrawn(q))'
                 /\ pc'[q] \in Publishing \cup Installing \cup Undoing => job'[q].op = "install"
                 /\ pc'[q] \in Uninstalling \cup Restoring => job'[q].op = "uninstall"
                 /\ pc'[q] \in Publishing \cup {"lock", "waiting", "preflight", "config", "unregister"} =>
                      journal'[q] = NoJournal
      <3>1. CASE q = p
        BY <1>1, <1>3, <3>1, OnItsWay
      <3>2. CASE q # p
        <4>1. q \in Procs \ {p}
          BY <3>2
        <4>2. lock' = q <=> pc'[q] \in Inside
          <5>1. q # None /\ (lock = q <=> pc[q] \in Inside)
            BY <1>1, InstallAssumption DEF InOrder, InstallAssumption
          <5>2. lock' = q <=> lock = q
            BY <1>4, <3>2, <5>1
          <5> QED BY <1>3, <4>1, <5>1, <5>2
        <4>3. pc'[q] \in Committed => (Resolves(Release(q)) \/ Withdrawn(q))'
          <5>1. ASSUME pc[q] \in Committed PROVE (Resolves(Release(q)) \/ Withdrawn(q))'
            <6>1. pc[p] \notin Inside /\ pulled \subseteq pulled'
              BY <1>5, <4>1, <5>1 DEF Inside
            <6>2. /\ Resolves(Release(q)) \/ Withdrawn(q)
                  /\ Release(q) \in Versions /\ Release(q)' = Release(q)
              BY <1>1, <1>3, <5>1 DEF InOrder, InstallTypes, Release
            <6>3. \A v \in Versions : bundles[v] # "absent" => bundles'[v] # "absent" \/ v \in pulled'
              BY <1>4, <6>1 DEF Resolves
            <6> QED BY <6>1, <6>2, <6>3 DEF Resolves, Withdrawn
          <5> QED BY <1>3, <4>1, <5>1
        <4> QED BY <1>1, <1>3, <4>1, <4>2, <4>3 DEF InOrder
      <3> QED BY <3>1, <3>2
    <2> QED BY <2>1 DEF InOrder
  <1>7. ASSUME NEW q \in Procs PROVE Entered(q)' /\ (pc'[q] \in Committed => Known(q)')
    <2>1. CASE q = p
      <3>1. Entered(q)'
        BY <1>1, <2>1, EntersAsFound DEF Entered
      <3> QED BY <2>1, <3>1, KnownGoesOn
    <2>2. CASE q # p
      <3>1. q \in Procs \ {p}
        BY <2>2
      <3>2. ASSUME pc[q] \in Committed PROVE Known(q)'
        <4>1. Known(q) /\ user' = user /\ touched' = touched /\ pulled \subseteq pulled'
          BY <1>5, <3>1, <3>2 DEF InstallInv, Inside
        <4> QED BY <1>3, <3>1, <4>1, KnownStays
      <3>3. ASSUME pc[q] = "preflight" PROVE Entered(q)'
        <4>1. Entered(q) /\ user' = user /\ touched' = touched
          BY <1>5, <3>1, <3>3 DEF InstallInv, Inside
        <4> QED BY <1>3, <3>1, <3>3, <4>1 DEF Entered, Kept
      <3> QED BY <1>3, <3>1, <3>2, <3>3 DEF Entered
    <2> QED BY <2>1, <2>2
  <1> QED BY <1>2, <1>6, <1>7 DEF InstallInv

LEMMA OthersEdit ==
  ASSUME InstallAssumption, InstallInv, NEW a \in Artefacts, NEW x \in {None, Foreign}, ForeignEdit(a, x)
  PROVE  InstallInv'
  <1>1. /\ user' = [user EXCEPT ![a] = x] /\ touched' = touched \cup {a}
        /\ UNCHANGED <<bundles, lock, job, pc, pre, journal, before, pulled>>
    BY DEF ForeignEdit, Set
  <1>2. \A b \in Artefacts : b # a => user'[b] = user[b]
    BY <1>1 DEF InstallInv, InstallTypes
  <1>3. InstallTypes'
    <2>1. x \in Values
      BY DEF Values
    <2> QED BY <1>1, <2>1 DEF InstallInv, InstallTypes
  <1>4. InOrder'
    BY <1>1 DEF InstallInv, InOrder, Resolves, Release, Withdrawn
  <1>5. ASSUME NEW p \in Procs PROVE Entered(p)'
    BY <1>1, <1>2 DEF InstallInv, Entered, Kept
  <1>6. ASSUME NEW p \in Procs, Known(p) PROVE Known(p)'
    <2>1. Found(p)'
      BY <1>1, <1>6 DEF Known, Found, Release
    <2>2. Reached(p)'
      <3>1. Reached(p)
        BY <1>6 DEF Known
      <3>2. /\ "config" \notin touched' => "config" \notin touched /\ user'["config"] = user["config"]
            /\ "stable" \notin touched' => "stable" \notin touched /\ user'["stable"] = user["stable"]
            /\ "mcp" \notin touched' => "mcp" \notin touched /\ user'["mcp"] = user["mcp"]
            /\ "skill" \notin touched' => "skill" \notin touched /\ user'["skill"] = user["skill"]
            /\ "marker" \notin touched' => "marker" \notin touched /\ user'["marker"] = user["marker"]
        BY <1>1, <1>2 DEF Artefacts
      <3>3. Release(p)' = Release(p) /\ pc' = pc /\ pre' = pre /\ before' = before
        BY <1>1 DEF Release
      <3> QED BY <3>1, <3>2, <3>3, ZenonT(40) DEF Reached, Kept, Waiting
    <2>3. ASSUME NEW b \in Artefacts PROVE Ahead(p, b)'
      BY <1>1, <1>2, <1>6 DEF Known, Ahead, Kept, Waiting
    <2>4. ASSUME NEW b \in OnDisk, b \notin touched' \cup journal'[p].unseen PROVE FileKnown(p, b)'
      <3>1. FileKnown(p, b) /\ b # a /\ b \in Artefacts
        BY <1>1, <1>6, <2>4 DEF Known, OnDisk
      <3>2. Untouched(p, b) /\ before' = before /\ Release(p)' = Release(p)
        BY <1>1, <1>2, <3>1 DEF Untouched, Release
      <3>3. StaysWithin(p)
        BY <1>1 DEF StaysWithin
      <3> QED BY <1>1, <3>1, <3>2, <3>3, FileKnownStays
    <2>5. ASSUME "mcp" \notin touched' \cup journal'[p].unseen PROVE EntryKnown(p)'
      <3>1. EntryKnown(p) /\ user'["mcp"] = user["mcp"]
        BY <1>1, <1>2, <1>6, <2>5 DEF Known, Artefacts
      <3>2. StaysWithin(p)
        BY <1>1 DEF StaysWithin
      <3> QED BY <1>1, <3>1, <3>2, EntryStays
    <2> QED BY <2>1, <2>2, <2>3, <2>4, <2>5 DEF Known
  <1> QED BY <1>1, <1>3, <1>4, <1>5, <1>6 DEF InstallInv

LEMMA InstallStarts == ASSUME InstallAssumption, InstallInit PROVE InstallInv
  <1>1. PICK h \in Histories : user = h.user /\ bundles = h.bundles
    BY DEF InstallInit
  <1>2. /\ user \in [Artefacts -> Values] /\ bundles \in [Versions -> {"absent", "same", "different"}]
        /\ job \in [Procs -> [op : {"install", "uninstall"}, release : Versions]] /\ None \notin Procs
    BY <1>1, InstallAssumption DEF InstallInit, InstallAssumption
  <1>3. \A p \in Procs : /\ pc[p] = (IF job[p].op = "install" THEN "stage" ELSE "lock")
                         /\ journal[p] = NoJournal /\ before[p] = user
    BY DEF InstallInit
  <1>4. \A p \in Procs : pc[p] \in {"stage", "lock"} /\ pc[p] \notin Inside /\ pc[p] \notin Committed
    BY <1>3 DEF Inside, Committed, Installing, Undoing, Uninstalling, Restoring
  <1>5. NoJournal \in Journals /\ NoPreflight \in Preflights
    BY ArtefactsAre DEF NoJournal, NoPreflight, Journals, Preflights, Findings
  <1>6. InstallTypes
    <2>1. pc \in [Procs -> Publishing \cup {"lock", "waiting"} \cup Inside \cup Ended]
      <3>1. \A p \in Procs : (IF job[p].op = "install" THEN "stage" ELSE "lock") \in
              Publishing \cup {"lock", "waiting"} \cup Inside \cup Ended
        BY DEF Publishing
      <3> QED BY <3>1 DEF InstallInit
    <2>2. journal \in [Procs -> Journals] /\ pre \in [Procs -> Preflights]
      BY <1>5 DEF InstallInit
    <2> QED BY <1>2, <2>1, <2>2 DEF InstallTypes, InstallInit
  <1>7. InOrder
    <2>1. \A p \in Procs : lock # p
      BY <1>2 DEF InstallInit
    <2> QED BY <1>3, <1>4, <2>1 DEF InOrder, Publishing, Installing, Undoing, Uninstalling, Restoring
  <1>8. \A p \in Procs : Entered(p) /\ pc[p] \notin Committed
    BY <1>4 DEF Entered
  <1> QED BY <1>6, <1>7, <1>8 DEF InstallInv

LEMMA InstallStutters == ASSUME InstallInv, UNCHANGED ivars PROVE InstallInv'
  <1>1. InstallTypes' /\ InOrder'
    BY DEF InstallInv, ivars, InstallTypes, InOrder, Resolves, Release, Withdrawn
  <1>2. ASSUME NEW p \in Procs PROVE Entered(p)'
    BY DEF InstallInv, ivars, Entered, Kept
  <1>3. ASSUME NEW p \in Procs, Known(p) PROVE Known(p)'
    BY <1>3, KnownStays DEF ivars
  <1>4. pc' = pc
    BY DEF ivars
  <1> QED BY <1>1, <1>2, <1>3, <1>4 DEF InstallInv

(* A process inside knows what it has done and what stands where           *)
(* (install_user, uninstall_user and their rollbacks): its journal and the *)
(* user's files agree, for any number of processes, faults and edits.      *)
THEOREM InstallInvariant == InstallSpec => []InstallInv
  <1>1. InstallInit => InstallInv
    BY InstallAssumption, InstallStarts
  <1>2. InstallInv /\ [InstallNext]_ivars => InstallInv'
    BY InstallAssumption, InstallStepKeeps, OthersEdit, InstallStutters DEF InstallNext, Steps
  <1> QED BY <1>1, <1>2, PTL DEF InstallSpec

(* Only five steps end in an ordinary error, and two in success.           *)
LEMMA HowItEnds ==
  ASSUME InstallTypes, NEW p \in Procs, Steps(p), pc[p] \in Inside
  PROVE  /\ pc'[p] = "error" => \/ Preflight(p) \/ UndoConfig(p) \/ RegisterAgain(p)
                                 \/ CleansUp(p) \/ Prune(p)
         /\ pc'[p] = "ok" => Prune(p) \/ DeleteSkill(p)
  <1>g. /\ \A l : Goto(p, l) => pc'[p] = l
        /\ \A r : Finish(p, r) => pc'[p] = r
    BY DEF Goto, Finish, InstallTypes
  <1>1. pc[p] \notin Publishing \cup {"lock", "waiting"}
    BY DEF Publishing, Inside, Committed, Installing, Undoing, Uninstalling, Restoring
  <1>2. ~Stage(p) /\ ~Publish(p) /\ ~Verify(p) /\ ~Withdraw(p) /\ ~ResolveFirst(p) /\ ~AcquireLock(p)
    BY <1>1 DEF Publishing, Stage, Publish, Verify, Withdraw, ResolveFirst, AcquireLock
  <1>3. ASSUME pc'[p] = "error"
        PROVE \/ Preflight(p) \/ UndoConfig(p) \/ RegisterAgain(p)
              \/ CleansUp(p) \/ Prune(p)
    <2>1. ~StepFails(p) /\ ~MigrateConfig(p) /\ ~EnsureStableBinary(p) /\ ~ReplaceMcp(p) /\ ~RegisterMcp(p)
      BY <1>g, <1>3 DEF StepFails, MigrateConfig, EnsureStableBinary, ReplaceMcp, RegisterMcp
    <2>2. ~LinkSkill(p) /\ ~WriteMarker(p) /\ ~UndoFiles(p)
      BY <1>g, <1>3 DEF LinkSkill, WriteMarker, UndoFiles
    <2>3. ~UndoRegister(p) /\ ~UndoReplace(p) /\ ~UndoStable(p) /\ ~Unregister(p) /\ ~TakeSkill(p)
      BY <1>g, <1>3 DEF UndoRegister, UndoReplace, UndoStable, Unregister, TakeSkill
    <2>4. ~TakeMarker(p) /\ ~DeleteMarker(p) /\ ~DeleteSkill(p) /\ ~Restore(p) /\ ~Killed(p)
      BY <1>g, <1>3 DEF TakeMarker, DeleteMarker, DeleteSkill, Restore, Killed
    <2> QED BY <1>2, <2>1, <2>2, <2>3, <2>4 DEF Steps, Installs, Uninstalls
  <1>4. ASSUME pc'[p] = "ok" PROVE Prune(p) \/ DeleteSkill(p)
    <2>1. ~StepFails(p) /\ ~MigrateConfig(p) /\ ~EnsureStableBinary(p) /\ ~ReplaceMcp(p) /\ ~RegisterMcp(p)
      BY <1>g, <1>4 DEF StepFails, MigrateConfig, EnsureStableBinary, ReplaceMcp, RegisterMcp
    <2>2. ~LinkSkill(p) /\ ~WriteMarker(p) /\ ~CleansUp(p) /\ ~Preflight(p) /\ ~UndoFiles(p)
      BY <1>g, <1>4 DEF LinkSkill, WriteMarker, CleansUp, Preflight, UndoFiles
    <2>3. ~UndoRegister(p) /\ ~UndoReplace(p) /\ ~UndoStable(p) /\ ~Unregister(p) /\ ~TakeSkill(p)
      BY <1>g, <1>4 DEF UndoRegister, UndoReplace, UndoStable, Unregister, TakeSkill
    <2>4. ~TakeMarker(p) /\ ~DeleteMarker(p) /\ ~UndoConfig(p) /\ ~Restore(p) /\ ~Killed(p)
      BY <1>g, <1>4 DEF TakeMarker, DeleteMarker, UndoConfig, Restore, Killed
    <2>5. ~RegisterAgain(p)
      BY <1>g, <1>4 DEF RegisterAgain
    <2> QED BY <1>2, <2>1, <2>2, <2>3, <2>4, <2>5 DEF Steps, Installs, Uninstalls
  <1> QED BY <1>3, <1>4

LEMMA ReportsItself ==
  ASSUME InstallAssumption, InstallInv, InstallNext, NEW p \in Procs, NEW r \in Ended, Reports(p, r)
  PROVE  Steps(p) /\ pc[p] \in Inside
  <1>1. lock = p /\ pc[p] \notin Ended /\ pc'[p] = r
    BY DEF Reports
  <1>2. pc'[p] # pc[p]
    BY <1>1
  <1>3. ~(\E a \in Artefacts, x \in {None, Foreign} : ForeignEdit(a, x))
    BY <1>2 DEF ForeignEdit
  <1>4. \A q \in Procs : Steps(q) => q = p
    BY <1>2, OnlyItself DEF InstallInv
  <1> QED BY <1>1, <1>3, <1>4 DEF InstallNext, Steps, InstallInv, InOrder

LEMMA ConfigIsBack ==
  ASSUME InstallAssumption, InstallInv, NEW p \in Procs, UndoConfig(p), pc'[p] = "error",
         NEW a \in Artefacts \ touched
  PROVE  IsBack(p, a)
  <1> DEFINE j == journal[p]
             now == [user EXCEPT !.config = IF "config" \in j.done THEN None ELSE @]
  <1>f. \A r : Finish(p, r) => pc'[p] = r
    BY DEF Goto, Finish, InstallInv, InstallTypes
  <1>1. /\ pc[p] = "undo config" /\ user' = PutBack(now, j.aside, {"config"}) /\ ~j.failed
    BY <1>f DEF UndoConfig
  <1>2. Steps(p) /\ pc[p] \in Committed
    BY <1>1 DEF Steps, Installs, Committed, Undoing
  <1>3. Settled(p)
    BY <1>2, Inner
  <1>4. /\ now["config"] = IF "config" \in j.done THEN None ELSE user["config"]
        /\ \A b \in Artefacts \ {"config"} : now[b] = user[b]
    BY DEF InstallInv, InstallTypes, Artefacts
  <1>p. \A n, A : user' = PutBack(n, j.aside, A) => \A b \in Artefacts :
          user'[b] = IF b \in A /\ j.aside[b] # None /\ n[b] = None THEN j.aside[b] ELSE n[b]
    BY PutBackIs
  <1>5. user'[a] = IF a \in {"config"} /\ j.aside[a] # None /\ now[a] = None THEN j.aside[a] ELSE now[a]
    <2> HIDE DEF now
    <2> QED BY <1>1, <1>p
  <1>6. CASE a \in j.unseen
    BY <1>6 DEF IsBack
  <1>7. CASE a = "config" /\ a \notin j.unseen
    <2>1. Made(p, a)
      BY <1>1, <1>3, <1>7 DEF Settled, FileKnown, Making, Undoing, OnDisk, Artefacts
    <2>2. user'[a] = before[p][a]
      <3>1. CASE a \in j.done
        BY <1>4, <1>5, <1>7, <2>1, <3>1 DEF Made, Changed
      <3>2. CASE a \notin j.done
        BY <1>4, <1>5, <1>7, <2>1, <3>2 DEF Made, Still, Away, Kept
      <3> QED BY <3>1, <3>2
    <2> QED BY <2>2 DEF IsBack
  <1>8. CASE a \in OnDisk \ {"config"} /\ a \notin j.unseen
    <2>1. Back(p, a)
      BY <1>1, <1>3, <1>8 DEF Settled, FileKnown, BackAt
    <2>2. user'[a] = user[a]
      BY <1>4, <1>5, <1>8 DEF OnDisk
    <2> QED BY <1>1, <2>1, <2>2 DEF Back, Kept, Dangles, Withdrawn, IsBack
  <1>9. CASE a = "mcp" /\ a \notin j.unseen
    <2>1. Kept(p, "mcp") \/ (Replaceable(p) /\ user["mcp"] = Stable)
      BY <1>1, <1>3, <1>9 DEF Settled, EntryKnown
    <2>2. user'["mcp"] = user["mcp"]
      BY <1>4, <1>5, <1>9
    <2> QED BY <1>9, <2>1, <2>2 DEF IsBack, Kept, Replaceable
  <1> QED BY <1>6, <1>7, <1>8, <1>9 DEF OnDisk

LEMMA EntryIsBack ==
  ASSUME InstallAssumption, InstallInv, NEW p \in Procs, RegisterAgain(p), pc'[p] = "error",
         NEW a \in Artefacts \ touched
  PROVE  IsBack(p, a)
  <1> DEFINE j == journal[p]
  <1>f. \A r : Finish(p, r) => pc'[p] = r
    BY DEF Goto, Finish, InstallInv, InstallTypes
  <1>1. /\ pc[p] = "register again" /\ ~j.failed
        /\ \/ "removed" \notin j.done /\ user' = user
           \/ /\ "removed" \in j.done
              /\ \E o \in Add(Release(p)) : user' = [user EXCEPT !.mcp = o[1]] /\ o[2] \in {"Ok", "Applied"}
    BY <1>f DEF RegisterAgain
  <1>2. Steps(p) /\ pc[p] \in Committed
    BY <1>1 DEF Steps, Uninstalls, Committed, Restoring
  <1>3. Settled(p) /\ Release(p) \in Versions /\ user.mcp \in Values
    BY <1>2, Inner DEF InstallInv, InstallTypes, Artefacts
  <1>4. CASE a \in j.unseen
    BY <1>4 DEF IsBack
  <1>5. CASE a # "mcp" /\ a \notin j.unseen
    <2>1. Back(p, a)
      BY <1>1, <1>3, <1>5 DEF Settled, FileKnown, BackAt, OnDisk
    <2>2. user'[a] = user[a]
      BY <1>1, <1>5 DEF InstallInv, InstallTypes
    <2> QED BY <1>1, <2>1, <2>2 DEF IsBack, Back, Kept, Dangles, Withdrawn
  <1>6. CASE a = "mcp" /\ a \notin j.unseen
    <2>1. IF Removed(p) THEN user["mcp"] = None /\ before[p]["mcp"] \in Versions \cup {Stable}
          ELSE Kept(p, "mcp")
      BY <1>1, <1>3, <1>6 DEF Settled, EntryKnown, Restoring
    <2>2. CASE "removed" \notin j.done /\ user' = user
      BY <1>6, <2>1, <2>2 DEF Removed, Kept, IsBack
    <2>3. CASE "removed" \in j.done
      <3>1. PICK o \in Add(Release(p)) : user' = [user EXCEPT !.mcp = o[1]] /\ o[2] \in {"Ok", "Applied"}
        BY <1>1, <2>3
      <3>2. o[1] = Stable
        BY <1>3, <2>1, <2>3, <3>1, AddLeaves DEF Removed
      <3>3. user'["mcp"] = Stable
        BY <3>1, <3>2 DEF InstallInv, InstallTypes, Artefacts
      <3> QED BY <1>6, <2>1, <2>3, <3>3 DEF Removed, IsBack
    <2> QED BY <1>1, <2>2, <2>3
  <1> QED BY <1>4, <1>5, <1>6

(* At the end of an installation everything is on its release.             *)
LEMMA AllInstalled ==
  ASSUME InstallAssumption, InstallInv, NEW p \in Procs, CleansUp(p) \/ Prune(p),
         pc'[p] # "prune", touched = {}
  PROVE  job[p].op = "install" /\ Installed(Release(p))'
  <1>1. /\ pc[p] \in {"clean up", "prune"} /\ user' = user
        /\ Release(p) \in Versions => bundles'[Release(p)] = bundles[Release(p)]
    BY DEF CleansUp, Prune, Quiet, InstallInv, InstallTypes
  <1>2. Steps(p) /\ pc[p] \in Committed
    BY <1>1 DEF Steps, Installs, Committed, Installing
  <1>3. /\ Reached(p) /\ Release(p) \in Versions /\ (Resolves(Release(p)) \/ Withdrawn(p))
        /\ Release(p)' = Release(p) /\ pulled' = pulled
    BY <1>2, Inner
  <1>4. /\ user["config"] # "v1" /\ user["stable"] = Release(p) /\ user["mcp"] \in {Stable, Release(p)}
        /\ user["skill"] = Release(p) /\ user["marker"] = Release(p)
    <2>1. \A a \in {"config", "stable", "skill", "marker"} : pc[p] \in Installing \ Waiting(a)
      BY <1>1 DEF Installing, Waiting
    <2> QED BY <1>1, <1>3, <2>1 DEF Reached
  <1>5. (Resolves(Release(p)) \/ Release(p) \in pulled)'
    BY <1>1, <1>3 DEF Resolves, Withdrawn
  <1>6. job[p].op = "install"
    BY <1>1 DEF InstallInv, InOrder, Installing
  <1> QED BY <1>1, <1>3, <1>4, <1>5, <1>6 DEF Installed

(* An install or uninstall that reports an ordinary error (install_user,   *)
(* uninstall_user: not an incomplete rollback) leaves every artefact that  *)
(* nobody else edited as it found it, whatever failed, wherever it was, and *)
(* whatever other processes did meanwhile.  Excepted are those IsBack      *)
(* names: a change whose outcome the journal does not know, an MCP entry   *)
(* by a release's own path that comes back as the stable path, and a new   *)
(* Skill link to a release that its publisher withdrew.  An error of the   *)
(* cleanup after the last step (install.rs:462, 464) undoes nothing: it    *)
(* leaves everything installed.                                            *)
THEOREM ErrorsAreAllOrNothing == InstallSpec => AllOrNothing
  <1> DEFINE Whole == \A p \in Procs : Reports(p, "error") =>
                        IF pc[p] \in {"clean up", "prune"}
                        THEN touched = {} => Installed(Release(p))'
                        ELSE \A a \in Artefacts \ touched' : IsBack(p, a)
  <1>1. ASSUME InstallInv, InstallNext PROVE Whole
    <2> SUFFICES ASSUME NEW p \in Procs, Reports(p, "error")
                 PROVE  IF pc[p] \in {"clean up", "prune"}
                        THEN touched = {} => Installed(Release(p))'
                        ELSE \A a \in Artefacts \ touched' : IsBack(p, a)
      OBVIOUS
    <2>1. Steps(p) /\ pc[p] \in Inside /\ pc'[p] = "error"
      BY <1>1, ReportsItself, InstallAssumption DEF Ended, Reports
    <2>2. CASE Preflight(p)
      <3>1. /\ pc[p] = "preflight" /\ user' = user /\ touched' = touched
        BY <2>1, <2>2 DEF Preflight, Finish, Goto
      <3>2. \A a \in Artefacts \ touched : Kept(p, a)
        BY <1>1, <3>1 DEF InstallInv, Entered
      <3> QED BY <3>1, <3>2 DEF IsBack, Kept
    <2>3. CASE UndoConfig(p)
      <3>1. pc[p] = "undo config" /\ touched' = touched
        BY <2>3 DEF UndoConfig, Quiet
      <3> QED BY <1>1, <2>1, <2>3, <3>1, ConfigIsBack, InstallAssumption
    <2>4. CASE RegisterAgain(p)
      <3>1. pc[p] = "register again" /\ touched' = touched
        BY <2>4 DEF RegisterAgain, Quiet
      <3> QED BY <1>1, <2>1, <2>4, <3>1, EntryIsBack, InstallAssumption
    <2>5. CASE CleansUp(p) \/ Prune(p)
      <3>1. pc[p] \in {"clean up", "prune"}
        BY <2>5 DEF CleansUp, Prune
      <3> QED BY <1>1, <2>1, <2>5, <3>1, AllInstalled, InstallAssumption
    <2> QED BY <1>1, <2>1, <2>2, <2>3, <2>4, <2>5, HowItEnds DEF InstallInv
  <1>2. ASSUME UNCHANGED ivars PROVE Whole
    BY <1>2 DEF ivars, Reports, Ended
  <1>3. InstallInv /\ [InstallNext]_ivars => [Whole]_ivars
    BY <1>1, <1>2
  <1> QED BY <1>3, InstallInvariant, PTL DEF InstallSpec, AllOrNothing

LEMMA UninstalledAtLast ==
  ASSUME InstallAssumption, InstallInv, NEW p \in Procs, DeleteSkill(p), pc'[p] = "ok", touched = {}
  PROVE  job[p].op # "install" /\ Uninstalled(Release(p))'
  <1>1. pc[p] = "delete skill" /\ user' = user
    BY DEF DeleteSkill
  <1>2. Steps(p) /\ pc[p] \in Committed
    BY <1>1 DEF Steps, Uninstalls, Committed, Uninstalling
  <1>3. Reached(p) /\ Release(p)' = Release(p)
    BY <1>2, Inner
  <1>4. user["marker"] = None /\ user["skill"] # Release(p) /\ user["mcp"] \notin {Stable, Release(p)}
    BY <1>1, <1>3 DEF Reached, Uninstalling, Waiting
  <1>5. job[p].op # "install"
    BY <1>1 DEF InstallInv, InOrder, Uninstalling
  <1> QED BY <1>1, <1>3, <1>4, <1>5 DEF Uninstalled

(* A command that reports success, when nobody edited its artefacts        *)
(* meanwhile, has left all of them on its own release (an uninstallation:  *)
(* none of them), however many other installations ran, failed or were     *)
(* killed (install_user, prune_old_releases, uninstall_user); and that     *)
(* release is still there, unless the process that published it could not  *)
(* resolve it and removed it again (install.rs:706-710).                   *)
THEOREM SuccessAlwaysMeansDone == InstallSpec => OkMeansDone
  <1> DEFINE Does == \A p \in Procs : Reports(p, "ok") /\ touched = {} =>
                       IF job[p].op = "install" THEN Installed(Release(p))' ELSE Uninstalled(Release(p))'
  <1>1. ASSUME InstallInv, InstallNext PROVE Does
    <2> SUFFICES ASSUME NEW p \in Procs, Reports(p, "ok"), touched = {}
                 PROVE  IF job[p].op = "install" THEN Installed(Release(p))' ELSE Uninstalled(Release(p))'
      OBVIOUS
    <2>1. Steps(p) /\ pc[p] \in Inside /\ pc'[p] = "ok"
      BY <1>1, ReportsItself, InstallAssumption DEF Ended, Reports
    <2>2. Prune(p) \/ DeleteSkill(p)
      BY <1>1, <2>1, HowItEnds DEF InstallInv
    <2> QED BY <1>1, <2>1, <2>2, AllInstalled, UninstalledAtLast, InstallAssumption
  <1>2. ASSUME UNCHANGED ivars PROVE Does
    BY <1>2 DEF ivars, Reports, Ended
  <1>3. InstallInv /\ [InstallNext]_ivars => [Does]_ivars
    BY <1>1, <1>2
  <1> QED BY <1>3, InstallInvariant, PTL DEF InstallSpec, OkMeansDone

=============================================================================
