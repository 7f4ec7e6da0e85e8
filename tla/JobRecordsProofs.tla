--------------------------- MODULE JobRecordsProofs ---------------------------
(*****************************************************************************)
(* The month's spending and the uploaded files, for every number of jobs,    *)
(* files, slots and days, every limit and price.                             *)
(*                                                                           *)
(* The first part is about sums. SpendBounded sums costs over sets of jobs   *)
(* with the library's SumFunctionOnSet; an induction over sets with a        *)
(* predicate as a parameter is not to be had, so the induction is over a     *)
(* set of numbers (NaturalsAll) and a set of subsets (SubsetsAll), and the   *)
(* library's CHOOSE is shown to give the one function that sums (SumIs,      *)
(* SumsAgree).                                                               *)
(*                                                                           *)
(* The second part is the invariant. What the rows of a month show is not    *)
(* inductive: it can jump when a run ends. So each run under way is          *)
(* charged, from its beginning, with the most it can write (Due), and the    *)
(* rows and these charges together (Load) stay below a ceiling (Committed).  *)
(* There are two accounts, and one argument for both: of all the jobs, where *)
(* a run is charged with all its calls, and of those whose model the table   *)
(* prices, where it is charged with what it found left and one call. A run   *)
(* that begins is the only step that adds a charge (BeginStep): it read a    *)
(* month whose rows left Remaining, and the other runs under way, fewer than *)
(* Slots, weigh a Weight each. Every other step writes at most what it was   *)
(* charged (NoHeavier).                                                      *)
(*****************************************************************************)
EXTENDS JobRecords, FiniteSetTheorems, TLAPS

(* A set of numbers that holds 0, and n + 1 whenever it holds n, holds       *)
(* them all.                                                                 *)
LEMMA NaturalsAll ==
  ASSUME NEW P, 0 \in P, \A n \in Nat : n \in P => n + 1 \in P
  PROVE  \A n \in Nat : n \in P
<1> DEFINE Bad == {n \in Nat : n \notin P}
<1>1. SUFFICES ASSUME Bad # {} PROVE FALSE OBVIOUS
<1>2. \E n \in Bad : \A m \in Bad : ~(<<m, n>> \in OpToRel(<, Nat))
  <2>1. Bad \subseteq Nat OBVIOUS
  <2> HIDE DEF Bad
  <2> QED BY <1>1, <2>1, NatLessThanWellFounded, WFMin
<1>3. PICK n \in Bad : \A m \in Bad : ~(m < n) BY <1>2 DEF OpToRel
<1>4. n # 0 /\ n - 1 \in Nat BY <1>3
<1>5. n - 1 \in P BY <1>3, <1>4
<1> QED BY <1>3, <1>4, <1>5

(* The element the library's folds take first. *)
Pick(s) == CHOOSE x \in s : TRUE

(* g gives, for every set in D, the sum of c over it, in the library's       *)
(* order.                                                                    *)
Sums(c, D, g) == g = [s \in D |-> IF s = {} THEN 0 ELSE c[Pick(s)] + g[s \ {Pick(s)}]]

(* The subsets of S with at most n elements. *)
Small(S, n) == {s \in SUBSET S : Cardinality(s) <= n}

(* It is an element. *)
LEMMA PickIn == \A s : s # {} => Pick(s) \in s
BY DEF Pick

(* Without it the set is smaller. *)
LEMMA SmallerSet ==
  ASSUME NEW S, IsFiniteSet(S), NEW n \in Nat, NEW s \in Small(S, n + 1), s # {}
  PROVE  s \ {Pick(s)} \in Small(S, n)
<1>1. IsFiniteSet(s) BY FS_Subset DEF Small
<1>2. Pick(s) \in s BY PickIn
<1>3. Cardinality(s \ {Pick(s)}) = Cardinality(s) - 1 BY <1>1, <1>2, FS_RemoveElement
<1>4. Cardinality(s) \in Nat BY <1>1, FS_CardinalityType
<1> QED BY <1>3, <1>4 DEF Small

(* A finite set has such a function on its subsets: from sets of n           *)
(* elements to sets of n + 1.                                                *)
LEMMA SumsExist ==
  ASSUME NEW S, IsFiniteSet(S), NEW c
  PROVE  \E g : Sums(c, SUBSET S, g)
<1> DEFINE Has == {n \in Nat : \E g : Sums(c, Small(S, n), g)}
<1>1. 0 \in Has
  <2>1. Small(S, 0) = {{}}
    <3>1. \A s \in SUBSET S : IsFiniteSet(s) BY FS_Subset
    <3>2. \A s \in SUBSET S : Cardinality(s) <= 0 <=> s = {}
      BY <3>1, FS_EmptySet, FS_CardinalityType
    <3> QED BY <3>2 DEF Small
  <2>2. Sums(c, Small(S, 0), [s \in Small(S, 0) |-> 0]) BY <2>1 DEF Sums
  <2> QED BY <2>2
<1>2. ASSUME NEW n \in Nat, n \in Has PROVE n + 1 \in Has
  <2>1. PICK g : Sums(c, Small(S, n), g) BY <1>2
  <2> DEFINE h == [s \in Small(S, n + 1) |-> IF s = {} THEN 0 ELSE c[Pick(s)] + g[s \ {Pick(s)}]]
  <2>2. \A s \in Small(S, n) : s \in Small(S, n + 1)
    <3>1. \A s \in SUBSET S : Cardinality(s) \in Nat BY FS_Subset, FS_CardinalityType
    <3> QED BY <3>1 DEF Small
  <2>3. \A s \in Small(S, n) : g[s] = h[s] BY <2>1, <2>2 DEF Sums
  <2>4. \A s \in Small(S, n + 1) : s # {} => h[s \ {Pick(s)}] = g[s \ {Pick(s)}]
    BY <2>3, SmallerSet
  <2>5. Sums(c, Small(S, n + 1), h) BY <2>4 DEF Sums
  <2> QED BY <2>5
<1>3. Cardinality(S) \in Has
  <2>1. Cardinality(S) \in Nat BY FS_CardinalityType
  <2> HIDE DEF Has
  <2> QED BY <1>1, <1>2, <2>1, NaturalsAll
<1>4. Small(S, Cardinality(S)) = SUBSET S BY FS_Subset DEF Small
<1> QED BY <1>3, <1>4

(* The sum of c over S, as the library defines it, is what any such        *)
(* function gives.                                                         *)
LEMMA SumIs ==
  ASSUME NEW S, IsFiniteSet(S), NEW c
  PROVE  \E g : Sums(c, SUBSET S, g) /\ SumFunctionOnSet(c, S) = g[S]
<1> DEFINE g == CHOOSE g : Sums(c, SUBSET S, g)
<1>1. Sums(c, SUBSET S, g) BY SumsExist
<1>2. SumFunctionOnSet(c, S) = g[S]
  BY DEF SumFunctionOnSet, FoldFunctionOnSet, MapThenFoldSet, Sums, Pick
<1> QED BY <1>1, <1>2

(* A shorter name for it. *)
Sum(c, S) == SumFunctionOnSet(c, S)

(* A set of subsets of S that holds the empty set, and a set whenever it   *)
(* holds it without its first element, holds them all.                     *)
LEMMA SubsetsAll ==
  ASSUME NEW S, IsFiniteSet(S), NEW C, {} \in C,
         \A T \in SUBSET S : T # {} /\ T \ {Pick(T)} \in C => T \in C
  PROVE  \A T \in SUBSET S : T \in C
<1> DEFINE Has == {n \in Nat : \A T \in Small(S, n) : T \in C}
<1>1. \A T \in SUBSET S : IsFiniteSet(T) /\ Cardinality(T) \in Nat
  BY FS_Subset, FS_CardinalityType
<1>2. 0 \in Has
  <2>1. \A T \in Small(S, 0) : T = {} BY <1>1, FS_EmptySet DEF Small
  <2> QED BY <2>1
<1>3. ASSUME NEW n \in Nat, n \in Has PROVE n + 1 \in Has
  <2>1. \A T \in Small(S, n + 1) : T # {} => T \ {Pick(T)} \in C BY <1>3, SmallerSet
  <2>2. \A T \in Small(S, n + 1) : T \in C BY <2>1 DEF Small
  <2> QED BY <2>2
<1>4. \A n \in Nat : n \in Has
  <2> HIDE DEF Has
  <2> QED BY <1>2, <1>3, NaturalsAll
<1> QED BY <1>1, <1>4 DEF Small

(* Two such functions that sum the same values agree, also on a smaller      *)
(* set.                                                                      *)
LEMMA SumsAgree ==
  ASSUME NEW S, IsFiniteSet(S), NEW T \in SUBSET S, NEW c, NEW d, NEW g, NEW h,
         Sums(c, SUBSET S, g), Sums(d, SUBSET T, h), \A x \in T : c[x] = d[x]
  PROVE  \A s \in SUBSET T : g[s] = h[s]
<1> DEFINE C == {s \in SUBSET T : g[s] = h[s]}
<1>1. IsFiniteSet(T) BY FS_Subset
<1>2. {} \in C BY DEF Sums
<1>3. ASSUME NEW s \in SUBSET T, s # {}, s \ {Pick(s)} \in C PROVE s \in C
  <2>1. Pick(s) \in T BY <1>3, PickIn
  <2>2. g[s] = c[Pick(s)] + g[s \ {Pick(s)}] BY <1>3 DEF Sums
  <2>3. h[s] = d[Pick(s)] + h[s \ {Pick(s)}] BY <1>3 DEF Sums
  <2> QED BY <1>3, <2>1, <2>2, <2>3
<1> HIDE DEF C
<1>4. \A s \in SUBSET T : s \in C BY <1>1, <1>2, <1>3, SubsetsAll
<1> QED BY <1>4 DEF C

(* Nothing sums to 0. *)
LEMMA SumEmpty == \A c : Sum(c, {}) = 0
<1> TAKE c
<1>1. PICK g : Sums(c, SUBSET {}, g) /\ Sum(c, {}) = g[{}] BY SumIs, FS_EmptySet DEF Sum
<1> QED BY <1>1 DEF Sums

(* The sum is that of the element taken first and of the rest. *)
LEMMA SumPick ==
  ASSUME NEW S, IsFiniteSet(S), S # {}, NEW c
  PROVE  Sum(c, S) = c[Pick(S)] + Sum(c, S \ {Pick(S)})
<1> DEFINE T == S \ {Pick(S)}
<1>1. IsFiniteSet(T) /\ T \in SUBSET S BY FS_Subset
<1>2. PICK g : Sums(c, SUBSET S, g) /\ Sum(c, S) = g[S] BY SumIs DEF Sum
<1>3. PICK h : Sums(c, SUBSET T, h) /\ Sum(c, T) = h[T] BY <1>1, SumIs DEF Sum
<1>4. g[S] = c[Pick(S)] + g[T] BY <1>2 DEF Sums
<1>5. g[T] = h[T]
  <2> HIDE DEF T
  <2> QED BY <1>1, <1>2, <1>3, SumsAgree
<1> QED BY <1>2, <1>3, <1>4, <1>5

(* Only the values on the set count. *)
LEMMA SumSame ==
  ASSUME NEW S, IsFiniteSet(S), NEW c, NEW d, \A x \in S : c[x] = d[x]
  PROVE  Sum(c, S) = Sum(d, S)
<1>1. PICK g : Sums(c, SUBSET S, g) /\ Sum(c, S) = g[S] BY SumIs DEF Sum
<1>2. PICK h : Sums(d, SUBSET S, h) /\ Sum(d, S) = h[S] BY SumIs DEF Sum
<1> QED BY <1>1, <1>2, SumsAgree

(* Natural numbers sum to a natural number. *)
LEMMA SumType ==
  ASSUME NEW S, IsFiniteSet(S), NEW c, \A x \in S : c[x] \in Nat
  PROVE  \A T \in SUBSET S : Sum(c, T) \in Nat
<1> DEFINE C == {T \in SUBSET S : Sum(c, T) \in Nat}
<1>1. {} \in C BY SumEmpty
<1>2. ASSUME NEW T \in SUBSET S, T # {}, T \ {Pick(T)} \in C PROVE T \in C
  <2>1. Sum(c, T) = c[Pick(T)] + Sum(c, T \ {Pick(T)}) BY <1>2, SumPick, FS_Subset
  <2>2. c[Pick(T)] \in Nat BY <1>2, PickIn
  <2> QED BY <1>2, <2>1, <2>2
<1> HIDE DEF C
<1>3. \A T \in SUBSET S : T \in C BY <1>1, <1>2, SubsetsAll
<1> QED BY <1>3 DEF C

(* The sum is that of any element and of the rest. *)
LEMMA SumRemove ==
  ASSUME NEW S, IsFiniteSet(S), NEW c, \A x \in S : c[x] \in Nat
  PROVE  \A T \in SUBSET S : \A x \in T : Sum(c, T) = c[x] + Sum(c, T \ {x})
<1> DEFINE Has == {n \in Nat : \A T \in Small(S, n) : \A x \in T : Sum(c, T) = c[x] + Sum(c, T \ {x})}
<1>1. \A T \in SUBSET S : IsFiniteSet(T) /\ Cardinality(T) \in Nat
  BY FS_Subset, FS_CardinalityType
<1>2. 0 \in Has
  <2>1. \A T \in Small(S, 0) : T = {} BY <1>1, FS_EmptySet DEF Small
  <2> QED BY <2>1
<1>3. ASSUME NEW n \in Nat, n \in Has PROVE n + 1 \in Has
  <2>1. SUFFICES ASSUME NEW T \in Small(S, n + 1), NEW x \in T
                 PROVE  Sum(c, T) = c[x] + Sum(c, T \ {x})
    OBVIOUS
  <2>2. T \in SUBSET S /\ IsFiniteSet(T) /\ Cardinality(T) <= n + 1 /\ T # {}
    BY <1>1 DEF Small
  <2>3. PICK p \in T : Sum(c, T) = c[p] + Sum(c, T \ {p}) BY <2>2, PickIn, SumPick
  <2>4. CASE x # p
    <3>1. \A y \in T : T \ {y} \in Small(S, n)
      <4>1. \A y \in T : Cardinality(T \ {y}) = Cardinality(T) - 1 BY <2>2, FS_RemoveElement
      <4> QED BY <1>1, <2>2, <4>1 DEF Small
    <3>2. Sum(c, T \ {p}) = c[x] + Sum(c, (T \ {p}) \ {x}) BY <1>3, <2>4, <3>1
    <3>3. Sum(c, T \ {x}) = c[p] + Sum(c, (T \ {x}) \ {p}) BY <1>3, <2>4, <3>1
    <3>4. (T \ {x}) \ {p} = (T \ {p}) \ {x} OBVIOUS
    <3>5. Sum(c, T \ {x}) = c[p] + Sum(c, (T \ {p}) \ {x}) BY <3>3, <3>4
    <3>6. (T \ {p}) \ {x} \in SUBSET S BY <2>2
    <3>7. Sum(c, (T \ {p}) \ {x}) \in Nat BY <3>6, SumType
    <3>8. c[x] \in Nat /\ c[p] \in Nat BY <2>2
    <3> QED BY <2>3, <3>2, <3>5, <3>7, <3>8
  <2> QED BY <2>3, <2>4
<1>4. \A n \in Nat : n \in Has
  <2> HIDE DEF Has
  <2> QED BY <1>2, <1>3, NaturalsAll
<1>5. ASSUME NEW T \in SUBSET S PROVE \A x \in T : Sum(c, T) = c[x] + Sum(c, T \ {x})
  <2>1. Cardinality(T) \in Nat /\ T \in Small(S, Cardinality(T)) BY <1>1 DEF Small
  <2>2. Cardinality(T) \in Has BY <1>4, <2>1
  <2> QED BY <2>1, <2>2
<1> QED BY <1>5

(* Larger values have a larger sum. *)
LEMMA SumMonotone ==
  ASSUME NEW S, IsFiniteSet(S), NEW c, NEW d,
         \A x \in S : c[x] \in Nat /\ d[x] \in Nat /\ c[x] <= d[x]
  PROVE  Sum(c, S) <= Sum(d, S)
<1> DEFINE C == {T \in SUBSET S : Sum(c, T) <= Sum(d, T)}
<1>1. {} \in C BY SumEmpty
<1>2. ASSUME NEW T \in SUBSET S, T # {}, T \ {Pick(T)} \in C PROVE T \in C
  <2>1. Sum(c, T) = c[Pick(T)] + Sum(c, T \ {Pick(T)}) BY <1>2, SumPick, FS_Subset
  <2>2. Sum(d, T) = d[Pick(T)] + Sum(d, T \ {Pick(T)}) BY <1>2, SumPick, FS_Subset
  <2>3. Pick(T) \in S BY <1>2, PickIn
  <2>4. Sum(c, T \ {Pick(T)}) \in Nat /\ Sum(d, T \ {Pick(T)}) \in Nat BY SumType
  <2> QED BY <1>2, <2>1, <2>2, <2>3, <2>4
<1> HIDE DEF C
<1>3. \A T \in SUBSET S : T \in C BY <1>1, <1>2, SubsetsAll
<1> QED BY <1>3 DEF C

(* The sum of sums. *)
LEMMA SumPlus ==
  ASSUME NEW S, IsFiniteSet(S), NEW c, NEW d, NEW e,
         \A x \in S : c[x] \in Nat /\ d[x] \in Nat /\ e[x] = c[x] + d[x]
  PROVE  Sum(e, S) = Sum(c, S) + Sum(d, S)
<1> DEFINE C == {T \in SUBSET S : Sum(e, T) = Sum(c, T) + Sum(d, T)}
<1>1. {} \in C BY SumEmpty
<1>2. ASSUME NEW T \in SUBSET S, T # {}, T \ {Pick(T)} \in C PROVE T \in C
  <2>1. Sum(c, T) = c[Pick(T)] + Sum(c, T \ {Pick(T)}) BY <1>2, SumPick, FS_Subset
  <2>2. Sum(d, T) = d[Pick(T)] + Sum(d, T \ {Pick(T)}) BY <1>2, SumPick, FS_Subset
  <2>3. Sum(e, T) = e[Pick(T)] + Sum(e, T \ {Pick(T)}) BY <1>2, SumPick, FS_Subset
  <2>4. Pick(T) \in S BY <1>2, PickIn
  <2>5. Sum(c, T \ {Pick(T)}) \in Nat /\ Sum(d, T \ {Pick(T)}) \in Nat BY SumType
  <2> QED BY <1>2, <2>1, <2>2, <2>3, <2>4, <2>5
<1> HIDE DEF C
<1>3. \A T \in SUBSET S : T \in C BY <1>1, <1>2, SubsetsAll
<1> QED BY <1>3 DEF C

(* The sum over a subset is that of the function cut to it. *)
LEMMA SumOver ==
  ASSUME NEW S, IsFiniteSet(S), NEW c, \A x \in S : c[x] \in Nat, NEW U \in SUBSET S
  PROVE  Sum(c, U) = Sum([x \in S |-> IF x \in U THEN c[x] ELSE 0], S)
<1> DEFINE d == [x \in S |-> IF x \in U THEN c[x] ELSE 0]
           C == {T \in SUBSET S : Sum(d, T) = Sum(c, T \cap U)}
<1>1. {} \in C
  <2>1. {} \cap U = {} OBVIOUS
  <2> HIDE DEF d
  <2> QED BY <2>1, SumEmpty
<1>2. ASSUME NEW T \in SUBSET S, T # {}, T \ {Pick(T)} \in C PROVE T \in C
  <2> DEFINE p == Pick(T)
             V == T \cap U
  <2>1. p \in T BY <1>2, PickIn
  <2>2. Sum(d, T) = d[p] + Sum(d, T \ {p})
    <3> HIDE DEF d
    <3> QED BY <1>2, SumPick, FS_Subset
  <2>3. Sum(d, T \ {p}) = Sum(c, (T \ {p}) \cap U) BY <1>2
  <2>4. Sum(c, V) = d[p] + Sum(c, (T \ {p}) \cap U)
    <3>1. CASE p \in U
      <4>1. (T \ {p}) \cap U = V \ {p} /\ p \in V /\ V \in SUBSET S BY <2>1, <3>1
      <4>2. d[p] = c[p] BY <2>1, <3>1
      <4>3. Sum(c, V) = c[p] + Sum(c, V \ {p})
        <5> HIDE DEF V, p
        <5> QED BY <4>1, SumRemove
      <4> QED BY <4>1, <4>2, <4>3
    <3>2. CASE p \notin U
      <4>1. (T \ {p}) \cap U = V BY <3>2
      <4>2. d[p] = 0 BY <2>1, <3>2
      <4>3. Sum(c, V) \in Nat BY SumType
      <4> HIDE DEF V, p, d
      <4> QED BY <4>1, <4>2, <4>3
    <3> QED BY <3>1, <3>2
  <2> HIDE DEF d, p
  <2> QED BY <2>2, <2>3, <2>4
<1> HIDE DEF C
<1>3. \A T \in SUBSET S : T \in C BY <1>1, <1>2, SubsetsAll
<1>4. S \cap U = U OBVIOUS
<1> QED BY <1>3, <1>4 DEF C

(* A constant summed over a set. *)
LEMMA SumConstant ==
  ASSUME NEW S, IsFiniteSet(S), NEW K \in Nat, NEW c, \A x \in S : c[x] = K
  PROVE  Sum(c, S) = Cardinality(S) * K
<1> DEFINE C == {T \in SUBSET S : Sum(c, T) = Cardinality(T) * K}
<1>1. {} \in C BY SumEmpty, FS_EmptySet
<1>2. ASSUME NEW T \in SUBSET S, T # {}, T \ {Pick(T)} \in C PROVE T \in C
  <2>1. Sum(c, T) = c[Pick(T)] + Sum(c, T \ {Pick(T)}) BY <1>2, SumPick, FS_Subset
  <2>2. Pick(T) \in T /\ c[Pick(T)] = K BY <1>2, PickIn
  <2>3. IsFiniteSet(T) BY FS_Subset
  <2>4. Cardinality(T \ {Pick(T)}) = Cardinality(T) - 1 BY <2>2, <2>3, FS_RemoveElement
  <2>5. Cardinality(T) \in Nat BY <2>3, FS_CardinalityType
  <2>6. \A n \in Nat : K + (n - 1) * K = n * K OBVIOUS
  <2> QED BY <1>2, <2>1, <2>2, <2>4, <2>5, <2>6
<1> HIDE DEF C
<1>3. \A T \in SUBSET S : T \in C BY <1>1, <1>2, SubsetsAll
<1> QED BY <1>3 DEF C

-------------------------------------------------------------------------------

(* What a run whose model the table prices may add to a month's rows when it *)
(* was let through: it begins with a budget of at most Limit, and is stopped *)
(* after the call that crosses it.                                           *)
Allowance == Limit - 1 + MaxCall

(* The two accounts: TRUE is of all jobs, FALSE of those whose model the     *)
(* table prices.                                                             *)
Counts(all, j) == all \/ job[j].kind = "table"

(* What the run of job j may still write, however it ends. *)
Due(all, j) ==
  IF j \in UnderWay THEN IF all THEN MaxRun ELSE run[j].left - 1 + MaxCall ELSE 0

(* What the row of each job created and begun in month m shows, or may       *)
(* come to show.                                                             *)
Load(all, m) == [j \in Jobs |-> IF j \in RunIn(m) /\ Counts(all, j) THEN job[j].cost + Due(all, j) ELSE 0]

(* The most a run weighs in an account, and the account's limit. *)
Weight(all) == IF all THEN MaxRun ELSE Allowance
Ceiling(all) == IF all THEN Limit - 1 + Slots * MaxRun ELSE Slots * Allowance

(* The potential argument: rows and runs under way together stay within the  *)
(* limit of each account.                                                    *)
Committed == \A all \in BOOLEAN, m \in Months : Sum(Load(all, m), Jobs) <= Ceiling(all)

(* No more runs are under way than there are slots. *)
SlotsKept == Cardinality(UnderWay) <= Slots

(* A row not yet created has cost nothing; a run under way found something   *)
(* left, its price is that of its calls, and, if that is what is compared    *)
(* and recorded, less than it found and one call.                            *)
Budgets ==
  \A j \in Jobs :
    /\ job[j].status = "absent" => job[j].cost = 0 /\ run[j].at = "none"
    /\ j \in UnderWay => /\ run[j].left > 0 /\ run[j].price <= run[j].calls * MaxCall
                         /\ job[j].kind = "table" => run[j].price <= run[j].left - 1 + MaxCall

(* An upload not yet begun has nothing; one between put_object and its       *)
(* commit has its object and no row.                                         *)
Uploads ==
  \A f \in Files : /\ file[f].upload = "none" => file[f] = NoUpload
                   /\ file[f].upload = "put" => file[f] = [NoUpload EXCEPT !.upload = "put", !.object = TRUE]

(* What a pass of cleanup_tick has listed is expired, and what it has        *)
(* removed has no object.                                                    *)
Passes ==
  /\ pass.at # "files" => pass.todo = {} /\ pass.removed = {}
  /\ \A f \in pass.todo \cup pass.removed : Expired(f)
  /\ \A f \in pass.removed : ~file[f].object

(* The invariant of the spending. *)
SpendInv == Committed /\ SlotsKept /\ Budgets

(* The invariant of the files. *)
FileInv == Uploads /\ Passes /\ FilesHonest

(* The inductive invariant. *)
IInv == TypeOK /\ SpendInv /\ FileInv

(* The constants are numbers of the ranges the records need. *)
LEMMA Numbers ==
  ASSUME RecordsAssumption
  PROVE  /\ Slots \in Nat \ {0} /\ Limit \in Nat \ {0} /\ MaxCall \in Nat \ {0} /\ LastDay \in Nat
         /\ MaxCalls \in Nat /\ Allowance \in Nat /\ MaxRun \in Nat /\ Slots * Allowance \in Nat
         /\ \A all \in BOOLEAN : Weight(all) \in Nat /\ Ceiling(all) \in Nat
         /\ \A n \in 0..MaxCalls : n * MaxCall \in 0..MaxRun
         /\ 0 \in Days /\ \A day : Month(day) \in Months
<1>1. /\ Slots \in Nat \ {0} /\ Limit \in Nat \ {0} /\ MaxCall \in Nat \ {0} /\ LastDay \in Nat
      /\ MaxCalls \in Nat
  BY DEF RecordsAssumption
<1>2. Allowance \in Nat /\ MaxRun \in Nat BY <1>1 DEF Allowance, MaxRun
<1>3. Slots * Allowance \in Nat /\ Slots * MaxRun \in Nat BY <1>1, <1>2
<1>4. \A all \in BOOLEAN : Weight(all) \in Nat /\ Ceiling(all) \in Nat
  BY <1>1, <1>2, <1>3 DEF Weight, Ceiling
<1>5. ASSUME NEW n \in 0..MaxCalls PROVE n * MaxCall \in 0..MaxRun
  <2>1. n \in Nat /\ MaxCalls - n \in Nat BY <1>1
  <2>2. n * MaxCall \in Nat /\ (MaxCalls - n) * MaxCall \in Nat BY <1>1, <2>1
  <2>3. n * MaxCall + (MaxCalls - n) * MaxCall = MaxCalls * MaxCall BY <1>1, <2>1
  <2> QED BY <1>2, <2>2, <2>3 DEF MaxRun
<1>6. 0 \in Days /\ \A day : Month(day) \in Months BY <1>1 DEF Days, Month, Months
<1> QED BY <1>1, <1>2, <1>3, <1>4, <1>5, <1>6

(* Rows and runs begin within their types. *)
LEMMA Blank ==
  ASSUME RecordsAssumption
  PROVE  NewJob \in JobRecord /\ NewJob.cost = 0 /\ NoRun \in RunRecord
<1>1. NewJob \in JobRecord /\ NewJob.cost = 0 BY Numbers DEF NewJob, JobRecord
<1>2. NoRun \in RunRecord BY Numbers DEF NoRun, RunRecord
<1> QED BY <1>1, <1>2

(* Costs, and what may still be added to them, are numbers. *)
LEMMA LoadType ==
  ASSUME RecordsAssumption, TypeOK, Budgets, NEW all \in BOOLEAN, NEW m
  PROVE  \A j \in Jobs : Load(all, m)[j] \in Nat /\ Cost[j] \in Nat /\ Due(all, j) \in Nat
<1>1. \A j \in Jobs : job[j].cost \in Nat /\ run[j].left \in Nat
  BY Numbers DEF TypeOK, JobRecord, RunRecord
<1>2. \A j \in Jobs : Due(all, j) \in Nat BY <1>1, Numbers DEF Due, Budgets
<1> QED BY <1>1, <1>2 DEF Load, Cost

(* What a month's rows have is within what its runs may still cost: the      *)
(* rows' part of the load is at most the load.                               *)
LEMMA CommittedBounds ==
  ASSUME RecordsAssumption, TypeOK, SpendInv
  PROVE  SpendBounded
<1>1. ASSUME NEW all \in BOOLEAN, NEW m \in Months, NEW K,
             \A j \in Jobs : job[j].kind \in K => Counts(all, j)
      PROVE  Recorded(m, K) <= Ceiling(all)
  <2> DEFINE U == {j \in RunIn(m) : job[j].kind \in K}
             d == [j \in Jobs |-> IF j \in U THEN Cost[j] ELSE 0]
  <2>2. IsFiniteSet(Jobs) BY DEF RecordsAssumption
  <2>3. \A j \in Jobs : Load(all, m)[j] \in Nat /\ Cost[j] \in Nat /\ Due(all, j) \in Nat
    BY LoadType DEF SpendInv
  <2>4. U \in SUBSET Jobs BY DEF RunIn
  <2>5. Recorded(m, K) = Sum(Cost, U) BY DEF Recorded, Sum
  <2>6. \A j \in Jobs : d[j] \in Nat /\ d[j] <= Load(all, m)[j]
    <3>1. SUFFICES ASSUME NEW j \in Jobs PROVE d[j] \in Nat /\ d[j] <= Load(all, m)[j] OBVIOUS
    <3>2. CASE j \in U
      <4>1. Load(all, m)[j] = job[j].cost + Due(all, j) BY <1>1, <3>2 DEF Load
      <4> QED BY <2>3, <3>2, <4>1 DEF Cost
    <3>3. CASE j \notin U BY <2>3, <3>3
    <3> QED BY <3>2, <3>3
  <2> HIDE DEF U
  <2>7. Sum(Cost, U) = Sum(d, Jobs) BY <2>2, <2>3, <2>4, SumOver
  <2> HIDE DEF d
  <2>8. Sum(d, Jobs) <= Sum(Load(all, m), Jobs) BY <2>2, <2>3, <2>6, SumMonotone
  <2>9. Sum(d, Jobs) \in Nat /\ Sum(Load(all, m), Jobs) \in Nat BY <2>2, <2>3, <2>6, SumType
  <2>10. Sum(Load(all, m), Jobs) <= Ceiling(all) BY DEF SpendInv, Committed
  <2> QED BY <2>5, <2>7, <2>8, <2>9, <2>10, Numbers
<1>2. \A j \in Jobs : job[j].kind \in {"table"} => Counts(FALSE, j) BY DEF Counts
<1>3. \A j \in Jobs : job[j].kind \in Kinds => Counts(TRUE, j) BY DEF Counts
<1>4. ASSUME NEW m \in Months
      PROVE  /\ Recorded(m, {"table"}) <= Slots * (Limit - 1 + MaxCall)
             /\ Recorded(m, Kinds) <= Limit - 1 + Slots * MaxRun
  <2>1. Recorded(m, {"table"}) <= Ceiling(FALSE) BY <1>1, <1>2
  <2>2. Recorded(m, Kinds) <= Ceiling(TRUE) BY <1>1, <1>3
  <2> QED BY <2>1, <2>2 DEF Ceiling, Allowance
<1> QED BY <1>4 DEF SpendBounded

(* At the beginning nothing was submitted, uploaded or spent. *)
LEMMA InitInv == ASSUME RecordsAssumption, Init PROVE IInv
<1>1. TypeOK
  <2>1. NewJob \in JobRecord /\ NoRun \in RunRecord BY Blank
  <2>3. NoUpload \in FileRecord BY Numbers DEF NoUpload, FileRecord, RecordsAssumption
  <2>4. NoPass \in PassRecord BY Numbers DEF NoPass, PassRecord
  <2>5. crashes \in 0..MaxCrashes BY DEF Init, RecordsAssumption
  <2> QED BY <2>1, <2>3, <2>4, <2>5, Numbers DEF Init, TypeOK
<1>2. UnderWay = {} BY DEF Init, UnderWay, NoRun
<1>3. SlotsKept BY <1>2, FS_EmptySet, Numbers DEF SlotsKept
<1>4. Budgets BY <1>2 DEF Init, Budgets, NewJob, NoRun
<1>5. Committed
  <2>1. SUFFICES ASSUME NEW all \in BOOLEAN, NEW m \in Months
                 PROVE  Sum(Load(all, m), Jobs) <= Ceiling(all)
    BY DEF Committed
  <2>2. \A j \in Jobs : Load(all, m)[j] = 0 BY <1>2 DEF Load, Due, Init, NewJob
  <2>3. Sum(Load(all, m), Jobs) = Cardinality(Jobs) * 0 BY <2>2, SumConstant DEF RecordsAssumption
  <2>4. Cardinality(Jobs) \in Nat BY FS_CardinalityType DEF RecordsAssumption
  <2> QED BY <2>3, <2>4, Numbers
<1>6. FileInv BY DEF Init, FileInv, Uploads, Passes, FilesHonest, NoUpload, NoPass
<1> QED BY <1>1, <1>3, <1>4, <1>5, <1>6 DEF IInv, SpendInv

(* What the runs of jobs do not touch. *)
Rest == <<now, file, pass, crashes>>

(* What jobs do to their rows and runs leaves files, pass and day alone. *)
LEMMA FilesAlone == ASSUME FileInv, UNCHANGED Rest PROVE FileInv'
BY DEF Rest, FileInv, Uploads, Passes, FilesHonest, Expired

(* No run is begun, and no month's rows and runs weigh more. *)
LEMMA NoHeavier ==
  ASSUME RecordsAssumption, TypeOK, SpendInv, TypeOK', Budgets',
         \A k \in Jobs : k \in UnderWay' => k \in UnderWay,
         \A all \in BOOLEAN, m \in Months, k \in Jobs : Load(all, m)'[k] <= Load(all, m)[k]
  PROVE  SpendInv'
<1>1. IsFiniteSet(Jobs) BY DEF RecordsAssumption
<1>2. SlotsKept'
  <2>1. UnderWay' \in SUBSET UnderWay /\ UnderWay \in SUBSET Jobs BY DEF UnderWay
  <2>2. IsFiniteSet(UnderWay) /\ IsFiniteSet(UnderWay') BY <1>1, <2>1, FS_Subset
  <2>3. Cardinality(UnderWay') <= Cardinality(UnderWay) BY <2>1, <2>2, FS_Subset
  <2>4. Cardinality(UnderWay') \in Nat /\ Cardinality(UnderWay) \in Nat BY <2>2, FS_CardinalityType
  <2> QED BY <2>3, <2>4, Numbers DEF SpendInv, SlotsKept
<1>3. ASSUME NEW all \in BOOLEAN, NEW m \in Months PROVE Sum(Load(all, m)', Jobs) <= Ceiling(all)
  <2>1. \A k \in Jobs : Load(all, m)[k] \in Nat BY LoadType DEF SpendInv
  <2>2. \A k \in Jobs : Load(all, m)'[k] \in Nat
    <3>1. \A k \in Jobs : job'[k].cost \in Nat /\ run'[k].left \in Nat
      BY Numbers DEF TypeOK, JobRecord, RunRecord
    <3>2. \A k \in Jobs : Due(all, k)' \in Nat BY <3>1, Numbers DEF Due, Budgets
    <3> QED BY <3>1, <3>2 DEF Load
  <2>3. \A k \in Jobs : Load(all, m)'[k] <= Load(all, m)[k] OBVIOUS
  <2>4. Sum(Load(all, m)', Jobs) <= Sum(Load(all, m), Jobs) BY <1>1, <2>1, <2>2, <2>3, SumMonotone
  <2>5. Sum(Load(all, m)', Jobs) \in Nat /\ Sum(Load(all, m), Jobs) \in Nat BY <1>1, <2>1, <2>2, SumType
  <2>6. Sum(Load(all, m), Jobs) <= Ceiling(all) BY DEF SpendInv, Committed
  <2> QED BY <2>4, <2>5, <2>6, Numbers
<1>4. Committed' BY <1>3 DEF Committed, Ceiling, Allowance, MaxRun, Sum
<1> QED BY <1>2, <1>4 DEF SpendInv

(* Job j takes a step that begins no run: its row says r, its run is at q. *)
LEMMA OneJob ==
  ASSUME RecordsAssumption, IInv, UNCHANGED Rest, unbilled' \subseteq Jobs,
         NEW j \in Jobs, NEW r \in JobRecord, NEW q \in RunRecord,
         job' = [job EXCEPT ![j] = r], run' = [run EXCEPT ![j] = q],
         r.status = "absent" => r = job[j] /\ q = run[j],
         q.at \in {"setup", "loop"} =>
           /\ run[j].at \in {"setup", "loop"} /\ q.left = run[j].left
           /\ r.cost = job[j].cost /\ r.kind = job[j].kind
           /\ q.price <= q.calls * MaxCall
           /\ r.kind = "table" => q.price <= q.left - 1 + MaxCall,
         \/ r.cost = 0 /\ q.at \notin {"setup", "loop"}
         \/ /\ r.born = job[j].born /\ r.begun = job[j].begun /\ r.kind = job[j].kind
            /\ \/ r.cost = job[j].cost
               \/ /\ run[j].at \in {"setup", "loop"}
                  /\ r.kind = "table" => r.cost = run[j].price
  PROVE  IInv'
<1>1. TypeOK' BY DEF IInv, TypeOK, Rest
<1>2. /\ job'[j] = r /\ run'[j] = q
      /\ \A k \in Jobs : k # j => job'[k] = job[k] /\ run'[k] = run[k]
  BY DEF IInv, TypeOK
<1>3. Budgets' BY <1>2 DEF IInv, SpendInv, Budgets, UnderWay
<1>4. \A k \in Jobs : k \in UnderWay' => k \in UnderWay BY <1>2 DEF UnderWay
<1>5. ASSUME NEW all \in BOOLEAN, NEW m \in Months, NEW k \in Jobs
      PROVE  Load(all, m)'[k] <= Load(all, m)[k]
  <2>1. Load(all, m)[k] \in Nat BY LoadType DEF IInv, SpendInv
  <2>2. job[k].cost \in Nat /\ run[k].price \in Nat /\ run[k].left \in Nat /\ Due(all, k) \in Nat
    <3>1. job[k] \in JobRecord /\ run[k] \in RunRecord BY DEF IInv, TypeOK
    <3>2. job[k].cost \in Nat /\ run[k].price \in Nat /\ run[k].left \in Nat
      BY <3>1, Numbers DEF JobRecord, RunRecord
    <3> QED BY <3>2, LoadType DEF IInv, SpendInv
  <2>3. CASE k # j
    <3>1. Load(all, m)'[k] = Load(all, m)[k] BY <1>2, <2>3 DEF Load, RunIn, Due, UnderWay, Counts
    <3> QED BY <2>1, <3>1
  <2>4. CASE k = j
    <3>1. r.cost \in Nat /\ r.cost <= MaxRun BY Numbers DEF JobRecord
    <3>2. CASE r.cost = 0 /\ q.at \notin {"setup", "loop"}
      <4>1. Load(all, m)'[k] = 0 BY <1>2, <2>4, <3>2 DEF Load, Due, UnderWay
      <4> QED BY <2>1, <4>1
    <3>3. CASE r.born = job[j].born /\ r.begun = job[j].begun /\ r.kind = job[j].kind
      <4>1. /\ k \in RunIn(m)' <=> k \in RunIn(m)
            /\ Counts(all, k)' <=> Counts(all, k)
        BY <1>2, <2>4, <3>3 DEF RunIn, Counts
      <4>2. ASSUME Counts(all, k) PROVE job'[k].cost + Due(all, k)' <= job[k].cost + Due(all, k)
        <5>1. CASE run[j].at \in {"setup", "loop"}
          <6>1. Due(all, k) = IF all THEN MaxRun ELSE run[k].left - 1 + MaxCall
            BY <2>4, <5>1 DEF Due, UnderWay
          <6>2. CASE q.at \in {"setup", "loop"}
            <7>1. Due(all, k)' = Due(all, k) BY <1>2, <2>4, <5>1, <6>2 DEF Due, UnderWay
            <7>2. job'[k].cost = job[k].cost BY <1>2, <2>4, <6>2
            <7> QED BY <2>2, <7>1, <7>2
          <6>3. CASE q.at \notin {"setup", "loop"}
            <7>1. Due(all, k)' = 0 BY <1>2, <2>4, <6>3 DEF Due, UnderWay
            <7>2. CASE r.cost = job[j].cost BY <1>2, <2>2, <2>4, <7>1, <7>2
            <7>3. CASE r.kind = "table" => r.cost = run[j].price
              <8>1. r.cost <= Due(all, k)
                <9>1. CASE all BY <3>1, <6>1, <9>1
                <9>2. CASE ~all
                  <10>1. job[k].kind = "table" BY <4>2, <9>2 DEF Counts
                  <10>2. run[k].price <= run[k].left - 1 + MaxCall
                    BY <2>4, <5>1, <10>1 DEF IInv, SpendInv, Budgets, UnderWay
                  <10> QED BY <2>4, <3>3, <6>1, <7>3, <9>2, <10>1, <10>2
                <9> QED BY <9>1, <9>2
              <8> QED BY <1>2, <2>2, <2>4, <3>1, <7>1, <8>1
            <7> QED BY <3>2, <3>3, <5>1, <6>3, <7>2, <7>3, <2>4, <1>2, <2>2, <7>1
          <6> QED BY <6>2, <6>3
        <5>2. CASE run[j].at \notin {"setup", "loop"}
          <6>1. Due(all, k)' = 0 BY <1>2, <2>4, <5>2 DEF Due, UnderWay
          <6> QED BY <1>2, <2>2, <2>4, <3>1, <3>2, <3>3, <5>2, <6>1
        <5> QED BY <5>1, <5>2
      <4>3. Load(all, m)'[k] = IF k \in RunIn(m)' /\ Counts(all, k)' THEN job'[k].cost + Due(all, k)' ELSE 0
        BY DEF Load
      <4>4. Load(all, m)[k] = IF k \in RunIn(m) /\ Counts(all, k) THEN job[k].cost + Due(all, k) ELSE 0
        BY DEF Load
      <4> QED BY <4>1, <4>2, <4>3, <4>4
    <3> QED BY <3>2, <3>3
  <2> QED BY <2>3, <2>4
<1>6. SpendInv' BY <1>1, <1>3, <1>4, <1>5, NoHeavier DEF IInv
<1>7. FileInv' BY FilesAlone DEF IInv
<1> QED BY <1>1, <1>6, <1>7 DEF IInv

(* create_job writes a row that has cost nothing. *)
LEMMA SubmitStep == ASSUME RecordsAssumption, IInv, NEW j \in Jobs, Submit(j) PROVE IInv'
<1>1. PICK f \in Files \cup {NoFile}, kind \in Kinds :
        job' = [job EXCEPT ![j] = [NewJob EXCEPT !.status = "queued", !.born = now, !.begun = now,
                                                 !.kind = kind, !.file = f]]
  BY DEF Submit
<1> DEFINE r == [NewJob EXCEPT !.status = "queued", !.born = now, !.begun = now,
                               !.kind = kind, !.file = f]
           q == [run[j] EXCEPT !.at = "preflight"]
<1>2. run[j] \in RunRecord /\ now \in Days BY DEF IInv, TypeOK
<1>3. r \in JobRecord /\ r.status = "queued" /\ r.cost = 0
  <2>1. NewJob \in JobRecord /\ NewJob.cost = 0 BY Blank
  <2> QED BY <1>2, <2>1 DEF JobRecord
<1>4. q \in RunRecord /\ q.at = "preflight" BY <1>2 DEF RunRecord
<1>5. run' = [run EXCEPT ![j] = q] BY DEF Submit, IInv, TypeOK
<1>6. job' = [job EXCEPT ![j] = r] BY <1>1
<1>7. UNCHANGED Rest /\ unbilled' \subseteq Jobs BY DEF Submit, Rest, IInv, TypeOK
<1> HIDE DEF r, q
<1> QED BY <1>3, <1>4, <1>5, <1>6, <1>7, OneJob

(* A run that is over, with another status and maybe its cost on the row. *)
LEMMA RunEnds ==
  ASSUME RecordsAssumption, IInv, UNCHANGED Rest, unbilled' \subseteq Jobs,
         NEW j \in Jobs, NEW r \in JobRecord,
         r.status # "absent", r.born = job[j].born, r.begun = job[j].begun, r.kind = job[j].kind,
         \/ r.cost = job[j].cost
         \/ /\ run[j].at \in {"setup", "loop"}
            /\ r.kind = "table" => r.cost = run[j].price,
         NEW where \in {"none", "waiting"},
         job' = [job EXCEPT ![j] = r], run' = [run EXCEPT ![j] = [NoRun EXCEPT !.at = where]]
  PROVE  IInv'
<1> DEFINE q == [NoRun EXCEPT !.at = where]
<1>1. q \in RunRecord /\ q.at \notin {"setup", "loop"}
  <2>1. NoRun \in RunRecord BY Blank
  <2> QED BY <2>1 DEF RunRecord
<1>2. run' = [run EXCEPT ![j] = q] OBVIOUS
<1> HIDE DEF q
<1> QED BY <1>1, <1>2, OneJob

(* The run goes on, or ends where the row stays as it is. *)
LEMMA RunMoves ==
  ASSUME RecordsAssumption, IInv, UNCHANGED Rest, UNCHANGED job, unbilled' \subseteq Jobs,
         NEW j \in Jobs, job[j].status # "absent", NEW q \in RunRecord,
         run' = [run EXCEPT ![j] = q],
         q.at \in {"setup", "loop"} =>
           /\ run[j].at \in {"setup", "loop"} /\ q.left = run[j].left
           /\ q.price <= q.calls * MaxCall
           /\ job[j].kind = "table" => q.price <= q.left - 1 + MaxCall
  PROVE  IInv'
<1> DEFINE r == job[j]
<1>1. r \in JobRecord BY DEF IInv, TypeOK
<1>2. job' = [job EXCEPT ![j] = r] BY DEF IInv, TypeOK
<1> HIDE DEF r
<1>3. /\ r.status = "absent" => FALSE
      /\ r.born = job[j].born /\ r.begun = job[j].begun /\ r.cost = job[j].cost
      /\ r.kind = job[j].kind
  BY DEF r
<1> QED BY <1>1, <1>2, <1>3, OneJob

(* NoRun is where a run is that is not under way. *)
LEMMA NoRunAt == NoRun = [NoRun EXCEPT !.at = "none"]
BY DEF NoRun

(* The budget refused at either check, a run that loads its content, a       *)
(* retry: no cost is written, no run begun.                                  *)
LEMMA WaitingStep ==
  ASSUME RecordsAssumption, IInv, NEW j \in Jobs,
         Preflight(j) \/ (Begin(j) /\ Exhausted) \/ LoadContent(j) \/ Retry(j)
  PROVE  IInv'
<1>1. /\ job[j] \in JobRecord /\ run[j] \in RunRecord
      /\ UNCHANGED Rest /\ unbilled' \subseteq Jobs
  BY DEF Preflight, Begin, LoadContent, Retry, Rest, IInv, TypeOK
<1>2. job[j].status # "absent"
  BY DEF Preflight, Begin, LoadContent, Retry, Retriable, IInv, SpendInv, Budgets
<1>3. CASE (Preflight(j) \/ Begin(j)) /\ Exhausted
  <2>1. PICK output \in BOOLEAN :
          job' = [job EXCEPT ![j] = [job[j] EXCEPT !.status = "budget_exceeded", !.output = output]]
    <3>1. CASE Preflight(j)
      <4>1. job' = [job EXCEPT ![j] = [job[j] EXCEPT !.status = "budget_exceeded"]]
        BY <1>3, <3>1 DEF Preflight, IInv, TypeOK
      <4>2. job[j].output \in BOOLEAN BY <1>1 DEF JobRecord
      <4>3. [job[j] EXCEPT !.status = "budget_exceeded"]
              = [job[j] EXCEPT !.status = "budget_exceeded", !.output = job[j].output]
        BY <1>1 DEF JobRecord
      <4> QED BY <4>1, <4>2, <4>3
    <3>2. CASE Begin(j)
      BY <1>3, <3>2 DEF Begin, IInv, TypeOK
    <3> QED BY <1>3, <3>1, <3>2
  <2>2. run' = [run EXCEPT ![j] = [NoRun EXCEPT !.at = "none"]]
    BY <1>3, NoRunAt DEF Preflight, Begin
  <2> DEFINE r == [job[j] EXCEPT !.status = "budget_exceeded", !.output = output]
  <2>3. /\ r \in JobRecord /\ r.status # "absent" /\ r.born = job[j].born
        /\ r.begun = job[j].begun /\ r.cost = job[j].cost /\ r.kind = job[j].kind
    BY <1>1 DEF JobRecord, Ends
  <2>4. job' = [job EXCEPT ![j] = r] BY <2>1
  <2> HIDE DEF r
  <2> QED BY <1>1, <2>2, <2>3, <2>4, RunEnds
<1>4. CASE Preflight(j) /\ ~Exhausted
  <2> DEFINE q == [run[j] EXCEPT !.at = "waiting"]
  <2>1. q \in RunRecord /\ q.at = "waiting" BY <1>1 DEF RunRecord
  <2>2. run' = [run EXCEPT ![j] = q] /\ UNCHANGED job BY <1>4 DEF Preflight, IInv, TypeOK
  <2> HIDE DEF q
  <2> QED BY <1>1, <1>2, <2>1, <2>2, RunMoves
<1>5. CASE LoadContent(j)
  <2>1. PICK to \in {"broken", "loop"} : run' = [run EXCEPT ![j].at = to]
    BY <1>5 DEF LoadContent
  <2> DEFINE q == [run[j] EXCEPT !.at = to]
  <2>2. run[j].at = "setup" /\ UNCHANGED job BY <1>5 DEF LoadContent
  <2>3. /\ q \in RunRecord /\ q.left = run[j].left
        /\ q.price = run[j].price /\ q.calls = run[j].calls
    BY <1>1 DEF RunRecord
  <2>4. run' = [run EXCEPT ![j] = q] BY <2>1 DEF IInv, TypeOK
  <2>5. /\ run[j].price <= run[j].calls * MaxCall
        /\ job[j].kind = "table" => run[j].price <= run[j].left - 1 + MaxCall
    BY <2>2 DEF IInv, SpendInv, Budgets, UnderWay
  <2> HIDE DEF q
  <2> QED BY <1>1, <1>2, <2>2, <2>3, <2>4, <2>5, RunMoves
<1>6. CASE Retry(j)
  <2> DEFINE r == [job[j] EXCEPT !.status = "queued", !.output = FALSE]
             q == [run[j] EXCEPT !.at = "waiting"]
  <2>1. /\ r \in JobRecord /\ r.status # "absent" /\ r.born = job[j].born
        /\ r.begun = job[j].begun /\ r.cost = job[j].cost /\ r.kind = job[j].kind
    BY <1>1 DEF JobRecord
  <2>2. q \in RunRecord /\ q.at = "waiting" BY <1>1 DEF RunRecord
  <2>3. job' = [job EXCEPT ![j] = r] /\ run' = [run EXCEPT ![j] = q]
    BY <1>6 DEF Retry, IInv, TypeOK
  <2> HIDE DEF r, q
  <2> QED BY <1>1, <2>1, <2>2, <2>3, OneJob
<1> QED BY <1>3, <1>4, <1>5, <1>6

(* A call, and every way for a run to end: what _finalize writes is at       *)
(* most what the run was due.                                                *)
LEMMA LoopStep ==
  ASSUME RecordsAssumption, IInv, NEW j \in Jobs,
         \/ Call(j) \/ Returns(j) \/ StopOverBudget(j) \/ StopOverCalls(j)
         \/ Raises(j) \/ Transient(j)
  PROVE  IInv'
<1>1. /\ job[j] \in JobRecord /\ run[j] \in RunRecord /\ run[j].at = "loop"
      /\ UNCHANGED Rest /\ unbilled' \subseteq Jobs
  BY DEF Call, Returns, StopOverBudget, StopOverCalls, Raises, Transient, FinalizeUsage, Finalize,
         Ending, Forgets, Rest, IInv, TypeOK
<1>2. job[j].status # "absent" BY <1>1 DEF IInv, SpendInv, Budgets
<1>3. /\ run[j].price \in Nat /\ run[j].left \in Nat /\ run[j].calls \in 0..MaxCalls
      /\ run[j].price <= run[j].calls * MaxCall
      /\ job[j].kind = "table" => run[j].price <= run[j].left - 1 + MaxCall
  BY <1>1, Numbers DEF RunRecord, IInv, SpendInv, Budgets, UnderWay
<1>4. CASE Call(j)
  <2>1. PICK p \in Prices(j) : run' = [run EXCEPT ![j].calls = @ + 1, ![j].price = @ + p]
    BY <1>4 DEF Call
  <2> DEFINE q == [run[j] EXCEPT !.calls = @ + 1, !.price = @ + p]
  <2>2. /\ job[j].kind = "table" => run[j].price < run[j].left
        /\ run[j].calls + 1 \in 0..MaxCalls
    <3>1. MaxCalls \in Nat \ {0} BY DEF RecordsAssumption
    <3> QED BY <1>3, <1>4, <3>1 DEF Call, OverMidRun, CallLimit
  <2>3. p \in 0..MaxCall BY Numbers DEF Prices
  <2>4. run[j].price + p \in 0..MaxRun /\ run[j].price + p <= (run[j].calls + 1) * MaxCall
    <3>1. (run[j].calls + 1) * MaxCall \in 0..MaxRun BY <2>2, Numbers
    <3>2. (run[j].calls + 1) * MaxCall = run[j].calls * MaxCall + MaxCall
      <4>1. \A n, c \in Nat : (n + 1) * c = n * c + c OBVIOUS
      <4>2. run[j].calls \in Nat BY <1>3, Numbers
      <4> QED BY <4>1, <4>2, Numbers
    <3>3. run[j].calls * MaxCall \in Nat BY <1>3, Numbers
    <3> QED BY <1>3, <2>3, <3>1, <3>2, <3>3, Numbers
  <2>5. job[j].kind = "table" => run[j].price + p <= run[j].left - 1 + MaxCall
    BY <1>3, <2>2, <2>3, Numbers
  <2>6. /\ q \in RunRecord /\ q.left = run[j].left /\ q.price = run[j].price + p
        /\ q.calls = run[j].calls + 1
    BY <1>1, <2>2, <2>4 DEF RunRecord
  <2>7. run' = [run EXCEPT ![j] = q] /\ UNCHANGED job BY <1>4, <2>1 DEF Call, IInv, TypeOK
  <2> HIDE DEF q
  <2> QED BY <1>1, <1>2, <2>4, <2>5, <2>6, <2>7, RunMoves
<1>5. ASSUME NEW status \in Ends, NEW cost \in 0..MaxRun, Ending(j, status, cost),
             cost = job[j].cost \/ (job[j].kind = "table" => cost = run[j].price)
      PROVE  IInv'
  <2> DEFINE r == [job[j] EXCEPT !.status = status, !.output = (status = "succeeded"), !.cost = cost]
  <2>1. /\ r \in JobRecord /\ r.status # "absent" /\ r.born = job[j].born
        /\ r.begun = job[j].begun /\ r.cost = cost /\ r.kind = job[j].kind
    BY <1>1 DEF JobRecord, Ends
  <2>2. job' = [job EXCEPT ![j] = r] BY <1>5 DEF Ending, IInv, TypeOK
  <2>3. run' = [run EXCEPT ![j] = [NoRun EXCEPT !.at = "none"]] BY <1>5, NoRunAt DEF Ending
  <2> HIDE DEF r
  <2> QED BY <1>1, <1>5, <2>1, <2>2, <2>3, RunEnds
<1>6. CASE Returns(j) \/ StopOverBudget(j) \/ StopOverCalls(j) \/ Raises(j)
  <2>1. ASSUME NEW status \in Ends, FinalizeUsage(j, status) PROVE IInv'
    <3>1. PICK cost \in Charges(j) : Ending(j, status, cost) BY <2>1 DEF FinalizeUsage
    <3>2. cost \in 0..MaxRun
      <4>1. run[j].price \in 0..MaxRun BY <1>1 DEF RunRecord
      <4>2. run[j].calls * MaxCall \in 0..MaxRun BY <1>3, Numbers
      <4> QED BY <4>1, <4>2, Numbers DEF Charges
    <3>3. job[j].kind = "table" => cost = run[j].price BY DEF Charges
    <3> QED BY <1>5, <3>1, <3>2, <3>3
  <2>2. ASSUME NEW status \in Ends, Finalize(j, status) PROVE IInv'
    <3>1. job[j].cost \in 0..MaxRun BY <1>1 DEF JobRecord
    <3> QED BY <1>5, <2>2, <3>1 DEF Finalize
  <2> QED BY <1>6, <2>1, <2>2 DEF Returns, StopOverBudget, StopOverCalls, Raises, Ends
<1>7. CASE Transient(j)
  <2>1. CASE UNCHANGED job
    <3>1. run' \in {[run EXCEPT ![j] = [NoRun EXCEPT !.at = "waiting"]], [run EXCEPT ![j] = NoRun]}
      BY <1>7 DEF Transient
    <3>2. PICK where \in {"none", "waiting"} : run' = [run EXCEPT ![j] = [NoRun EXCEPT !.at = where]]
      BY <3>1, NoRunAt
    <3>3. job' = [job EXCEPT ![j] = job[j]] BY <2>1 DEF IInv, TypeOK
    <3> QED BY <1>1, <1>2, <3>2, <3>3, RunEnds
  <2>2. CASE job' # job
    <3> DEFINE r == [job[j] EXCEPT !.status = "dead_letter"]
    <3>1. /\ r \in JobRecord /\ r.status # "absent" /\ r.born = job[j].born
          /\ r.begun = job[j].begun /\ r.cost = job[j].cost /\ r.kind = job[j].kind
      BY <1>1 DEF JobRecord, Ends
    <3>2. job' = [job EXCEPT ![j] = r] BY <1>7, <2>2 DEF Transient, IInv, TypeOK
    <3>3. run' = [run EXCEPT ![j] = [NoRun EXCEPT !.at = "none"]]
      BY <1>7, <2>2, NoRunAt DEF Transient
    <3> HIDE DEF r
    <3> QED BY <1>1, <3>1, <3>2, <3>3, RunEnds
  <2> QED BY <2>1, <2>2
<1> QED BY <1>4, <1>6, <1>7

(* A run that begins may cost what the month has left, and a call more.     *)
LEMMA BeginStep ==
  ASSUME RecordsAssumption, IInv, NEW j \in Jobs, Begin(j), ~Exhausted
  PROVE  IInv'
<1> DEFINE created == {k \in Jobs : job[k].status # "absent" /\ Month(job[k].born) = Month(now)}
           r == [job[j] EXCEPT !.status = "running", !.begun = now]
           q == [at |-> "setup", raw |-> job[j].payload = "raw", left |-> Remaining,
                 calls |-> 0, price |-> 0]
<1>1. /\ job[j] \in JobRecord /\ run[j].at = "waiting" /\ now \in Days
      /\ IsFiniteSet(Jobs)
      /\ UNCHANGED Rest /\ unbilled' \subseteq Jobs
  BY DEF Begin, Rest, IInv, TypeOK, RecordsAssumption
<1>2. \A k \in Jobs : Cost[k] \in Nat BY LoadType DEF IInv, SpendInv
<1>3. Sum(Cost, created) \in Nat /\ MonthSpend = Sum(Cost, created)
  BY <1>1, <1>2, SumType DEF MonthSpend, Sum
<1>4. Remaining \in 1..Limit /\ MonthSpend + Remaining = Limit
  BY <1>3, Numbers DEF Remaining, Exhausted
<1>5. /\ r \in JobRecord /\ r.status = "running" /\ r.cost = job[j].cost
      /\ r.born = job[j].born /\ r.begun = now /\ r.kind = job[j].kind
  BY <1>1 DEF JobRecord
<1>6. q \in RunRecord
  <2>1. Remaining \in 0..Limit /\ 0 \in 0..MaxRun /\ 0 \in 0..MaxCalls /\ (job[j].payload = "raw") \in BOOLEAN
    BY <1>4, Numbers
  <2> QED BY <2>1 DEF RunRecord
<1>7. job' = [job EXCEPT ![j] = r] /\ run' = [run EXCEPT ![j] = q] BY DEF Begin, IInv, TypeOK
<1>8. /\ job'[j] = r /\ run'[j] = q
      /\ \A k \in Jobs : k # j => job'[k] = job[k] /\ run'[k] = run[k]
  BY <1>7 DEF IInv, TypeOK
<1>9. q.at = "setup" /\ q.left = Remaining /\ q.price = 0 /\ q.calls = 0 OBVIOUS
<1> HIDE DEF r, q, created
<1>10. TypeOK' BY <1>1, <1>5, <1>6, <1>7 DEF IInv, TypeOK, Rest
<1>11. UnderWay' = UnderWay \cup {j} /\ j \notin UnderWay BY <1>1, <1>8, <1>9 DEF UnderWay
<1>12. Budgets'
  <2>1. /\ run'[j].left > 0 /\ run'[j].price <= run'[j].left - 1 + MaxCall
        /\ run'[j].price <= run'[j].calls * MaxCall
    BY <1>4, <1>8, <1>9, Numbers
  <2> QED BY <1>5, <1>8, <1>11, <2>1 DEF IInv, SpendInv, Budgets
<1>13. IsFiniteSet(UnderWay) /\ Cardinality(UnderWay) \in Nat /\ Cardinality(UnderWay) + 1 <= Slots
  <2>1. UnderWay \in SUBSET Jobs BY DEF UnderWay
  <2>2. IsFiniteSet(UnderWay) /\ Cardinality(UnderWay) \in Nat
    BY <1>1, <2>1, FS_Subset, FS_CardinalityType
  <2> QED BY <2>2, Numbers DEF Begin
<1>14. SlotsKept'
  <2>1. Cardinality(UnderWay \cup {j}) = Cardinality(UnderWay) + 1 BY <1>11, <1>13, FS_AddElement
  <2> QED BY <1>11, <1>13, <2>1 DEF SlotsKept
<1>15. Committed'
  <2>1. SUFFICES ASSUME NEW all \in BOOLEAN, NEW m \in Months
                 PROVE  Sum(Load(all, m)', Jobs) <= Ceiling(all)
    BY DEF Committed, Ceiling, Allowance, MaxRun, Sum
  <2>6. \A k \in Jobs : Load(all, m)[k] \in Nat /\ Due(all, k) \in Nat
    BY LoadType DEF IInv, SpendInv
  <2>2. \A k \in Jobs : Load(all, m)'[k] \in Nat
    <3>1. \A k \in Jobs : job'[k].cost \in Nat /\ run'[k].left \in Nat
      BY <1>10, Numbers DEF TypeOK, JobRecord, RunRecord
    <3>2. \A k \in Jobs : Due(all, k)' \in Nat BY <1>12, <3>1, Numbers DEF Due, Budgets
    <3> QED BY <3>1, <3>2 DEF Load
  <2>3. \A k \in Jobs : k # j => Load(all, m)'[k] = Load(all, m)[k]
    BY <1>8 DEF Load, RunIn, Due, UnderWay, Counts
  <2>4. CASE j \notin RunIn(m)' \/ ~Counts(all, j)
    <3>1. Load(all, m)'[j] = 0 BY <1>5, <1>8, <2>4 DEF Load, Counts
    <3>2. \A k \in Jobs : Load(all, m)'[k] <= Load(all, m)[k] BY <2>3, <2>6, <3>1
    <3>3. Sum(Load(all, m)', Jobs) <= Sum(Load(all, m), Jobs) BY <1>1, <2>2, <2>6, <3>2, SumMonotone
    <3>4. Sum(Load(all, m)', Jobs) \in Nat /\ Sum(Load(all, m), Jobs) \in Nat BY <1>1, <2>2, <2>6, SumType
    <3>5. Sum(Load(all, m), Jobs) <= Ceiling(all) BY DEF IInv, SpendInv, Committed
    <3> QED BY <3>3, <3>4, <3>5, Numbers
  <2>5. CASE j \in RunIn(m)' /\ Counts(all, j)
    <3> DEFINE paid == [k \in Jobs |-> IF k \in created THEN Cost[k] ELSE 0]
               first == IF all THEN MaxRun ELSE Remaining - 1 + MaxCall
               due == [k \in Jobs |-> IF k \in UnderWay \cup {j} THEN Weight(all) ELSE 0]
               own == [k \in Jobs |-> IF k = j THEN first ELSE due[k]]
               both == [k \in Jobs |-> paid[k] + own[k]]
    <3>1. Month(now) = m /\ Month(job[j].born) = m BY <1>5, <1>8, <2>5 DEF RunIn
    <3>2. \A k \in Jobs : paid[k] \in Nat /\ due[k] \in Nat /\ own[k] \in Nat /\ both[k] = paid[k] + own[k]
      <4>1. first \in Nat BY <1>4, Numbers
      <4>2. \A k \in Jobs : paid[k] \in Nat /\ due[k] \in Nat BY <1>2, Numbers
      <4>3. \A k \in Jobs : own[k] \in Nat
        <5> HIDE DEF due, first
        <5> QED BY <4>1, <4>2
      <4> QED BY <4>2, <4>3
    <3>3. \A k \in Jobs : Load(all, m)'[k] <= both[k]
      <4>1. SUFFICES ASSUME NEW k \in Jobs PROVE Load(all, m)'[k] <= both[k] OBVIOUS
      <4>2. CASE k = j
        <5>1. j \in created BY <1>1, <3>1 DEF created, IInv, SpendInv, Budgets
        <5>2. paid[j] = job[j].cost BY <5>1 DEF Cost
        <5>3. Due(all, j)' = first BY <1>8, <1>9, <1>11 DEF Due
        <5>4. Load(all, m)'[j] = job[j].cost + first
          <6>1. Load(all, m)'[j] = job'[j].cost + Due(all, j)'
            BY <1>5, <1>8, <2>5 DEF Load, Counts
          <6> QED BY <1>5, <1>8, <5>3, <6>1
        <5>5. own[j] = first /\ both[j] = paid[j] + own[j] BY <3>2
        <5>6. job[j].cost + first \in Nat
          <6>1. job[j].cost \in Nat BY <1>1, Numbers DEF JobRecord
          <6> QED BY <3>2, <5>5, <6>1
        <5> HIDE DEF paid, due, own, both, first
        <5> QED BY <4>2, <5>2, <5>4, <5>5, <5>6
      <4>3. CASE k # j /\ k \in RunIn(m) /\ Counts(all, k)
        <5>1. Cost[k] = job[k].cost /\ run[k].left \in 0..Limit /\ job[k].cost \in Nat
          BY Numbers DEF Cost, IInv, TypeOK, RunRecord, JobRecord
        <5>2. job[k].cost <= paid[k]
          <6>1. job[k].cost # 0 => k \in created
            BY <3>1, <4>3 DEF created, RunIn, IInv, SpendInv, Budgets
          <6> QED BY <3>2, <5>1, <6>1
        <5>3. Due(all, k) <= own[k]
          <6>1. Due(all, k) = IF k \in UnderWay THEN IF all THEN MaxRun ELSE run[k].left - 1 + MaxCall ELSE 0
            BY DEF Due
          <6>2. own[k] = IF k \in UnderWay THEN Weight(all) ELSE 0 BY <4>3
          <6>3. all => Weight(all) = MaxRun BY DEF Weight
          <6>4. ~all => run[k].left - 1 + MaxCall <= Weight(all) BY <5>1, Numbers DEF Weight, Allowance
          <6> HIDE DEF own, due
          <6> QED BY <6>1, <6>2, <6>3, <6>4, Numbers
        <5>4. Load(all, m)'[k] = job[k].cost + Due(all, k) BY <2>3, <4>3 DEF Load
        <5>5. paid[k] \in Nat /\ own[k] \in Nat /\ both[k] = paid[k] + own[k] BY <3>2
        <5>6. Due(all, k) \in Int BY <2>6
        <5> HIDE DEF paid, due, own, both, first
        <5> QED BY <5>1, <5>2, <5>3, <5>4, <5>5, <5>6
      <4>4. CASE k # j /\ ~(k \in RunIn(m) /\ Counts(all, k))
        <5>1. Load(all, m)'[k] = 0 BY <2>3, <4>4 DEF Load
        <5> HIDE DEF paid, due, own, both, first
        <5> QED BY <3>2, <5>1
      <4> QED BY <4>2, <4>3, <4>4
    <3>4. Sum(paid, Jobs) = MonthSpend
      <4>1. created \in SUBSET Jobs BY DEF created
      <4> QED BY <1>1, <1>2, <1>3, <4>1, SumOver
    <3>5. Sum(own, Jobs) = first + Cardinality(UnderWay) * Weight(all)
      <4> DEFINE others == Jobs \ {j}
      <4>1. IsFiniteSet(others) /\ others \in SUBSET Jobs /\ UnderWay \in SUBSET others
        BY <1>1, <1>11, FS_Subset DEF UnderWay
      <4>2. own[j] = first /\ \A k \in others : own[k] = due[k] OBVIOUS
      <4>3. Sum(own, others) = Cardinality(UnderWay) * Weight(all)
        <5> DEFINE flat == [k \in Jobs |-> Weight(all)]
        <5>1. Sum(flat, UnderWay) = Cardinality(UnderWay) * Weight(all)
          <6>1. \A k \in UnderWay : flat[k] = Weight(all) BY <4>1
          <6> HIDE DEF flat
          <6> QED BY <1>13, <6>1, Numbers, SumConstant
        <5>2. Sum(flat, UnderWay) = Sum([k \in others |-> IF k \in UnderWay THEN flat[k] ELSE 0], others)
          <6>1. \A k \in others : flat[k] \in Nat BY Numbers
          <6> HIDE DEF flat, others
          <6> QED BY <4>1, <6>1, SumOver
        <5>3. \A k \in others : own[k] = [i \in others |-> IF i \in UnderWay THEN flat[i] ELSE 0][k]
          OBVIOUS
        <5> HIDE DEF own, flat, others
        <5> QED BY <4>1, <5>1, <5>2, <5>3, SumSame
      <4> HIDE DEF own
      <4>4. Sum(own, Jobs) = own[j] + Sum(own, others) BY <1>1, <3>2, SumRemove
      <4> QED BY <4>2, <4>3, <4>4
    <3> HIDE DEF paid, due, own, both, first
    <3>6. Sum(both, Jobs) = Sum(paid, Jobs) + Sum(own, Jobs) BY <1>1, <3>2, SumPlus
    <3>7. Sum(Load(all, m)', Jobs) <= Sum(both, Jobs)
      <4>1. \A k \in Jobs : Load(all, m)'[k] \in Nat /\ both[k] \in Nat /\ Load(all, m)'[k] <= both[k]
        BY <2>2, <3>2, <3>3
      <4> QED BY <1>1, <4>1, SumMonotone
    <3>8. Cardinality(UnderWay) * Weight(all) + Weight(all) <= Slots * Weight(all)
      <4>1. \A n, w \in Nat : n + 1 <= Slots => n * w + w <= Slots * w
        <5>1. SUFFICES ASSUME NEW n \in Nat, NEW w \in Nat, n + 1 <= Slots
                       PROVE  n * w + w <= Slots * w
          OBVIOUS
        <5>2. PICK d \in Nat : Slots = n + 1 + d
          <6>1. Slots - (n + 1) \in Nat /\ Slots = n + 1 + (Slots - (n + 1)) BY <5>1, Numbers
          <6> QED BY <6>1
        <5>3. Slots * w = n * w + w + d * w BY <5>2
        <5>4. d * w \in Nat /\ n * w \in Nat OBVIOUS
        <5> QED BY <5>3, <5>4
      <4> QED BY <1>13, <4>1, Numbers
    <3>9. Cardinality(UnderWay) * Weight(all) \in Nat /\ Slots * Weight(all) \in Nat
      BY <1>13, Numbers
    <3>10. Sum(Load(all, m)', Jobs) \in Nat BY <1>1, <2>2, SumType
    <3>11. Sum(both, Jobs) = MonthSpend + first + Cardinality(UnderWay) * Weight(all)
      <4>1. MonthSpend \in Nat /\ first \in Nat BY <1>3, <1>4, Numbers DEF first
      <4> QED BY <3>4, <3>5, <3>6, <3>9, <4>1
    <3>12. MonthSpend + first - Weight(all) + Slots * Weight(all) = Ceiling(all) \/ all
      <4>1. ~all => first = Remaining - 1 + MaxCall /\ Weight(all) = Limit - 1 + MaxCall
                    /\ Ceiling(all) = Slots * Weight(all)
        BY DEF first, Weight, Ceiling, Allowance
      <4> QED BY <1>3, <1>4, <3>9, <4>1, Numbers
    <3>13. all => /\ first = Weight(all) /\ Ceiling(all) = Limit - 1 + Slots * Weight(all)
                  /\ MonthSpend <= Limit - 1
      BY <1>3, <1>4, Numbers DEF first, Weight, Ceiling
    <3>14. Weight(all) \in Nat /\ Ceiling(all) \in Nat /\ first \in Nat /\ MonthSpend \in Nat
      BY <1>3, <1>4, Numbers DEF first
    <3>15. ASSUME all PROVE Sum(Load(all, m)', Jobs) <= Ceiling(all)
      <4>1. \A load, sum, nw, sw \in Int :
              /\ load <= sum /\ sum = MonthSpend + Weight(all) + nw
              /\ nw + Weight(all) <= sw /\ MonthSpend <= Limit - 1
              => load <= Limit - 1 + sw
        BY <3>14, Numbers
      <4>2. first = Weight(all) /\ Ceiling(all) = Limit - 1 + Slots * Weight(all) /\ MonthSpend <= Limit - 1
        BY <3>13, <3>15
      <4>3. Sum(both, Jobs) \in Int BY <3>9, <3>11, <3>14
      <4> QED BY <3>7, <3>8, <3>9, <3>10, <3>11, <4>1, <4>2, <4>3
    <3>16. ASSUME ~all PROVE Sum(Load(all, m)', Jobs) <= Ceiling(all)
      <4>1. MonthSpend + first - Weight(all) + Slots * Weight(all) = Ceiling(all) BY <3>12, <3>16
      <4> QED BY <3>7, <3>8, <3>9, <3>10, <3>11, <3>14, <4>1
    <3> QED BY <3>15, <3>16
  <2> QED BY <2>4, <2>5
<1>16. FileInv' BY <1>1, FilesAlone DEF IInv
<1> QED BY <1>10, <1>12, <1>14, <1>15, <1>16 DEF IInv, SpendInv

-------------------------------------------------------------------------------
(* What files and passes do leaves the runs, and what the rows cost, alone. *)
LEMMA SpendAlone ==
  ASSUME RecordsAssumption, TypeOK, SpendInv, TypeOK', UNCHANGED run,
         \A j \in Jobs : /\ job'[j].status = job[j].status /\ job'[j].cost = job[j].cost
                         /\ job'[j].born = job[j].born /\ job'[j].begun = job[j].begun
                         /\ job'[j].kind = job[j].kind
  PROVE  SpendInv'
<1>1. UnderWay' = UnderWay BY DEF UnderWay
<1>2. Budgets' BY <1>1 DEF SpendInv, Budgets
<1>3. ASSUME NEW all \in BOOLEAN, NEW m \in Months, NEW k \in Jobs
      PROVE  Load(all, m)'[k] <= Load(all, m)[k]
  <2>1. Load(all, m)'[k] = Load(all, m)[k] BY <1>1 DEF Load, RunIn, Due, Counts
  <2>2. Load(all, m)[k] \in Nat BY LoadType DEF SpendInv
  <2> QED BY <2>1, <2>2
<1> QED BY <1>1, <1>2, <1>3, NoHeavier

(* An upload's steps: one file changes, to a state r that FilesHonest allows. *)
LEMMA OneFile ==
  ASSUME RecordsAssumption, IInv,
         UNCHANGED <<now, job, run, pass, unbilled>>, crashes' \in 0..MaxCrashes,
         NEW f \in Files, NEW r \in FileRecord, file' = [file EXCEPT ![f] = r], ~file[f].row,
         r.upload # "none",
         r.upload = "put" => r = [NoUpload EXCEPT !.upload = "put", !.object = TRUE],
         r.row => r.object, r.object /\ ~r.row => r.expires = 0
  PROVE  IInv'
<1>1. TypeOK' BY DEF IInv, TypeOK
<1>2. SpendInv' BY <1>1, SpendAlone DEF IInv
<1>3. file'[f] = r /\ \A g \in Files : g # f => file'[g] = file[g] BY DEF IInv, TypeOK
<1>4. f \notin pass.todo \cup pass.removed BY DEF IInv, FileInv, Passes, Expired
<1>5. pass \in PassRecord BY DEF IInv, TypeOK
<1>6. Uploads' BY <1>3 DEF IInv, FileInv, Uploads
<1>7. Passes' BY <1>3, <1>4, <1>5 DEF IInv, FileInv, Passes, Expired, PassRecord
<1>8. FilesHonest' BY <1>3 DEF IInv, FileInv, FilesHonest, Expired
<1> QED BY <1>1, <1>2, <1>6, <1>7, <1>8 DEF IInv, FileInv

(* What an upload begins with, and what it has put. *)
LEMMA NewFiles ==
  ASSUME RecordsAssumption
  PROVE  /\ NoUpload \in FileRecord /\ NoUpload.upload = "none" /\ ~NoUpload.object /\ ~NoUpload.row
         /\ NoUpload.expires = 0
         /\ \A r : r = [NoUpload EXCEPT !.upload = "put", !.object = TRUE] =>
              r \in FileRecord /\ r.upload = "put" /\ r.object /\ ~r.row /\ r.expires = 0
<1>1. NoUpload \in FileRecord BY Numbers DEF NoUpload, FileRecord, RecordsAssumption
<1>2. NoUpload.upload = "none" /\ ~NoUpload.object /\ ~NoUpload.row /\ NoUpload.expires = 0
  BY DEF NoUpload
<1>3. ASSUME NEW r, r = [NoUpload EXCEPT !.upload = "put", !.object = TRUE]
      PROVE  r \in FileRecord /\ r.upload = "put" /\ r.object /\ ~r.row /\ r.expires = 0
  BY <1>1, <1>2, <1>3 DEF FileRecord
<1> QED BY <1>1, <1>2, <1>3

(* A row belongs to an upload that went all the way. *)
LEMMA RowIsDone ==
  ASSUME RecordsAssumption, IInv, NEW f \in Files
  PROVE  file[f] \in FileRecord /\ (file[f].row => file[f].upload = "done")
<1>1. file[f] \in FileRecord BY DEF IInv, TypeOK
<1>2. file[f].upload \in {"none", "put", "done"} BY <1>1 DEF FileRecord
<1>3. file[f].upload = "none" => ~file[f].row BY NewFiles DEF IInv, FileInv, Uploads
<1>4. file[f].upload = "put" => ~file[f].row BY NewFiles DEF IInv, FileInv, Uploads
<1> QED BY <1>1, <1>2, <1>3, <1>4

(* The steps of upload_file and of the page's upload, and a process that     *)
(* stops between object and row.                                             *)
LEMMA UploadStep ==
  ASSUME RecordsAssumption, IInv, NEW f \in Files, UploadObject(f) \/ UploadRow(f) \/ CrashUpload(f)
  PROVE  IInv'
<1>1. /\ file[f] \in FileRecord /\ now \in 0..LastDay /\ crashes \in 0..MaxCrashes
      /\ Ttl \in Nat /\ LastDay \in Nat /\ MaxCrashes \in Nat
  BY DEF IInv, TypeOK, Days, RecordsAssumption
<1>2. /\ file[f].upload = "none" => file[f] = NoUpload
      /\ file[f].upload = "put" => file[f] = [NoUpload EXCEPT !.upload = "put", !.object = TRUE]
  BY DEF IInv, FileInv, Uploads
<1>3. CASE UploadObject(f)
  <2> DEFINE r == [NoUpload EXCEPT !.upload = "put", !.object = TRUE]
  <2>1. r \in FileRecord /\ r.upload = "put" /\ r.object /\ ~r.row /\ r.expires = 0
    BY NewFiles
  <2>2. file' = [file EXCEPT ![f] = r] /\ ~file[f].row
    BY <1>2, <1>3, NewFiles DEF UploadObject, Put
  <2>3. UNCHANGED <<now, job, run, pass, crashes, unbilled>> BY <1>3 DEF UploadObject
  <2>4. r.upload = "put" => r = [NoUpload EXCEPT !.upload = "put", !.object = TRUE] OBVIOUS
  <2> HIDE DEF r
  <2> QED BY <1>1, <2>1, <2>2, <2>3, <2>4, OneFile
<1>4. CASE UploadRow(f)
  <2> DEFINE r == [upload |-> "done", object |-> TRUE, row |-> TRUE, expires |-> now + Ttl]
  <2>1. r \in FileRecord /\ r.upload = "done" /\ r.object /\ r.row
    <3>1. now + Ttl \in 0..(LastDay + Ttl) BY <1>1
    <3> QED BY <3>1 DEF FileRecord
  <2>2. file' = [file EXCEPT ![f] = r] /\ ~file[f].row
    BY <1>2, <1>4, NewFiles DEF UploadRow
  <2>3. UNCHANGED <<now, job, run, pass, crashes, unbilled>> BY <1>4 DEF UploadRow
  <2> HIDE DEF r
  <2> QED BY <1>1, <2>1, <2>2, <2>3, OneFile
<1>5. CASE CrashUpload(f)
  <2> DEFINE r == [file[f] EXCEPT !.upload = "done"]
  <2>1. ~file[f].row /\ file[f].object /\ file[f].expires = 0
    BY <1>2, <1>5, NewFiles DEF CrashUpload
  <2>2. r \in FileRecord /\ r.upload = "done" /\ ~r.row /\ r.expires = 0
    BY <1>1, <2>1 DEF FileRecord
  <2>3. file' = [file EXCEPT ![f] = r] BY <1>5 DEF CrashUpload, IInv, TypeOK
  <2>4. UNCHANGED <<now, job, run, pass, unbilled>> /\ crashes' \in 0..MaxCrashes
    BY <1>1, <1>5 DEF CrashUpload, Fail
  <2> HIDE DEF r
  <2> QED BY <2>1, <2>2, <2>3, <2>4, OneFile
<1> QED BY <1>3, <1>4, <1>5

(* The steps of cleanup_tick over the files: the object goes first, the      *)
(* row with the one commit at the end.                                       *)
LEMMA PassStep ==
  ASSUME RecordsAssumption, IInv,
         \/ StartPass \/ CommitFiles \/ CrashPass
         \/ \E f \in Files : RemoveObject(f) \/ RemoveFails(f)
  PROVE  IInv'
<1>1. UNCHANGED <<now, job, run, unbilled>> /\ crashes' \in 0..MaxCrashes
  <2>1. crashes \in 0..MaxCrashes /\ MaxCrashes \in Nat BY DEF IInv, TypeOK, RecordsAssumption
  <2>2. CASE StartPass \/ CommitFiles BY <2>1, <2>2 DEF StartPass, CommitFiles
  <2>3. CASE CrashPass BY <2>1, <2>3 DEF CrashPass, Fail
  <2>4. CASE \E f \in Files : RemoveObject(f) BY <2>1, <2>4 DEF RemoveObject
  <2>5. CASE \E f \in Files : RemoveFails(f) BY <2>1, <2>5 DEF RemoveFails, Fail
  <2> QED BY <2>2, <2>3, <2>4, <2>5
<1>2. pass \in PassRecord /\ file \in [Files -> FileRecord] /\ now \in Days BY DEF IInv, TypeOK
<1>3. Uploads /\ Passes /\ FilesHonest BY DEF IInv, FileInv
<1>4. pass' \in PassRecord /\ file' \in [Files -> FileRecord] /\ FileInv'
  <2>1. CASE StartPass
    <3>1. pass' = [at |-> "files", day |-> now, todo |-> {f \in Files : Expired(f)}, removed |-> {}]
      BY <2>1 DEF StartPass
    <3>2. UNCHANGED file BY <2>1 DEF StartPass
    <3>3. pass' \in PassRecord BY <1>2, <3>1 DEF PassRecord
    <3>4. pass'.at = "files" /\ pass'.todo = {f \in Files : Expired(f)} /\ pass'.removed = {}
      BY <3>1
    <3>5. FileInv'
      BY <1>1, <1>3, <3>2, <3>4 DEF FileInv, Uploads, Passes, FilesHonest, Expired
    <3> QED BY <1>2, <3>2, <3>3, <3>5
  <2>2. CASE CommitFiles
    <3>1. /\ pass.todo = {} /\ pass' = [pass EXCEPT !.at = "prune", !.removed = {}]
          /\ file' = [f \in Files |-> IF f \in pass.removed THEN [file[f] EXCEPT !.row = FALSE]
                                                            ELSE file[f]]
      BY <2>2 DEF CommitFiles
    <3>2. pass' \in PassRecord /\ pass'.todo = {} /\ pass'.removed = {} BY <1>2, <3>1 DEF PassRecord
    <3>3. file' \in [Files -> FileRecord]
      <4>1. \A f \in Files : [file[f] EXCEPT !.row = FALSE] \in FileRecord BY <1>2 DEF FileRecord
      <4> QED BY <1>2, <3>1, <4>1
    <3>4. ASSUME NEW f \in Files, f \in pass.removed
          PROVE  /\ file'[f].upload = file[f].upload /\ file[f].upload = "done"
                 /\ ~file'[f].object /\ ~file'[f].row
      <4>1. file[f].row /\ ~file[f].object BY <1>3, <3>4 DEF Passes, Expired
      <4>2. file[f] \in FileRecord BY <1>2
      <4>3. file[f].upload = "done" BY <4>1, RowIsDone
      <4> QED BY <3>1, <3>4, <4>1, <4>2, <4>3 DEF FileRecord
    <3>5. \A f \in Files : f \notin pass.removed => file'[f] = file[f] BY <3>1
    <3>6. Uploads' BY <1>3, <3>4, <3>5 DEF Uploads
    <3>7. Passes' BY <3>2 DEF Passes
    <3>8. FilesHonest' BY <1>1, <1>3, <3>4, <3>5 DEF FilesHonest, Expired
    <3> QED BY <3>2, <3>3, <3>6, <3>7, <3>8 DEF FileInv
  <2>3. CASE CrashPass
    <3>1. pass' = NoPass /\ UNCHANGED file BY <2>3 DEF CrashPass
    <3>2. pass' \in PassRecord /\ pass'.todo = {} /\ pass'.removed = {}
      BY <3>1, Numbers DEF NoPass, PassRecord
    <3>3. FileInv' BY <1>1, <1>3, <3>1, <3>2 DEF FileInv, Uploads, Passes, FilesHonest, Expired
    <3> QED BY <1>2, <3>1, <3>2, <3>3
  <2>4. ASSUME NEW f \in Files, RemoveObject(f)
        PROVE  pass' \in PassRecord /\ file' \in [Files -> FileRecord] /\ FileInv'
    <3>1. /\ pass.at = "files" /\ f \in pass.todo
          /\ pass' = [pass EXCEPT !.todo = @ \ {f}, !.removed = @ \cup {f}]
          /\ file' = [file EXCEPT ![f].object = FALSE]
      BY <2>4 DEF RemoveObject, Removable
    <3>2. /\ pass' \in PassRecord /\ pass'.at = "files"
          /\ pass'.todo = pass.todo \ {f} /\ pass'.removed = pass.removed \cup {f}
      BY <1>2, <3>1 DEF PassRecord
    <3>3. [file[f] EXCEPT !.object = FALSE] \in FileRecord BY <1>2 DEF FileRecord
    <3>4. file' = [file EXCEPT ![f] = [file[f] EXCEPT !.object = FALSE]] BY <1>2, <3>1
    <3>5. file' \in [Files -> FileRecord] BY <1>2, <3>3, <3>4
    <3>6. Expired(f) /\ file[f].row /\ file[f].upload = "done"
      <4>1. Expired(f) /\ file[f].row BY <1>3, <3>1 DEF Passes, Expired
      <4> QED BY <4>1, RowIsDone
    <3>7. /\ ~file'[f].object /\ file'[f].row /\ file'[f].upload = "done"
          /\ file'[f].expires = file[f].expires
          /\ \A g \in Files : g # f => file'[g] = file[g]
      BY <1>2, <3>4, <3>6 DEF FileRecord
    <3>8. \A g \in Files : Expired(g)' <=> Expired(g) BY <1>1, <3>6, <3>7 DEF Expired
    <3>9. pass.todo \in SUBSET Files /\ pass.removed \in SUBSET Files BY <1>2 DEF PassRecord
    <3>10. Uploads' BY <1>3, <3>7 DEF Uploads
    <3>11. Passes' BY <1>3, <3>2, <3>6, <3>7, <3>8, <3>9 DEF Passes
    <3>12. FilesHonest' BY <1>3, <3>6, <3>7, <3>8 DEF FilesHonest
    <3> QED BY <3>2, <3>5, <3>10, <3>11, <3>12 DEF FileInv
  <2>5. ASSUME NEW f \in Files, RemoveFails(f)
        PROVE  pass' \in PassRecord /\ file' \in [Files -> FileRecord] /\ FileInv'
    <3>1. pass.at = "files" /\ pass' = [pass EXCEPT !.todo = @ \ {f}] /\ UNCHANGED file
      BY <2>5 DEF RemoveFails
    <3>2. /\ pass' \in PassRecord /\ pass'.at = "files"
          /\ pass'.todo = pass.todo \ {f} /\ pass'.removed = pass.removed
      BY <1>2, <3>1 DEF PassRecord
    <3>3. FileInv' BY <1>1, <1>3, <3>1, <3>2 DEF FileInv, Uploads, Passes, FilesHonest, Expired
    <3> QED BY <1>2, <3>1, <3>2, <3>3
  <2> QED BY <2>1, <2>2, <2>3, <2>4, <2>5
<1>5. TypeOK' BY <1>1, <1>4 DEF IInv, TypeOK
<1>6. SpendInv' BY <1>1, <1>5, SpendAlone DEF IInv
<1> QED BY <1>4, <1>5, <1>6 DEF IInv

(* Pruning empties payloads and touches no cost and no file. *)
LEMMA PruneStep == ASSUME RecordsAssumption, IInv, Prune PROVE IInv'
<1>1. /\ pass.at = "prune" /\ pass' = NoPass /\ UNCHANGED <<now, run, file, crashes, unbilled>>
      /\ job' = [j \in Jobs |-> IF Old(j, pass.day) /\ job[j].payload # "pruned"
                                THEN [job[j] EXCEPT !.payload = "pruned", !.output = FALSE] ELSE job[j]]
  BY DEF Prune
<1>2. ASSUME NEW j \in Jobs
      PROVE  /\ job'[j] \in JobRecord /\ job'[j].status = job[j].status /\ job'[j].cost = job[j].cost
             /\ job'[j].born = job[j].born /\ job'[j].begun = job[j].begun
             /\ job'[j].kind = job[j].kind
  <2>1. job[j] \in JobRecord BY DEF IInv, TypeOK
  <2>2. job'[j] \in {job[j], [job[j] EXCEPT !.payload = "pruned", !.output = FALSE]} BY <1>1
  <2> QED BY <2>1, <2>2 DEF JobRecord
<1>3. NoPass \in PassRecord /\ NoPass.todo = {} /\ NoPass.removed = {}
  BY Numbers DEF NoPass, PassRecord
<1>4. job' \in [Jobs -> JobRecord]
  <2>1. job' = [j \in Jobs |-> job'[j]] BY <1>1
  <2> QED BY <1>2, <2>1
<1>5. TypeOK' BY <1>1, <1>3, <1>4 DEF IInv, TypeOK
<1>6. SpendInv' BY <1>1, <1>2, <1>5, SpendAlone DEF IInv
<1>7. FileInv' BY <1>1, <1>3 DEF IInv, FileInv, Uploads, Passes, FilesHonest, Expired
<1> QED BY <1>5, <1>6, <1>7 DEF IInv

(* A day passes: what had expired stays expired. *)
LEMMA TickStep == ASSUME RecordsAssumption, IInv, Tick PROVE IInv'
<1>1. /\ now \in Days /\ now' = now + 1 /\ now < LastDay
      /\ UNCHANGED <<job, run, file, pass, crashes, unbilled>>
  BY DEF IInv, TypeOK, Tick
<1>2. now' \in Days BY <1>1, Numbers DEF Days
<1>3. TypeOK' BY <1>1, <1>2 DEF IInv, TypeOK
<1>4. SpendInv' BY <1>1, <1>3, SpendAlone DEF IInv
<1>5. \A f \in Files : Expired(f) => Expired(f)'
  <2>1. \A f \in Files : file[f].expires \in Int
    BY Numbers DEF IInv, TypeOK, FileRecord, RecordsAssumption
  <2>2. now \in Int BY <1>1 DEF Days
  <2> QED BY <1>1, <2>1, <2>2 DEF Expired
<1>6. pass.todo \cup pass.removed \subseteq Files BY DEF IInv, TypeOK, PassRecord
<1>7. FileInv' BY <1>1, <1>5, <1>6 DEF IInv, FileInv, Uploads, Passes, FilesHonest
<1> QED BY <1>3, <1>4, <1>7 DEF IInv

(* Every step keeps the invariant. *)
LEMMA NextInv == ASSUME RecordsAssumption, IInv, [Next]_vars PROVE IInv'
<1>1. CASE UNCHANGED vars
  <2>1. TypeOK' /\ UNCHANGED <<now, job, run, file, pass, crashes, unbilled>>
    BY <1>1 DEF vars, IInv, TypeOK
  <2>2. SpendInv' BY <2>1, SpendAlone DEF IInv
  <2>3. FileInv' BY <2>1, FilesAlone DEF Rest, IInv
  <2> QED BY <2>1, <2>2, <2>3 DEF IInv
<1>2. ASSUME NEW j \in Jobs,
             \/ Submit(j) \/ Preflight(j) \/ Begin(j) \/ LoadContent(j) \/ Call(j) \/ Returns(j)
             \/ StopOverBudget(j) \/ StopOverCalls(j) \/ Raises(j) \/ Transient(j) \/ Retry(j)
      PROVE  IInv'
  BY <1>2, SubmitStep, WaitingStep, BeginStep, LoopStep
<1>3. ASSUME NEW f \in Files, UploadObject(f) \/ UploadRow(f) \/ UiUploadRow(f) \/ CrashUpload(f)
      PROVE  IInv'
  BY <1>3, UploadStep DEF UiUploadRow
<1>4. CASE \/ StartPass \/ CommitFiles \/ CrashPass
           \/ \E f \in Files : RemoveObject(f) \/ RemoveFails(f)
  BY <1>4, PassStep
<1> QED BY <1>1, <1>2, <1>3, <1>4, PruneStep, TickStep DEF Next, Cleanup

(* The inductive invariant holds for every number of jobs, files, slots      *)
(* and days, every limit and price.                                          *)
THEOREM RecordsInvariant == Spec => []IInv
<1>1. Init => IInv BY InitInv, RecordsAssumption
<1>2. IInv /\ [Next]_vars => IInv' BY NextInv, RecordsAssumption
<1> QED BY <1>1, <1>2, PTL DEF Spec

(* Rows, runs, files and the pass stay within their types; in particular no  *)
(* run has more calls than version.max_iterations allows, and no row shows   *)
(* more than they can cost (execute_job, _finalize).                         *)
THEOREM TypeCorrect == Spec => []TypeOK
<1>1. IInv => TypeOK BY DEF IInv
<1> QED BY <1>1, RecordsInvariant, PTL

(* However many jobs are submitted, retried and run side by side, and        *)
(* whatever a provider says it charged: of the jobs whose model the table    *)
(* prices, a month's rows never show more than a limit, less one, and a call *)
(* for every slot; of all of them, never more than the limit, less one, and  *)
(* a whole run for every slot. The check of execute_job reads what the rows  *)
(* show, not what the runs under way have spent, and the one between calls   *)
(* compares the table's price (spending.month_spend, execute_job).           *)
THEOREM MonthsBounded == Spec => []SpendBounded
<1>1. IInv => SpendBounded BY CommittedBounds, RecordsAssumption DEF IInv
<1> QED BY <1>1, RecordsInvariant, PTL

(* Whatever fails between the storage and the database, a file's row has     *)
(* its object until it expires (files.upload_file puts the object before     *)
(* the row, cleanup_tick removes it before the row).                         *)
THEOREM FilesStayHonest == Spec => []FilesHonest
<1>1. IInv => FilesHonest BY DEF IInv, FileInv
<1> QED BY <1>1, RecordsInvariant, PTL
===============================================================================
