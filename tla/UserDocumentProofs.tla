------------------------- MODULE UserDocumentProofs -------------------------
(***************************************************************************)
(* Lemmas about Find, Save, Commit and Release, the four steps of which    *)
(* every service's work on a balance is made, for the proofs about those   *)
(* services: what each keeps of the types, whose copies it touches, and    *)
(* that a path of a copy that is not stale equals what is stored.  With    *)
(* them, what those proofs need of counting requests and adding amounts.   *)
(***************************************************************************)
EXTENDS UserDocument, FiniteSetTheorems, WellFoundedInduction, TLAPS

\* A path of a copy that no save has overtaken is what is stored.
Fresh ==
    \A r \in Requests : copy[r].user \in Users =>
      LET doc == copy[r].doc
          stored == account[copy[r].user]
      IN  /\ "pending" \notin copy[r].stale => doc.pending = stored.pending
          /\ "approved" \notin copy[r].stale => doc.approved = stored.approved
          /\ "totalEarned" \notin copy[r].stale => doc.totalEarned = stored.totalEarned

-----------------------------------------------------------------------------
\* The four steps of UserDocument keep its types, and touch only the document
\* and the copies of the user they work for.
LEMMA StoredType ==
    ASSUME DocTypeOK, NEW r \in Requests, copy[r].user \in Users,
           NEW mem \in WalletBalance
    PROVE  Stored(r, mem) \in WalletBalance
<1>1. account[copy[r].user] \in WalletBalance
  BY DEF DocTypeOK
<1> QED BY <1>1 DEF Stored, WalletBalance

\* A find keeps the types, leaves r with a fresh copy and others with theirs.
LEMMA FindType ==
    ASSUME DocTypeOK, NEW r \in Requests, NEW u \in Users, Find(r, u)
    PROVE  /\ DocTypeOK'
           /\ copy'[r].user = u /\ copy'[r].doc = account[u]
           /\ copy'[r].stale = {}
           /\ \A q \in Requests \ {r} : copy'[q] = copy[q]
<1>1. [user |-> u, doc |-> account[u], stale |-> {}] \in Copies
  BY DEF DocTypeOK, Copies
<1> QED BY <1>1 DEF DocTypeOK, Find

\* Holding nothing is a state a request may be in.
LEMMA NoCopyType == NoCopy \in Copies
BY DEF NoCopy, Copies, ZeroBalance, WalletBalance

\* Letting a copy go keeps the types and nobody else's copy.
LEMMA ReleaseType ==
    ASSUME DocTypeOK, NEW r \in Requests, Release(r)
    PROVE  /\ DocTypeOK'
           /\ copy'[r] = NoCopy
           /\ \A q \in Requests \ {r} : copy'[q] = copy[q]
BY NoCopyType DEF DocTypeOK, Release

\* What a save of r makes of the other copies: only their staleness grows.
LEMMA CopiesAfterType ==
    ASSUME DocTypeOK, NEW r \in Requests,
           NEW mem \in WalletBalance, NEW own \in Copies
    PROVE  /\ CopiesAfter(r, mem, own) \in [Requests -> Copies]
           /\ CopiesAfter(r, mem, own)[r] = own
           /\ \A q \in Requests \ {r} :
                /\ CopiesAfter(r, mem, own)[q].user = copy[q].user
                /\ CopiesAfter(r, mem, own)[q].doc = copy[q].doc
                /\ copy[q].user # copy[r].user =>
                     CopiesAfter(r, mem, own)[q].stale = copy[q].stale
                /\ copy[q].user = copy[r].user =>
                     CopiesAfter(r, mem, own)[q].stale =
                       copy[q].stale \cup ModifiedPaths(r, mem)
<1>1. ModifiedPaths(r, mem) \subseteq Paths
  BY DEF ModifiedPaths, Paths
<1>2. ASSUME NEW q \in Requests
      PROVE  /\ [copy[q] EXCEPT !.stale = @ \cup ModifiedPaths(r, mem)] \in Copies
             /\ copy[q] \in Copies
  BY <1>1 DEF DocTypeOK, Copies
<1>3. CopiesAfter(r, mem, own) \in [Requests -> Copies]
      /\ CopiesAfter(r, mem, own)[r] = own
  BY <1>2 DEF CopiesAfter
<1>4. ASSUME NEW q \in Requests \ {r}
      PROVE  CopiesAfter(r, mem, own)[q] =
               IF copy[q].user = copy[r].user
                 THEN [copy[q] EXCEPT !.stale = @ \cup ModifiedPaths(r, mem)]
                 ELSE copy[q]
  BY DEF CopiesAfter
<1>5. ASSUME NEW q \in Requests \ {r}
      PROVE  /\ CopiesAfter(r, mem, own)[q].user = copy[q].user
             /\ CopiesAfter(r, mem, own)[q].doc = copy[q].doc
             /\ copy[q].user # copy[r].user =>
                  CopiesAfter(r, mem, own)[q].stale = copy[q].stale
             /\ copy[q].user = copy[r].user =>
                  CopiesAfter(r, mem, own)[q].stale =
                    copy[q].stale \cup ModifiedPaths(r, mem)
  BY <1>2, <1>4 DEF Copies
<1> QED BY <1>3, <1>5

\* A commit keeps the types and leaves r with no copy.
LEMMA CommitType ==
    ASSUME DocTypeOK, NEW r \in Requests, copy[r].user \in Users,
           NEW mem \in WalletBalance, Commit(r, mem)
    PROVE  /\ DocTypeOK'
           /\ copy'[r] = NoCopy
           /\ \A q \in Requests \ {r} :
                copy'[q].user = copy[q].user /\ copy'[q].doc = copy[q].doc
<1>1. Stored(r, mem) \in WalletBalance
  BY StoredType
<1>2. copy' = CopiesAfter(r, mem, NoCopy)
  BY DEF Commit
<1>3. account' \in [Users -> WalletBalance] /\ clobbered' \in SUBSET Users
  BY <1>1 DEF Commit, DocTypeOK
<1>4. /\ copy' \in [Requests -> Copies]
      /\ copy'[r] = NoCopy
      /\ \A q \in Requests \ {r} :
           copy'[q].user = copy[q].user /\ copy'[q].doc = copy[q].doc
  BY <1>2, NoCopyType, CopiesAfterType
<1> QED BY <1>3, <1>4 DEF DocTypeOK

\* A save outside a transaction keeps the types, and r keeps its copy.
LEMMA SaveType ==
    ASSUME DocTypeOK, NEW r \in Requests, copy[r].user \in Users,
           NEW mem \in WalletBalance, Save(r, mem)
    PROVE  /\ DocTypeOK'
           /\ copy'[r].user = copy[r].user /\ copy'[r].doc = mem
           /\ \A q \in Requests \ {r} :
                copy'[q].user = copy[q].user /\ copy'[q].doc = copy[q].doc
<1> DEFINE own == [copy[r] EXCEPT !.doc = mem, !.stale = @ \ ModifiedPaths(r, mem)]
<1>1. Stored(r, mem) \in WalletBalance
  BY StoredType
<1>2. own \in Copies /\ own.user = copy[r].user /\ own.doc = mem
  BY DEF DocTypeOK, Copies
<1>3. copy' = CopiesAfter(r, mem, own)
  BY DEF Save
<1>4. account' \in [Users -> WalletBalance] /\ clobbered' \in SUBSET Users
  BY <1>1 DEF Save, DocTypeOK
<1> HIDE DEF own
<1>5. /\ copy' \in [Requests -> Copies]
      /\ copy'[r] = own
      /\ \A q \in Requests \ {r} :
           copy'[q].user = copy[q].user /\ copy'[q].doc = copy[q].doc
  BY <1>2, <1>3, CopiesAfterType
<1> QED BY <1>2, <1>4, <1>5 DEF DocTypeOK

-----------------------------------------------------------------------------
\* Fresh: what each step of UserDocument does to it.  One copy at a time.
FreshCopy(q) ==
    copy[q].user \in Users =>
      /\ "pending" \notin copy[q].stale =>
           copy[q].doc.pending = account[copy[q].user].pending
      /\ "approved" \notin copy[q].stale =>
           copy[q].doc.approved = account[copy[q].user].approved
      /\ "totalEarned" \notin copy[q].stale =>
           copy[q].doc.totalEarned = account[copy[q].user].totalEarned

\* Fresh says so of each copy.
LEMMA FreshCopies == Fresh <=> \A q \in Requests : FreshCopy(q)
BY DEF Fresh, FreshCopy

\* What was just read equals what is stored.
LEMMA FreshFind ==
    ASSUME DocTypeOK, Fresh, NEW r \in Requests, NEW u \in Users, Find(r, u)
    PROVE  Fresh'
<1>1. account' = account
  BY DEF Find
<1>2. FreshCopy(r)'
  BY <1>1, FindType DEF FreshCopy
<1>3. ASSUME NEW q \in Requests \ {r} PROVE FreshCopy(q)'
  BY <1>1, FindType, FreshCopies DEF FreshCopy
<1> QED BY <1>2, <1>3, FreshCopies DEF Fresh, FreshCopy

\* A copy let go says nothing.
LEMMA FreshRelease ==
    ASSUME DocTypeOK, Fresh, NEW r \in Requests, Release(r)
    PROVE  Fresh'
<1>1. account' = account
  BY DEF Release
<1>2. FreshCopy(r)'
  BY ReleaseType, NoUserAssumption DEF FreshCopy, NoCopy
<1>3. ASSUME NEW q \in Requests \ {r} PROVE FreshCopy(q)'
  BY <1>1, ReleaseType, FreshCopies DEF FreshCopy
<1> QED BY <1>2, <1>3, FreshCopies DEF Fresh, FreshCopy

\* The stored document after a save, path by path, in terms of the $set.
LEMMA StoredPaths ==
    ASSUME DocTypeOK, NEW r \in Requests, NEW mem \in WalletBalance
    PROVE  /\ IF "pending" \in ModifiedPaths(r, mem)
                THEN Stored(r, mem).pending = mem.pending
                ELSE /\ mem.pending = copy[r].doc.pending
                     /\ Stored(r, mem).pending = account[copy[r].user].pending
           /\ IF "approved" \in ModifiedPaths(r, mem)
                THEN Stored(r, mem).approved = mem.approved
                ELSE /\ mem.approved = copy[r].doc.approved
                     /\ Stored(r, mem).approved = account[copy[r].user].approved
           /\ IF "totalEarned" \in ModifiedPaths(r, mem)
                THEN Stored(r, mem).totalEarned = mem.totalEarned
                ELSE /\ mem.totalEarned = copy[r].doc.totalEarned
                     /\ Stored(r, mem).totalEarned = account[copy[r].user].totalEarned
BY DEF Stored, ModifiedPaths

\* Somebody else's copy, after a save by r.
LEMMA FreshOthers ==
    ASSUME DocTypeOK, Fresh, NEW r \in Requests, copy[r].user \in Users,
           NEW mem \in WalletBalance, NEW own \in Copies,
           account' = [account EXCEPT ![copy[r].user] = Stored(r, mem)],
           copy' = CopiesAfter(r, mem, own), NEW q \in Requests \ {r}
    PROVE  FreshCopy(q)'
<1>1. /\ copy'[q].user = copy[q].user /\ copy'[q].doc = copy[q].doc
      /\ copy[q].user # copy[r].user => copy'[q].stale = copy[q].stale
      /\ copy[q].user = copy[r].user =>
           copy'[q].stale = copy[q].stale \cup ModifiedPaths(r, mem)
  BY CopiesAfterType
<1>2. FreshCopy(q)
  BY FreshCopies
<1>3. CASE copy[q].user # copy[r].user
  <2>1. copy[q].user \in Users => account'[copy[q].user] = account[copy[q].user]
    BY <1>3 DEF DocTypeOK
  <2> QED BY <1>1, <1>2, <1>3, <2>1 DEF FreshCopy
<1>4. CASE copy[q].user = copy[r].user
  <2>1. account'[copy[q].user] = Stored(r, mem)
    BY <1>4 DEF DocTypeOK
  <2> QED BY <1>1, <1>2, <1>4, <2>1, StoredPaths DEF FreshCopy
<1> QED BY <1>3, <1>4

\* A commit marks what it changed as stale in the other copies.
LEMMA FreshCommit ==
    ASSUME DocTypeOK, Fresh, NEW r \in Requests, copy[r].user \in Users,
           NEW mem \in WalletBalance, Commit(r, mem)
    PROVE  Fresh'
<1>1. FreshCopy(r)'
  BY CommitType, NoUserAssumption DEF FreshCopy, NoCopy
<1>2. ASSUME NEW q \in Requests \ {r} PROVE FreshCopy(q)'
  BY FreshOthers, NoCopyType DEF Commit
<1> QED BY <1>1, <1>2 DEF Fresh, FreshCopy

\* So does a save, and r's own copy equals what r wrote.
LEMMA FreshSave ==
    ASSUME DocTypeOK, Fresh, NEW r \in Requests, copy[r].user \in Users,
           NEW mem \in WalletBalance, Save(r, mem)
    PROVE  Fresh'
<1> DEFINE own == [copy[r] EXCEPT !.doc = mem, !.stale = @ \ ModifiedPaths(r, mem)]
<1>1. own \in Copies /\ own.user = copy[r].user /\ own.doc = mem
      /\ own.stale = copy[r].stale \ ModifiedPaths(r, mem)
  BY DEF DocTypeOK, Copies
<1>2. /\ copy' = CopiesAfter(r, mem, own)
      /\ account' = [account EXCEPT ![copy[r].user] = Stored(r, mem)]
  BY DEF Save
<1> HIDE DEF own
<1>3. FreshCopy(r)'
  <2>1. copy'[r] = own
    BY <1>1, <1>2, CopiesAfterType
  <2>2. account'[copy[r].user] = Stored(r, mem)
    BY <1>2 DEF DocTypeOK
  <2>3. FreshCopy(r)
    BY FreshCopies
  <2> QED BY <1>1, <2>1, <2>2, <2>3, StoredPaths DEF FreshCopy
<1>4. ASSUME NEW q \in Requests \ {r} PROVE FreshCopy(q)'
  BY <1>1, <1>2, FreshOthers
<1> QED BY <1>3, <1>4 DEF Fresh, FreshCopy

\* Every step of a service is one of the four, or none: the user a read is for
\* exists, and what is saved is a balance.
DocStep(r) ==
    \/ \E u \in Users : Find(r, u)
    \/ Release(r)
    \/ \E mem \in WalletBalance :
         copy[r].user \in Users /\ (Commit(r, mem) \/ Save(r, mem))

\* Each of them keeps a copy fresh.
LEMMA FreshDocStep ==
    ASSUME DocTypeOK, Fresh, NEW r \in Requests, DocStep(r)
    PROVE  Fresh'
BY FreshFind, FreshRelease, FreshCommit, FreshSave DEF DocStep
-----------------------------------------------------------------------------
\* Two sets that agree on everything but r differ in size by r at most: what
\* one step of request r does to a count of the requests at some point.
LEMMA OneMoves ==
    ASSUME NEW S, NEW T, NEW r, IsFiniteSet(S), S \ {r} = T \ {r}
    PROVE  /\ IsFiniteSet(T)
           /\ Cardinality(S) \in Nat /\ Cardinality(T) \in Nat
           /\ (r \in S <=> r \in T) => Cardinality(T) = Cardinality(S)
           /\ r \in S /\ r \notin T => Cardinality(T) = Cardinality(S) - 1
           /\ r \notin S /\ r \in T => Cardinality(T) = Cardinality(S) + 1
<1>1. IsFiniteSet(S \ {r}) /\ Cardinality(S) \in Nat
      /\ Cardinality(S \ {r}) = IF r \in S THEN Cardinality(S) - 1 ELSE Cardinality(S)
  BY FS_RemoveElement, FS_CardinalityType
<1>2. CASE r \in T
  <2>1. T = (S \ {r}) \cup {r}
    BY <1>2
  <2>2. IsFiniteSet(T) /\ Cardinality(T) = Cardinality(S \ {r}) + 1
    BY <1>1, <2>1, FS_AddElement
  <2> QED BY <1>1, <1>2, <2>2, FS_CardinalityType
<1>3. CASE r \notin T
  <2>1. T = S \ {r}
    BY <1>3
  <2> QED BY <1>1, <1>3, <2>1, FS_CardinalityType
<1> QED BY <1>2, <1>3

-----------------------------------------------------------------------------
(***************************************************************************)
(* Sums over finite sets, SumFunctionOnSet of the module Functions, for    *)
(* the invariants that add up what was paid.  The library defines it by a  *)
(* fold; its equation, and that the order does not matter, are proved by   *)
(* minimal counterexamples, which are sets and need no operator parameter. *)
(***************************************************************************)
\* A set of subsets of a finite set that is not empty has a minimal member:
\* induction on finite sets, stated with sets alone.
LEMMA Smallest ==
    ASSUME NEW S, IsFiniteSet(S), NEW T, T \subseteq SUBSET S, T # {}
    PROVE  \E s \in T : \A t \in T : t \subseteq s => t = s
<1>1. FiniteSubsetsOf(S) = SUBSET S
  BY FS_FiniteSubsetsOfFinite
<1>2. IsWellFoundedOn(StrictSubsetOrdering(S), FiniteSubsetsOf(S))
  BY FS_StrictSubsetOrderingWellFounded
<1>3. PICK s \in T : \A t \in T : ~ (<<t, s>> \in StrictSubsetOrdering(S))
  BY <1>1, <1>2, WFMin
<1>4. ASSUME NEW t \in T, t \subseteq s, t # s PROVE FALSE
  <2>1. <<t, s>> \in (SUBSET S) \X (SUBSET S)
    OBVIOUS
  <2> QED BY <1>3, <1>4, <2>1 DEF StrictSubsetOrdering
<1> QED BY <1>4

\* The element at which a sum over s starts.
FirstOf(s) == CHOOSE x \in s : TRUE

\* `it` sums f over every subset of S, one element after the other.
IsSum(it, f, S) ==
    it = [s \in SUBSET S |-> IF s = {} THEN 0 ELSE f[FirstOf(s)] + it[s \ {FirstOf(s)}]]

\* Two of them agree on the subsets they share.
LEMMA SumUnique ==
    ASSUME NEW f, NEW S, NEW T, NEW a, NEW b, IsSum(a, f, S), IsSum(b, f, T),
           IsFiniteSet(S), NEW u \in SUBSET S, u \in SUBSET T
    PROVE  a[u] = b[u]
<1> DEFINE Bad == {s \in SUBSET S : s \in SUBSET T /\ a[s] # b[s]}
<1>1. SUFFICES ASSUME Bad # {} PROVE FALSE
  OBVIOUS
<1>2. PICK s \in Bad : \A t \in Bad : t \subseteq s => t = s
  <2>1. Bad \subseteq SUBSET S
    OBVIOUS
  <2> HIDE DEF Bad
  <2> QED BY <1>1, <2>1, Smallest
<1>3. /\ a[s] = IF s = {} THEN 0 ELSE f[FirstOf(s)] + a[s \ {FirstOf(s)}]
      /\ b[s] = IF s = {} THEN 0 ELSE f[FirstOf(s)] + b[s \ {FirstOf(s)}]
  BY DEF IsSum
<1>4. CASE s = {}
  BY <1>3, <1>4
<1>5. CASE s # {}
  <2>1. FirstOf(s) \in s
    BY <1>5 DEF FirstOf
  <2>2. s \ {FirstOf(s)} \notin Bad
    BY <1>2, <2>1
  <2>3. a[s \ {FirstOf(s)}] = b[s \ {FirstOf(s)}]
    BY <2>2
  <2> QED BY <1>3, <1>5, <2>3
<1> QED BY <1>4, <1>5

\* There is one for every finite set.
LEMMA SumExists ==
    ASSUME NEW f, NEW S, IsFiniteSet(S)
    PROVE  \E it : IsSum(it, f, S)
<1> DEFINE Bad == {s \in SUBSET S : ~ \E it : IsSum(it, f, s)}
<1>1. SUFFICES ASSUME Bad # {} PROVE FALSE
  OBVIOUS
<1>2. PICK s \in Bad : \A t \in Bad : t \subseteq s => t = s
  <2>1. Bad \subseteq SUBSET S
    OBVIOUS
  <2> HIDE DEF Bad
  <2> QED BY <1>1, <2>1, Smallest
<1>3. \A t \in SUBSET s : IsFiniteSet(t) /\ t \in SUBSET S
  BY FS_Subset
<1>4. \A t \in SUBSET s : t # s => \E it : IsSum(it, f, t)
  BY <1>2, <1>3
<1> DEFINE Below(t) == CHOOSE it : IsSum(it, f, t)
           at == [t \in SUBSET s |-> IF t = s THEN 0 ELSE Below(t)[t]]
           it == [t \in SUBSET s |->
                    IF t = {} THEN 0 ELSE f[FirstOf(t)] + at[t \ {FirstOf(t)}]]
<1>5. \A t \in SUBSET s : t # s => IsSum(Below(t), f, t)
  BY <1>4
<1> HIDE DEF Below
<1>6. \A t \in SUBSET s : t # s => at[t] = it[t]
  <2> SUFFICES ASSUME NEW t \in SUBSET s, t # s PROVE at[t] = it[t]
    OBVIOUS
  <2>1. at[t] = Below(t)[t] /\ IsSum(Below(t), f, t)
    BY <1>5
  <2>2. Below(t)[t] = IF t = {} THEN 0 ELSE f[FirstOf(t)] + Below(t)[t \ {FirstOf(t)}]
    BY <2>1 DEF IsSum
  <2>3. CASE t = {}
    BY <2>1, <2>2, <2>3
  <2>4. CASE t # {}
    <3> DEFINE v == t \ {FirstOf(t)}
    <3>1. FirstOf(t) \in t
      BY <2>4 DEF FirstOf
    <3>2. v \in SUBSET s /\ v # s /\ v \in SUBSET t
      BY <3>1
    <3>3. at[v] = Below(v)[v] /\ IsSum(Below(v), f, v)
      BY <1>5, <3>2
    <3>4. Below(t)[v] = Below(v)[v]
      <4> HIDE DEF v
      <4> QED BY <1>3, <2>1, <3>2, <3>3, SumUnique
    <3>5. it[t] = f[FirstOf(t)] + at[v]
      BY <2>4
    <3> QED BY <2>1, <2>2, <2>4, <3>3, <3>4, <3>5
  <2> QED BY <2>3, <2>4
<1> HIDE DEF at
<1>7. ASSUME NEW t \in SUBSET s, t # {}
      PROVE  at[t \ {FirstOf(t)}] = it[t \ {FirstOf(t)}]
  <2>1. FirstOf(t) \in t
    BY <1>7 DEF FirstOf
  <2>2. t \ {FirstOf(t)} \in SUBSET s /\ t \ {FirstOf(t)} # s
    BY <2>1
  <2> HIDE DEF it
  <2> QED BY <1>6, <2>2
<1>8. IsSum(it, f, s)
  <2>1. \A t \in SUBSET s :
           (IF t = {} THEN 0 ELSE f[FirstOf(t)] + at[t \ {FirstOf(t)}])
         = (IF t = {} THEN 0 ELSE f[FirstOf(t)] + it[t \ {FirstOf(t)}])
    BY <1>7
  <2>2. it = [t \in SUBSET s |-> IF t = {} THEN 0 ELSE f[FirstOf(t)] + it[t \ {FirstOf(t)}]]
    BY <2>1
  <2> QED BY <2>2 DEF IsSum
<1> QED BY <1>2, <1>8

\* SumFunctionOnSet, as an equation.
LEMMA SumStep ==
    ASSUME NEW f, NEW S, IsFiniteSet(S)
    PROVE  SumFunctionOnSet(f, S) =
             IF S = {} THEN 0
             ELSE f[FirstOf(S)] + SumFunctionOnSet(f, S \ {FirstOf(S)})
<1> DEFINE Iter(T) == CHOOSE it : IsSum(it, f, T)
<1>1. \A T : SumFunctionOnSet(f, T) = Iter(T)[T]
  BY DEF SumFunctionOnSet, FoldFunctionOnSet, MapThenFoldSet, IsSum, FirstOf
<1>2. \A T : IsFiniteSet(T) => IsSum(Iter(T), f, T)
  BY SumExists
<1> HIDE DEF Iter
<1>3. Iter(S)[S] = IF S = {} THEN 0 ELSE f[FirstOf(S)] + Iter(S)[S \ {FirstOf(S)}]
  <2>1. IsSum(Iter(S), f, S)
    BY <1>2
  <2> QED BY <2>1 DEF IsSum
<1> DEFINE T == S \ {FirstOf(S)}
<1>4. IsFiniteSet(T) /\ T \in SUBSET S /\ T \in SUBSET T
  BY FS_Subset
<1>5. Iter(S)[T] = Iter(T)[T]
  <2> HIDE DEF T
  <2> QED BY <1>2, <1>4, SumUnique
<1> QED BY <1>1, <1>3, <1>5

\* A sum of numbers is a number, and of natural numbers a natural number.
LEMMA SumType ==
    ASSUME NEW f, NEW S, IsFiniteSet(S), NEW N \in {Nat, Int},
           \A x \in S : f[x] \in N
    PROVE  SumFunctionOnSet(f, S) \in N
<1> DEFINE Bad == {s \in SUBSET S : SumFunctionOnSet(f, s) \notin N}
<1>1. SUFFICES ASSUME Bad # {} PROVE FALSE
  OBVIOUS
<1>2. PICK s \in Bad : \A t \in Bad : t \subseteq s => t = s
  <2>1. Bad \subseteq SUBSET S
    OBVIOUS
  <2> HIDE DEF Bad
  <2> QED BY <1>1, <2>1, Smallest
<1> DEFINE x == FirstOf(s)
           t == s \ {x}
<1>3. SumFunctionOnSet(f, s) = IF s = {} THEN 0 ELSE f[x] + SumFunctionOnSet(f, t)
  BY FS_Subset, SumStep
<1>4. CASE s = {}
  BY <1>3, <1>4
<1>5. CASE s # {}
  <2>1. x \in s /\ x \in S
    BY <1>5 DEF FirstOf
  <2>2. SumFunctionOnSet(f, t) \in N
    BY <1>2, <2>1
  <2> HIDE DEF x, t
  <2> QED BY <1>3, <1>5, <2>1, <2>2
<1> QED BY <1>4, <1>5

\* It does not matter which element is added last.
LEMMA SumRemove ==
    ASSUME NEW f, NEW S, IsFiniteSet(S), \A x \in S : f[x] \in Int, NEW e \in S
    PROVE  SumFunctionOnSet(f, S) = f[e] + SumFunctionOnSet(f, S \ {e})
<1> DEFINE Bad == {s \in SUBSET S : \E x \in s :
              SumFunctionOnSet(f, s) # f[x] + SumFunctionOnSet(f, s \ {x})}
<1>1. SUFFICES ASSUME Bad # {} PROVE FALSE
  OBVIOUS
<1>2. PICK s \in Bad : \A t \in Bad : t \subseteq s => t = s
  <2>1. Bad \subseteq SUBSET S
    OBVIOUS
  <2> HIDE DEF Bad
  <2> QED BY <1>1, <2>1, Smallest
<1>3. PICK x \in s : SumFunctionOnSet(f, s) # f[x] + SumFunctionOnSet(f, s \ {x})
  OBVIOUS
<1> DEFINE y == FirstOf(s)
<1>4. y \in s
  BY <1>3 DEF FirstOf
<1>5. /\ IsFiniteSet(s) /\ SumFunctionOnSet(f, s) = f[y] + SumFunctionOnSet(f, s \ {y})
  <2>1. IsFiniteSet(s)
    BY FS_Subset
  <2> QED BY <1>4, <2>1, SumStep
<1> HIDE DEF y
<1>6. x # y
  BY <1>3, <1>5
<1>7. ASSUME NEW v \in s, NEW w \in s \ {v}
      PROVE  SumFunctionOnSet(f, s \ {v}) = f[w] + SumFunctionOnSet(f, (s \ {v}) \ {w})
  <2>1. s \ {v} \in SUBSET S /\ s \ {v} \notin Bad
    BY <1>2
  <2> QED BY <2>1
<1> DEFINE t == (s \ {x}) \ {y}
<1>8. (s \ {y}) \ {x} = t /\ (s \ {x}) \ {y} = t
  OBVIOUS
<1>9. /\ SumFunctionOnSet(f, s \ {y}) = f[x] + SumFunctionOnSet(f, t)
      /\ SumFunctionOnSet(f, s \ {x}) = f[y] + SumFunctionOnSet(f, t)
  <2>1. x \in s \ {y} /\ y \in s \ {x}
    BY <1>4, <1>6
  <2> HIDE DEF Bad
  <2> QED BY <1>4, <1>7, <1>8, <2>1
<1>10. f[x] \in Int /\ f[y] \in Int /\ SumFunctionOnSet(f, t) \in Int
  <2>1. IsFiniteSet(t) /\ \A z \in t : f[z] \in Int
    BY FS_Subset
  <2>2. f[x] \in Int /\ f[y] \in Int
    BY <1>4
  <2> HIDE DEF t, Bad
  <2>3. SumFunctionOnSet(f, t) \in Int
    BY <2>1, SumType
  <2> QED BY <2>2, <2>3
<1> HIDE DEF t, Bad
<1> QED BY <1>3, <1>5, <1>9, <1>10

\* Only the values on the set count.
LEMMA SumEqual ==
    ASSUME NEW f, NEW g, NEW S, IsFiniteSet(S), \A x \in S : f[x] = g[x]
    PROVE  SumFunctionOnSet(f, S) = SumFunctionOnSet(g, S)
<1> DEFINE Bad == {s \in SUBSET S : SumFunctionOnSet(f, s) # SumFunctionOnSet(g, s)}
<1>1. SUFFICES ASSUME Bad # {} PROVE FALSE
  OBVIOUS
<1>2. PICK s \in Bad : \A t \in Bad : t \subseteq s => t = s
  <2>1. Bad \subseteq SUBSET S
    OBVIOUS
  <2> HIDE DEF Bad
  <2> QED BY <1>1, <2>1, Smallest
<1> DEFINE x == FirstOf(s)
           t == s \ {x}
<1>3. /\ SumFunctionOnSet(f, s) = IF s = {} THEN 0 ELSE f[x] + SumFunctionOnSet(f, t)
      /\ SumFunctionOnSet(g, s) = IF s = {} THEN 0 ELSE g[x] + SumFunctionOnSet(g, t)
  BY FS_Subset, SumStep
<1>4. CASE s = {}
  BY <1>3, <1>4
<1>5. CASE s # {}
  <2>1. x \in s /\ f[x] = g[x]
    BY <1>5 DEF FirstOf
  <2>2. SumFunctionOnSet(f, t) = SumFunctionOnSet(g, t)
    BY <1>2, <2>1
  <2> HIDE DEF x, t
  <2> QED BY <1>3, <1>5, <2>1, <2>2
<1> QED BY <1>4, <1>5

\* A sum over which one value changes, changes by the difference.
LEMMA SumPoint ==
    ASSUME NEW f, NEW g, NEW S, IsFiniteSet(S), NEW e \in S,
           \A x \in S : f[x] \in Int /\ g[x] \in Int,
           \A x \in S \ {e} : f[x] = g[x]
    PROVE  /\ SumFunctionOnSet(f, S) \in Int /\ SumFunctionOnSet(g, S) \in Int
           /\ SumFunctionOnSet(g, S) = SumFunctionOnSet(f, S) + (g[e] - f[e])
<1> DEFINE t == S \ {e}
<1>1. IsFiniteSet(t) /\ \A x \in t : f[x] = g[x] /\ f[x] \in Int
  BY FS_Subset
<1>2. /\ SumFunctionOnSet(f, S) = f[e] + SumFunctionOnSet(f, t)
      /\ SumFunctionOnSet(g, S) = g[e] + SumFunctionOnSet(g, t)
  BY SumRemove
<1>3. f[e] \in Int /\ g[e] \in Int
  OBVIOUS
<1> HIDE DEF t
<1>4. SumFunctionOnSet(f, t) \in Int /\ SumFunctionOnSet(f, t) = SumFunctionOnSet(g, t)
  BY <1>1, SumType, SumEqual
<1> QED BY <1>2, <1>3, <1>4

\* A sum of zeros is zero.
LEMMA SumZero ==
    ASSUME NEW f, NEW S, IsFiniteSet(S), \A x \in S : f[x] = 0
    PROVE  SumFunctionOnSet(f, S) = 0
<1> DEFINE Bad == {s \in SUBSET S : SumFunctionOnSet(f, s) # 0}
<1>1. SUFFICES ASSUME Bad # {} PROVE FALSE
  OBVIOUS
<1>2. PICK s \in Bad : \A t \in Bad : t \subseteq s => t = s
  <2>1. Bad \subseteq SUBSET S
    OBVIOUS
  <2> HIDE DEF Bad
  <2> QED BY <1>1, <2>1, Smallest
<1> DEFINE x == FirstOf(s)
           t == s \ {x}
<1>3. SumFunctionOnSet(f, s) = IF s = {} THEN 0 ELSE f[x] + SumFunctionOnSet(f, t)
  BY FS_Subset, SumStep
<1>4. CASE s = {}
  BY <1>3, <1>4
<1>5. CASE s # {}
  <2>1. x \in s /\ f[x] = 0
    BY <1>5 DEF FirstOf
  <2>2. SumFunctionOnSet(f, t) = 0
    BY <1>2, <2>1
  <2> HIDE DEF x, t
  <2> QED BY <1>3, <1>5, <2>1, <2>2
<1> QED BY <1>4, <1>5
=============================================================================
