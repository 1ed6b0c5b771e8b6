--------------------------- MODULE EarningsProofs ---------------------------
(***************************************************************************)
(* What Earnings promises of a balance, for any number of users and        *)
(* requests and whatever is earned, credited or reckoned as profit, below  *)
(* zero too: everything earned is somewhere, no withdrawal overdraws, and  *)
(* nothing is below zero but what somebody was given less than nothing of. *)
(*                                                                         *)
(* It rests on Fresh (UserDocumentProofs): a write that takes nobody's     *)
(* update away adds to what is stored just what it added to the copy.      *)
(***************************************************************************)
EXTENDS Earnings, UserDocumentProofs

\* A document no part of which is negative.
Sound(doc) == doc.pending >= 0 /\ doc.approved >= 0 /\ doc.totalEarned >= 0

\* The inductive invariant: with the types and Fresh, that everything earned is
\* somewhere, and that nothing negative is held, or is stored or about to be
\* saved for whoever was never given less than nothing.
Books ==
    /\ DocTypeOK /\ held \in [Users -> Int] /\ Fresh
    /\ EarningsAddUp /\ NothingNegative
    /\ \A r \in Requests : copy[r].user \notin docked => Sound(copy[r].doc)

-----------------------------------------------------------------------------
\* Amounts added to a balance leave a balance.
LEMMA PlusType ==
    ASSUME NEW doc \in WalletBalance, NEW p \in Int, NEW a \in Int, NEW t \in Int
    PROVE  /\ Plus(doc, p, a, t) \in WalletBalance
           /\ Plus(doc, p, a, t).pending = doc.pending + p
           /\ Plus(doc, p, a, t).approved = doc.approved + a
           /\ Plus(doc, p, a, t).totalEarned = doc.totalEarned + t
BY DEF Plus, WalletBalance

\* A write that no update is lost by adds to what is stored what it added to
\* the copy.
LEMMA AddsExactly ==
    ASSUME DocTypeOK, Fresh, NEW r \in Requests, copy[r].user \in Users,
           NEW p \in Int, NEW a \in Int, NEW t \in Int,
           NEW mem \in WalletBalance, mem = Plus(copy[r].doc, p, a, t),
           copy[r].stale \cap ModifiedPaths(r, mem) = {}
    PROVE  Stored(r, mem) = Plus(account[copy[r].user], p, a, t)
<1> DEFINE doc == copy[r].doc
           stored == account[copy[r].user]
<1>1. doc \in WalletBalance /\ stored \in WalletBalance
  BY DEF DocTypeOK, Copies
<1>2. /\ mem.pending = doc.pending + p /\ mem.approved = doc.approved + a
      /\ mem.totalEarned = doc.totalEarned + t
  BY <1>1, PlusType
<1>3. FreshCopy(r) /\ doc = copy[r].doc /\ stored = account[copy[r].user]
  BY FreshCopies
<1>4. /\ Stored(r, mem).pending = stored.pending + p
      /\ Stored(r, mem).approved = stored.approved + a
      /\ Stored(r, mem).totalEarned = stored.totalEarned + t
  <2> HIDE DEF doc, stored
  <2>1. /\ doc.pending \in Int /\ doc.approved \in Int /\ doc.totalEarned \in Int
        /\ stored.pending \in Int /\ stored.approved \in Int
        /\ stored.totalEarned \in Int
    BY <1>1 DEF WalletBalance
  <2>2. \A x \in ModifiedPaths(r, mem) : x \notin copy[r].stale
    OBVIOUS
  <2>3. Stored(r, mem).pending = stored.pending + p
    <3>1. IF "pending" \in ModifiedPaths(r, mem)
            THEN Stored(r, mem).pending = mem.pending
            ELSE mem.pending = doc.pending /\ Stored(r, mem).pending = stored.pending
      BY <1>3, StoredPaths
    <3>2. "pending" \in ModifiedPaths(r, mem) => doc.pending = stored.pending
      BY <1>3, <2>2 DEF FreshCopy
    <3> QED BY <1>2, <2>1, <3>1, <3>2
  <2>4. Stored(r, mem).approved = stored.approved + a
    <3>1. IF "approved" \in ModifiedPaths(r, mem)
            THEN Stored(r, mem).approved = mem.approved
            ELSE mem.approved = doc.approved /\ Stored(r, mem).approved = stored.approved
      BY <1>3, StoredPaths
    <3>2. "approved" \in ModifiedPaths(r, mem) => doc.approved = stored.approved
      BY <1>3, <2>2 DEF FreshCopy
    <3> QED BY <1>2, <2>1, <3>1, <3>2
  <2>5. Stored(r, mem).totalEarned = stored.totalEarned + t
    <3>1. IF "totalEarned" \in ModifiedPaths(r, mem)
            THEN Stored(r, mem).totalEarned = mem.totalEarned
            ELSE /\ mem.totalEarned = doc.totalEarned
                 /\ Stored(r, mem).totalEarned = stored.totalEarned
      BY <1>3, StoredPaths
    <3>2. "totalEarned" \in ModifiedPaths(r, mem) => doc.totalEarned = stored.totalEarned
      BY <1>3, <2>2 DEF FreshCopy
    <3> QED BY <1>2, <2>1, <3>1, <3>2
  <2> QED BY <2>3, <2>4, <2>5
<1>5. Stored(r, mem) = Plus(stored, p, a, t)
  BY <1>4 DEF Stored, Plus
<1> QED BY <1>5

\* A write of a sound document over a sound one leaves a sound one, stale or not.
LEMMA SoundWrite ==
    ASSUME DocTypeOK, NEW r \in Requests,
           NEW mem \in WalletBalance, Sound(mem), Sound(account[copy[r].user])
    PROVE  Sound(Stored(r, mem))
BY StoredPaths DEF Sound

\* A step that holds h more of u's earnings and adds the other amounts to what
\* is stored, or leaves u among those whose document was overwritten.
Entry(u, p, a, t, h) ==
    /\ p + a + h = t
    /\ u \notin clobbered' => account'[u] = Plus(account[u], p, a, t)
    /\ held' = [held EXCEPT ![u] = @ + h]
    /\ \A v \in Users \ {u} : account'[v] = account[v]
    /\ clobbered \subseteq clobbered'

\* What is added to the total is added somewhere, so the earnings still add up.
LEMMA EntryAddsUp ==
    ASSUME Books, NEW u \in Users,
           NEW p \in Int, NEW a \in Int, NEW t \in Int, NEW h \in Int,
           Entry(u, p, a, t, h)
    PROVE  EarningsAddUp' /\ held' \in [Users -> Int]
<1>1. /\ account[u] \in WalletBalance /\ held[u] \in Int /\ held \in [Users -> Int]
  BY DEF Books, DocTypeOK
<1>2. /\ account[u].totalEarned \in Int /\ account[u].pending \in Int
      /\ account[u].approved \in Int
  BY <1>1 DEF WalletBalance
<1>3. /\ held'[u] = held[u] + h /\ held' \in [Users -> Int]
      /\ \A v \in Users \ {u} : held'[v] = held[v]
  BY <1>1 DEF Entry
<1>4. u \notin clobbered' =>
        /\ account'[u].totalEarned = account[u].totalEarned + t
        /\ account'[u].pending = account[u].pending + p
        /\ account'[u].approved = account[u].approved + a
  BY <1>1, PlusType DEF Entry
<1>5. u \notin clobbered' =>
        account'[u].totalEarned = account'[u].pending + account'[u].approved + held'[u]
  BY <1>1, <1>2, <1>3, <1>4 DEF Books, EarningsAddUp, Entry
<1>6. EarningsAddUp'
  BY <1>3, <1>5 DEF Books, EarningsAddUp, Entry
<1> QED BY <1>3, <1>6

\* Nobody is docked for being given an amount that is not below zero.
LEMMA GivenDocks ==
    ASSUME NEW r \in Requests, NEW n \in Int, Given(r, n)
    PROVE  docked \subseteq docked' /\ (copy[r].user \notin docked' => n >= 0)
BY DEF Given

\* A write of r is such a step; and if what it writes is sound, so is what is
\* stored then, unless its user is docked.
LEMMA WrittenBooks ==
    ASSUME Books, NEW r \in Requests, copy[r].user \in Users,
           NEW p \in Int, NEW a \in Int, NEW t \in Int, NEW h \in Int, p + a + h = t,
           NEW mem \in WalletBalance, mem = Plus(copy[r].doc, p, a, t),
           docked \subseteq docked', copy[r].user \notin docked' => Sound(mem),
           held[copy[r].user] + h >= 0,
           account' = [account EXCEPT ![copy[r].user] = Stored(r, mem)],
           held' = [held EXCEPT ![copy[r].user] = @ + h],
           \/ copy[r].stale \cap ModifiedPaths(r, mem) = {} /\ clobbered' = clobbered
           \/ clobbered' = clobbered \cup {copy[r].user}
    PROVE  EarningsAddUp' /\ NothingNegative' /\ held' \in [Users -> Int]
<1> DEFINE u == copy[r].user
<1>1. /\ u \in Users /\ DocTypeOK /\ Fresh /\ (u \notin docked => Sound(account[u]))
      /\ held \in [Users -> Int] /\ account \in [Users -> WalletBalance]
  BY DEF Books, DocTypeOK, NothingNegative, Sound
<1>2. /\ account'[u] = Stored(r, mem) /\ held'[u] = held[u] + h
      /\ \A v \in Users \ {u} : account'[v] = account[v] /\ held'[v] = held[v]
  BY <1>1
<1>3. u \notin clobbered' => account'[u] = Plus(account[u], p, a, t)
  <2>1. u \notin clobbered' => copy[r].stale \cap ModifiedPaths(r, mem) = {}
    OBVIOUS
  <2>2. DocTypeOK /\ Fresh /\ copy[r].user \in Users
    BY <1>1
  <2>3. copy[r].stale \cap ModifiedPaths(r, mem) = {} =>
          Stored(r, mem) = Plus(account[copy[r].user], p, a, t)
    BY <2>2, AddsExactly
  <2> QED BY <1>2, <2>1, <2>3
<1>4. (u \notin docked' => Sound(account'[u])) /\ held'[u] >= 0
  BY <1>1, <1>2, SoundWrite
<1>5. NothingNegative'
  BY <1>2, <1>4 DEF Books, NothingNegative, Sound
<1>6. Entry(u, p, a, t, h)
  BY <1>2, <1>3 DEF Entry
<1> HIDE DEF u
<1> QED BY <1>1, <1>5, <1>6, EntryAddsUp

-----------------------------------------------------------------------------
\* A plain save of r's document, with p pending and a approved added to it and
\* as much to the total, keeps the books, whoever else has saved it since.
LEMMA SaveKeepsBooks ==
    ASSUME Books, NEW r \in Requests, copy[r].user \in Users,
           NEW p \in Int, NEW a \in Int, NEW t \in Int, p + a = t,
           t >= 0 => p >= 0 /\ a >= 0,
           NEW mem \in WalletBalance, mem = Plus(copy[r].doc, p, a, t),
           Save(r, mem), Given(r, t), UNCHANGED held
    PROVE  Books'
<1> DEFINE u == copy[r].user
<1>1. copy[r].doc \in WalletBalance /\ (u \notin docked => Sound(copy[r].doc))
  BY DEF Books, DocTypeOK, Copies
<1>2. docked \subseteq docked' /\ (u \notin docked' => t >= 0)
  BY GivenDocks
<1>3. u \notin docked' => Sound(mem)
  <2> HIDE DEF u
  <2> SUFFICES ASSUME u \notin docked' PROVE Sound(mem)
    OBVIOUS
  <2>1. Sound(copy[r].doc) /\ t >= 0 /\ p >= 0 /\ a >= 0
    BY <1>1, <1>2
  <2> QED BY <1>1, <2>1, PlusType DEF Sound, WalletBalance
<1>4. /\ DocTypeOK' /\ copy'[r].doc = mem /\ copy'[r].user = u
      /\ \A q \in Requests \ {r} : copy'[q].doc = copy[q].doc /\ copy'[q].user = copy[q].user
  BY SaveType DEF Books
<1>5. \A q \in Requests : copy'[q].user \notin docked' => Sound(copy'[q].doc)
  BY <1>2, <1>3, <1>4 DEF Books
<1>6. Fresh'
  BY FreshSave DEF Books
<1>7. /\ account' = [account EXCEPT ![u] = Stored(r, mem)]
      /\ \/ copy[r].stale \cap ModifiedPaths(r, mem) = {} /\ clobbered' = clobbered
         \/ clobbered' = clobbered \cup {u}
  BY DEF Save
<1>8. held[u] \in Int /\ held[u] >= 0
  BY DEF Books, NothingNegative
<1>9. PICK h \in Int : h = 0
  OBVIOUS
<1>10. held' = [held EXCEPT ![u] = @ + h] /\ held[u] + h >= 0
  BY <1>8, <1>9 DEF Books
<1>11. p + a + h = t
  BY <1>9
<1>12. EarningsAddUp' /\ NothingNegative' /\ held' \in [Users -> Int]
  BY <1>2, <1>3, <1>7, <1>10, <1>11, WrittenBooks
<1> QED BY <1>4, <1>5, <1>6, <1>12 DEF Books

\* A transaction's write of r's document, with a approved added to it and t to
\* the total, and h more held, keeps the books if nothing gets negative.
LEMMA CommitKeepsBooks ==
    ASSUME Books, NEW r \in Requests, copy[r].user \in Users,
           NEW a \in Int, NEW t \in Int, NEW h \in Int, a + h = t,
           NEW mem \in WalletBalance, mem = Plus(copy[r].doc, 0, a, t),
           docked \subseteq docked', copy[r].user \notin docked' => Sound(mem),
           Commit(r, mem), held[copy[r].user] + h >= 0,
           held' = [held EXCEPT ![copy[r].user] = @ + h]
    PROVE  Books'
<1> DEFINE u == copy[r].user
<1>1. copy[r].doc \in WalletBalance
  BY DEF Books, DocTypeOK, Copies
<1>2. mem \in WalletBalance
  BY <1>1 DEF Plus, WalletBalance
<1>3. /\ DocTypeOK' /\ copy'[r] = NoCopy
      /\ \A q \in Requests \ {r} : copy'[q].doc = copy[q].doc /\ copy'[q].user = copy[q].user
  BY <1>2, CommitType DEF Books
<1>4. \A q \in Requests : copy'[q].user \notin docked' => Sound(copy'[q].doc)
  BY <1>3 DEF Books, NoCopy, ZeroBalance, Sound
<1>5. Fresh'
  BY <1>2, FreshCommit DEF Books
<1>6. /\ account' = [account EXCEPT ![u] = Stored(r, mem)]
      /\ copy[r].stale \cap ModifiedPaths(r, mem) = {} /\ clobbered' = clobbered
  BY DEF Commit
<1>7. 0 + a + h = t /\ 0 \in Int
  OBVIOUS
<1>8. held' = [held EXCEPT ![u] = @ + h] /\ held[u] + h >= 0
  OBVIOUS
<1>9. EarningsAddUp' /\ NothingNegative' /\ held' \in [Users -> Int]
  BY <1>2, <1>6, <1>7, <1>8, WrittenBooks
<1> QED BY <1>3, <1>4, <1>5, <1>9 DEF Books

\* Each kind of write keeps the books.
LEMMA WriteKeepsBooks ==
    ASSUME AmountsOK, Books, NEW r \in Requests, Write(r)
    PROVE  Books'
<1> DEFINE u == copy[r].user
           doc == copy[r].doc
<1>1. /\ u \in Users /\ doc \in WalletBalance /\ doc.approved \in Int
      /\ u \notin docked => Sound(doc)
      /\ held[u] \in Int /\ held[u] >= 0
  BY DEF Write, Books, DocTypeOK, Copies, NothingNegative, WalletBalance
<1>2. ASSUME NEW n \in Int
      PROVE  /\ Plus(doc, 0, n, 0) \in WalletBalance
             /\ Plus(doc, 0, n, n) \in WalletBalance
             /\ Plus(doc, n, 0, n) \in WalletBalance
             /\ Sound(doc) /\ doc.approved + n >= 0 => Sound(Plus(doc, 0, n, 0))
             /\ Sound(doc) /\ n >= 0 => Sound(Plus(doc, 0, n, n))
  <2> HIDE DEF doc
  <2>1. 0 \in Int /\ doc \in WalletBalance /\ doc.approved \in Int
    BY <1>1
  <2>2. /\ Plus(doc, 0, n, 0) \in WalletBalance
        /\ Plus(doc, 0, n, n) \in WalletBalance
        /\ Plus(doc, n, 0, n) \in WalletBalance
    BY <2>1, PlusType
  <2>3. Sound(doc) /\ doc.approved + n >= 0 => Sound(Plus(doc, 0, n, 0))
    BY <2>1, PlusType DEF Sound, WalletBalance
  <2>4. Sound(doc) /\ n >= 0 => Sound(Plus(doc, 0, n, n))
    BY <2>1, PlusType DEF Sound, WalletBalance
  <2> QED BY <2>2, <2>3, <2>4
<1>3. CASE Profit(r)
  <2>1. PICK n \in Int : n = ProfitOn[doc.approved]
    BY <1>1 DEF AmountsOK
  <2>2. Commit(r, Plus(doc, 0, n, n)) /\ Given(r, n) /\ UNCHANGED held
    BY <1>3, <2>1 DEF Profit
  <2>3. held' = [held EXCEPT ![u] = @ + 0] /\ held[u] + 0 >= 0 /\ n + 0 = n
    BY <1>1, <2>2 DEF Books
  <2>4. docked \subseteq docked' /\ (u \notin docked' => n >= 0)
    BY <2>2, GivenDocks
  <2>5. Plus(doc, 0, n, n) \in WalletBalance /\ 0 \in Int
    BY <1>2
  <2>6. u \notin docked' => Sound(Plus(doc, 0, n, n))
    BY <1>1, <1>2, <2>4
  <2> QED BY <1>1, <2>2, <2>3, <2>4, <2>5, <2>6, CommitKeepsBooks
<1>4. ASSUME NEW a \in CreditAmounts, Credit(r, a) PROVE Books'
  <2>1. a \in Int /\ 0 + a = a /\ 0 \in Int /\ (a >= 0 => 0 >= 0)
    BY DEF AmountsOK
  <2>2. Save(r, Plus(doc, 0, a, a)) /\ Given(r, a) /\ UNCHANGED held
    BY <1>4 DEF Credit
  <2>3. Plus(doc, 0, a, a) \in WalletBalance
    BY <1>2, <2>1
  <2> QED BY <1>1, <2>1, <2>2, <2>3, SaveKeepsBooks
<1>5. ASSUME NEW a \in Bonuses, Earn(r, a) PROVE Books'
  <2>1. a \in Int /\ a + 0 = a /\ 0 \in Int /\ (a >= 0 => 0 >= 0)
    BY DEF AmountsOK
  <2>2. Save(r, Plus(doc, a, 0, a)) /\ Given(r, a) /\ UNCHANGED held
    BY <1>5 DEF Earn
  <2>3. Plus(doc, a, 0, a) \in WalletBalance
    BY <1>2, <2>1
  <2> QED BY <1>1, <2>1, <2>2, <2>3, SaveKeepsBooks
<1>6. ASSUME NEW a \in WithdrawAmounts, Withdraw(r, a) PROVE Books'
  <2>1. a \in Nat /\ a \in Int /\ 0 - a \in Int /\ (0 - a) + a = 0 /\ 0 \in Int
    BY DEF AmountsOK
  <2>2. /\ a <= doc.approved /\ Commit(r, Plus(doc, 0, 0 - a, 0))
        /\ held' = [held EXCEPT ![u] = @ + a] /\ docked' = docked
    BY <1>6 DEF Withdraw
  <2>3. doc.approved + (0 - a) >= 0 /\ held[u] + a >= 0
    BY <1>1, <2>1, <2>2
  <2>4. /\ Plus(doc, 0, 0 - a, 0) \in WalletBalance
        /\ u \notin docked' => Sound(Plus(doc, 0, 0 - a, 0))
    BY <1>1, <1>2, <2>1, <2>2, <2>3
  <2> QED BY <1>1, <2>1, <2>2, <2>3, <2>4, CommitKeepsBooks
<1>7. ASSUME NEW a \in WithdrawAmounts, Refund(r, a) PROVE Books'
  <2>1. a \in Nat /\ a \in Int /\ 0 - a \in Int /\ a + (0 - a) = 0 /\ 0 \in Int
    BY DEF AmountsOK
  <2>2. /\ a <= held[u] /\ Commit(r, Plus(doc, 0, a, 0))
        /\ held' = [held EXCEPT ![u] = @ - a] /\ docked' = docked
    BY <1>7 DEF Refund
  <2>3. /\ held[u] - a = held[u] + (0 - a) /\ held[u] + (0 - a) >= 0
        /\ Sound(doc) => doc.approved + a >= 0
    BY <1>1, <2>1, <2>2 DEF Sound
  <2>4. held' = [held EXCEPT ![u] = @ + (0 - a)]
    BY <2>2, <2>3
  <2>5. /\ Plus(doc, 0, a, 0) \in WalletBalance
        /\ u \notin docked' => Sound(Plus(doc, 0, a, 0))
    BY <1>1, <1>2, <2>1, <2>2, <2>3
  <2> QED BY <1>1, <2>1, <2>2, <2>3, <2>4, <2>5, CommitKeepsBooks
<1> QED BY <1>3, <1>4, <1>5, <1>6, <1>7 DEF Write

\* What copies there are, is sound, but for the docked.
SoundCopies == \A q \in Requests : copy[q].user \notin docked => Sound(copy[q].doc)

\* A request that reads a document or lets it go changes nothing that is stored.
LEMMA ReadKeepsBooks ==
    ASSUME Books, NEW r \in Requests, Load(r) \/ Forget(r)
    PROVE  Books'
<1>1. UNCHANGED <<account, clobbered, held, docked>>
  BY DEF Load, Forget, Find, Release
<1>2. DocTypeOK' /\ Fresh' /\ SoundCopies'
  <2>1. ASSUME NEW u \in Users, Find(r, u)
        PROVE  DocTypeOK' /\ Fresh' /\ SoundCopies'
    <3>1. /\ DocTypeOK' /\ Fresh' /\ copy'[r].doc = account[u] /\ copy'[r].user = u
          /\ \A q \in Requests \ {r} : copy'[q] = copy[q]
      BY <2>1, FindType, FreshFind DEF Books
    <3>2. u \notin docked => Sound(account[u])
      BY DEF Books, NothingNegative, Sound
    <3> QED BY <1>1, <3>1, <3>2 DEF Books, SoundCopies
  <2>2. ASSUME Release(r)
        PROVE  DocTypeOK' /\ Fresh' /\ SoundCopies'
    <3>1. /\ DocTypeOK' /\ Fresh' /\ copy'[r] = NoCopy
          /\ \A q \in Requests \ {r} : copy'[q] = copy[q]
      BY <2>2, ReleaseType, FreshRelease DEF Books
    <3>2. Sound(NoCopy.doc)
      BY DEF NoCopy, ZeroBalance, Sound
    <3> QED BY <1>1, <3>1, <3>2 DEF Books, SoundCopies
  <2> QED BY <2>1, <2>2 DEF Load, Forget
<1> QED BY <1>1, <1>2 DEF Books, SoundCopies, EarningsAddUp, NothingNegative

\* The books balance at first.
LEMMA BooksOpen ==
    ASSUME AmountsOK, Init
    PROVE  Books
<1>1. DocTypeOK /\ held \in [Users -> Int]
  BY NoCopyType DEF AmountsOK, Init, DocTypeOK, WalletBalance
<1>2. Fresh
  BY NoUserAssumption DEF Init, Fresh, NoCopy
<1>3. EarningsAddUp /\ NothingNegative
  BY DEF AmountsOK, Init, EarningsAddUp, NothingNegative
<1>4. \A r \in Requests : copy[r].user \notin docked => Sound(copy[r].doc)
  BY DEF Init, NoCopy, ZeroBalance, Sound
<1> QED BY <1>1, <1>2, <1>3, <1>4 DEF Books

\* The books balance in every reachable state, whoever writes.
THEOREM BooksInvariant == ASSUME AmountsOK PROVE Spec => []Books
<1>1. Init => Books
  BY BooksOpen
<1>2. Books /\ [Next]_books => Books'
  <2> SUFFICES ASSUME Books, [Next]_books PROVE Books'
    OBVIOUS
  <2>1. CASE UNCHANGED books
    BY <2>1 DEF books, Books, DocTypeOK, Fresh, EarningsAddUp, NothingNegative
  <2>2. ASSUME NEW r \in Requests, Load(r) \/ Forget(r) \/ Write(r) PROVE Books'
    BY <2>2, ReadKeepsBooks, WriteKeepsBooks
  <2> QED BY <2>1, <2>2 DEF Next
<1> QED BY <1>1, <1>2, PTL DEF Spec

\* Whatever profits, credits, rewards, debits and refunds run together on a
\* user's document, everything earned is pending, approved or held by a
\* withdrawal, unless a plain save overwrote the document from a stale copy.
THEOREM NothingIsLost == ASSUME AmountsOK PROVE Spec => []EarningsAddUp
<1>1. Books => EarningsAddUp
  BY DEF Books
<1> QED BY <1>1, BooksInvariant, PTL

\* Nor does any part of a balance go below zero whose user was never given less
\* than nothing, or more come back than was held, whether a document was
\* overwritten or not.
THEOREM NothingBelowZero == ASSUME AmountsOK PROVE Spec => []NothingNegative
<1>1. Books => NothingNegative
  BY DEF Books
<1> QED BY <1>1, BooksInvariant, PTL

\* A withdrawal leaves no balance below zero, whoever writes beside it and
\* whatever was credited before: it debits what its copy covers, and commits
\* only when nobody has written that balance since.
LEMMA DebitCovered ==
    ASSUME AmountsOK, Books, NEW r \in Requests, copy[r].user \in Users,
           NEW a \in WithdrawAmounts, Withdraw(r, a),
           NEW u \in Users, held'[u] > held[u]
    PROVE  account'[u].approved >= 0
<1> DEFINE doc == copy[r].doc
           mem == Plus(doc, 0, 0 - a, 0)
<1>1. /\ a \in Nat /\ 0 - a \in Int /\ 0 \in Int /\ DocTypeOK
      /\ doc \in WalletBalance /\ doc.approved \in Int
  BY DEF AmountsOK, Books, DocTypeOK, Copies, WalletBalance
<1>2. /\ a <= doc.approved /\ Commit(r, mem)
      /\ held' = [held EXCEPT ![copy[r].user] = @ + a]
  BY DEF Withdraw
<1>3. mem \in WalletBalance /\ mem.approved = doc.approved + (0 - a)
  BY <1>1, PlusType
<1>4. u = copy[r].user /\ a # 0
  BY <1>1, <1>2 DEF Books
<1> HIDE DEF mem
<1>5. "approved" \in ModifiedPaths(r, mem)
  BY <1>1, <1>3, <1>4 DEF ModifiedPaths
<1>6. Stored(r, mem).approved = mem.approved
  BY <1>1, <1>3, <1>5, StoredPaths
<1>7. account'[u] = Stored(r, mem)
  BY <1>1, <1>2, <1>4 DEF Commit, DocTypeOK
<1> QED BY <1>1, <1>2, <1>3, <1>6, <1>7

\* So no balance is ever overdrawn, for any number of users and requests.
THEOREM DebitsAreCovered == ASSUME AmountsOK PROVE Spec => DebitsCovered
<1> DEFINE Covered == \A u \in Users : held'[u] > held[u] => account'[u].approved >= 0
<1>1. ASSUME Books, [Next]_books, NEW u \in Users, held'[u] > held[u]
      PROVE  account'[u].approved >= 0
  <2>1. held[u] \in Int /\ held \in [Users -> Int]
    BY <1>1 DEF Books
  <2>2. held' # held
    BY <1>1, <2>1
  <2>3. PICK r \in Requests : Write(r)
    BY <1>1, <2>2 DEF Next, Load, Forget, books
  <2>4. PICK a \in WithdrawAmounts : Withdraw(r, a) \/ Refund(r, a)
    BY <2>2, <2>3 DEF Write, Profit, Credit, Earn
  <2>5. ASSUME Refund(r, a) PROVE FALSE
    <3>1. a \in Nat /\ held' = [held EXCEPT ![copy[r].user] = @ - a]
      BY <2>5 DEF Refund, AmountsOK
    <3> QED BY <1>1, <2>1, <3>1
  <2> QED BY <1>1, <2>3, <2>4, <2>5, DebitCovered DEF Write
<1>2. Books /\ [Next]_books => [Covered]_books
  BY <1>1
<1> QED BY <1>2, BooksInvariant, PTL DEF Spec, DebitsCovered
=============================================================================
