---------------------------- MODULE UserDocument ----------------------------
(***************************************************************************)
(* The `users` collection, seen as what the services read and write of it: *)
(* the wallet balance embedded in each user document.                      *)
(*                                                                         *)
(* Every service that touches a balance does the same thing: it awaits     *)
(* findById, changes the loaded document in memory, and awaits save().     *)
(* Mongoose sends only the changed paths, as a $set of absolute values,    *)
(* and the schemas say versionKey: false, so nothing checks that the       *)
(* stored document is still the one that was loaded.  A save inside a      *)
(* MongoDB transaction is checked: the storage engine refuses the write    *)
(* when anybody wrote the document after the transaction's snapshot.       *)
(*                                                                         *)
(* This module has the stored documents, the copies requests hold in       *)
(* memory, and the steps Find, Save and Commit the services are built of.  *)
(***************************************************************************)
EXTENDS Integers

CONSTANTS
    Users,      \* ids of the stored users; no code path deletes one
    Requests,   \* HTTP requests being served at the same time, on any instance
    NoUser

ASSUME NoUserAssumption == NoUser \notin Users

VARIABLES
    account,    \* account[u]: the balance stored in u's document
    copy,       \* copy[r]: the document request r has loaded
    clobbered   \* history: users a save has taken another request's update from

docVars == <<account, copy, clobbered>>

\* Amounts are whole cents.
WalletBalance == [pending : Int, approved : Int, totalEarned : Int]

Paths == {"pending", "approved", "totalEarned"}

ZeroBalance == [pending |-> 0, approved |-> 0, totalEarned |-> 0]

\* `stale` holds the paths others have written since r loaded the document:
\* the code does not have it, the storage engine and the properties do.
Copies == [user : Users \cup {NoUser}, doc : WalletBalance, stale : SUBSET Paths]

NoCopy == [user |-> NoUser, doc |-> ZeroBalance, stale |-> {}]

\* The $set mongoose computes from the document in memory, now `mem`.
ModifiedPaths(r, mem) ==
    LET loaded == copy[r].doc
    IN  (IF mem.pending # loaded.pending THEN {"pending"} ELSE {})
          \cup (IF mem.approved # loaded.approved THEN {"approved"} ELSE {})
          \cup (IF mem.totalEarned # loaded.totalEarned THEN {"totalEarned"} ELSE {})

\* The stored document after that $set: the other paths keep what is stored.
Stored(r, mem) ==
    LET stored == account[copy[r].user]
        loaded == copy[r].doc
    IN  [pending |-> IF mem.pending # loaded.pending
                       THEN mem.pending ELSE stored.pending,
         approved |-> IF mem.approved # loaded.approved
                        THEN mem.approved ELSE stored.approved,
         totalEarned |-> IF mem.totalEarned # loaded.totalEarned
                           THEN mem.totalEarned ELSE stored.totalEarned]

\* Every other copy of the document r writes misses r's update.
CopiesAfter(r, mem, own) ==
    [q \in Requests |->
        IF q = r THEN own
        ELSE IF copy[q].user = copy[r].user
             THEN [copy[q] EXCEPT !.stale = @ \cup ModifiedPaths(r, mem)]
             ELSE copy[q]]

-----------------------------------------------------------------------------
\* userModel.findById(u).exec(), in a transaction or not.
Find(r, u) ==
    /\ copy' = [copy EXCEPT ![r] = [user |-> u, doc |-> account[u], stale |-> {}]]
    /\ UNCHANGED <<account, clobbered>>

\* user.save() outside a transaction: the last writer of a path wins.
Save(r, mem) ==
    LET own == [copy[r] EXCEPT !.doc = mem, !.stale = @ \ ModifiedPaths(r, mem)]
    IN  /\ account' = [account EXCEPT ![copy[r].user] = Stored(r, mem)]
        /\ copy' = CopiesAfter(r, mem, own)
        /\ clobbered' = IF copy[r].stale \cap ModifiedPaths(r, mem) = {}
                          THEN clobbered ELSE clobbered \cup {copy[r].user}

\* Mutant of Commit: a save in no transaction, which nothing refuses.
CommitUnchecked(r, mem) ==
    /\ account' = [account EXCEPT ![copy[r].user] = Stored(r, mem)]
    /\ copy' = CopiesAfter(r, mem, NoCopy)
    /\ UNCHANGED clobbered

\* user.save({ session }) and the commit of the transaction around it.  The
\* write is refused when the snapshot is not the latest document; a save that
\* changes nothing is not sent, and so cannot be refused.
Commit(r, mem) ==
    /\ ModifiedPaths(r, mem) # {} => copy[r].stale = {}
    /\ account' = [account EXCEPT ![copy[r].user] = Stored(r, mem)]
    /\ copy' = CopiesAfter(r, mem, NoCopy)
    /\ UNCHANGED clobbered

\* Request r is over, or its transaction is: the copy is garbage.
Release(r) ==
    /\ copy' = [copy EXCEPT ![r] = NoCopy]
    /\ UNCHANGED <<account, clobbered>>

-----------------------------------------------------------------------------
DocTypeOK ==
    /\ account \in [Users -> WalletBalance]
    /\ copy \in [Requests -> Copies]
    /\ clobbered \in SUBSET Users
=============================================================================
