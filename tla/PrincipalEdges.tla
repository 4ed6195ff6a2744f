--------------------------- MODULE PrincipalEdges ---------------------------
(***************************************************************************)
(* kya/principal_edges.py: the upsert of one edge of the principal graph.  *)
(* A call takes the edge's lock of its process, selects the row (FOR       *)
(* UPDATE on PostgreSQL and MySQL), merges its attributes into it or       *)
(* inserts it, and tries again when another writer was first.  A call with *)
(* commit=False works in the transaction of its caller, who has written    *)
(* before and will commit later.                                           *)
(***************************************************************************)
EXTENDS Integers

CONSTANTS
    Calls,
    Leased,         \* the calls that give an expiry
    Deployments,    \* [dialect, process : Calls -> processes, owned : calls with commit=False]
    Attempts, None

\* What the constants must satisfy, for any instance.
CallsAssumption == Leased \subseteq Calls /\ None \notin Calls /\ Attempts \in Nat \ {0}

Rows == [attrs : SUBSET Calls, expires : Leased \cup {None}]
NoneAssumption == None \notin Rows

DeploymentsAssumption ==
    \A d \in Deployments :
        /\ d.dialect \in {"postgresql", "mysql", "sqlite"}
        /\ DOMAIN d.process = Calls /\ d.owned \subseteq Calls

VARIABLES
    deployment, \* never changes
    row,        \* the committed edge, [attrs, expires], or None
    flushed,    \* what the caller's transaction has written for a call: a row, or None
    holder,     \* the call whose transaction holds the row, or None
    edgeLock,   \* the call that holds the lock in each process, or None
    pc,
    found,      \* the row each call selected, or None
    attempt,
    earlier,    \* the caller's own writes: "none", "open", "committed" or "lost"
    removed     \* history: the calls that were done when the edge was removed

vars == <<deployment, row, flushed, holder, edgeLock, pc, found, attempt, earlier, removed>>

Locking == deployment.dialect \in {"postgresql", "mysql"}
Owned == deployment.owned
ProcessOf(c) == deployment.process[c]
Processes == {ProcessOf(c) : c \in Calls}
Go(c, step) == pc' = [pc EXCEPT ![c] = step]
Free(c) == holder \in {None, c}
Unlock(c) == edgeLock' = [edgeLock EXCEPT ![ProcessOf(c)] = None]
LetGo(c) == holder' = IF holder = c THEN None ELSE holder
-----------------------------------------------------------------------------
Init ==
    /\ deployment \in Deployments
    /\ row = None /\ holder = None /\ edgeLock = [p \in Processes |-> None]
    /\ flushed = [c \in Calls |-> None] /\ found = [c \in Calls |-> None]
    /\ pc = [c \in Calls |-> "idle"] /\ attempt = [c \in Calls |-> 0]
    /\ earlier = [c \in Calls |-> IF c \in Owned THEN "open" ELSE "none"]
    /\ removed = {}

Lock(c) ==
    /\ pc[c] = "idle" /\ edgeLock[ProcessOf(c)] = None
    /\ edgeLock' = [edgeLock EXCEPT ![ProcessOf(c)] = c]
    /\ attempt' = [attempt EXCEPT ![c] = @ + 1]
    /\ Go(c, "select")
    /\ UNCHANGED <<deployment, row, flushed, holder, found, earlier, removed>>

\* A locking select waits for the transaction that holds the row, and holds it then; there
\* is nothing to lock in a row that nobody has committed.
Select(c) ==
    /\ pc[c] = "select"
    /\ (Locking /\ row # None) => Free(c)
    /\ found' = [found EXCEPT ![c] = row]
    /\ holder' = IF Locking /\ row # None THEN c ELSE holder
    /\ Go(c, "write")
    /\ UNCHANGED <<deployment, row, flushed, edgeLock, attempt, earlier, removed>>

\* A seeded fault, the mutant of EdgesKept: the attributes given replace the row's.
MergedOver(c) ==
    [attrs |-> {c}, expires |-> IF c \in Leased THEN c ELSE IF row = None THEN None ELSE row.expires]

\* The row the call writes: an INSERT of its own values, or an UPDATE that sets the merged
\* attributes, and the expiry only if the call gives one.
Merged(c) ==
    [attrs |-> {c} \cup (IF found[c] = None THEN {} ELSE found[c].attrs),
     expires |-> IF c \in Leased THEN c ELSE IF found[c] = None THEN None ELSE row.expires]

\* The INSERT finds no row, the UPDATE one, on SQLite perhaps another one with the same id.
Writable(c) == Free(c) /\ (found[c] = None <=> row = None)

WriteCommit(c) ==
    /\ pc[c] = "write" /\ c \notin Owned /\ Writable(c)
    /\ row' = Merged(c)
    /\ holder' = None
    /\ Unlock(c) /\ Go(c, "done")
    /\ UNCHANGED <<deployment, flushed, found, attempt, earlier, removed>>

\* commit=False: the statement is sent, the row stays with the caller's transaction.
WriteFlush(c) ==
    /\ pc[c] = "write" /\ c \in Owned /\ Writable(c)
    /\ flushed' = [flushed EXCEPT ![c] = Merged(c)]
    /\ holder' = c
    /\ Unlock(c) /\ Go(c, "returned")
    /\ UNCHANGED <<deployment, row, found, attempt, earlier, removed>>

\* Another writer inserted the row, keeps the database locked (SQLite), or waits for this
\* one (MySQL, where a select of no row locks the gap).
Loses(c) ==
    \/ Free(c) /\ found[c] = None /\ row # None
    \/ ~ Locking /\ ~ Free(c)
    \/ /\ deployment.dialect = "mysql" /\ found[c] = None
       /\ \E d \in Calls \ {c} : pc[d] = "write" /\ found[d] = None

\* The session is rolled back, with all its caller wrote, and the call tries again or raises.
Retry(c) ==
    /\ pc[c] = "write" /\ Loses(c)
    /\ earlier' = [earlier EXCEPT ![c] = IF @ = "open" THEN "lost" ELSE @]
    /\ LetGo(c) /\ Unlock(c)
    /\ Go(c, IF attempt[c] = Attempts THEN "raised" ELSE "idle")
    /\ UNCHANGED <<deployment, row, flushed, found, attempt, removed>>

\* The row was removed meanwhile: the UPDATE matches nothing, which is raised at once.
Stale(c) ==
    /\ pc[c] = "write" /\ Free(c) /\ found[c] # None /\ row = None
    /\ earlier' = [earlier EXCEPT ![c] = IF @ = "open" THEN "lost" ELSE @]
    /\ LetGo(c) /\ Unlock(c) /\ Go(c, "raised")
    /\ UNCHANGED <<deployment, row, flushed, found, attempt, removed>>

\* The caller ends its transaction.
CallerCommits(c) ==
    /\ pc[c] = "returned"
    /\ row' = flushed[c] /\ flushed' = [flushed EXCEPT ![c] = None]
    /\ holder' = None
    /\ earlier' = [earlier EXCEPT ![c] = IF @ = "open" THEN "committed" ELSE @]
    /\ Go(c, "done")
    /\ UNCHANGED <<deployment, edgeLock, found, attempt, removed>>

CallerRollsBack(c) ==
    /\ pc[c] = "returned"
    /\ flushed' = [flushed EXCEPT ![c] = None]
    /\ holder' = None
    /\ earlier' = [earlier EXCEPT ![c] = IF @ = "open" THEN "none" ELSE @]
    /\ Go(c, "undone")
    /\ UNCHANGED <<deployment, row, edgeLock, found, attempt, removed>>

\* remove_principal_edge: takes no lock but the row's own.
Remove ==
    /\ row # None /\ holder = None
    /\ removed' = removed \cup {c \in Calls : pc[c] = "done"}
    /\ row' = None
    /\ UNCHANGED <<deployment, flushed, holder, edgeLock, pc, found, attempt, earlier>>

Next ==
    \/ \E c \in Calls :
        \/ Lock(c) \/ Select(c) \/ WriteCommit(c) \/ WriteFlush(c) \/ Retry(c) \/ Stale(c)
        \/ CallerCommits(c) \/ CallerRollsBack(c)
    \/ Remove

Spec == Init /\ [][Next]_vars
-----------------------------------------------------------------------------
\* Locks are held by calls, and the row by a transaction that has read or written it.
TypeOK ==
    /\ deployment \in Deployments /\ row \in Rows \cup {None} /\ removed \subseteq Calls
    /\ flushed \in [Calls -> Rows \cup {None}] /\ found \in [Calls -> Rows \cup {None}]
    /\ edgeLock \in [Processes -> Calls \cup {None}] /\ holder \in Calls \cup {None}
    /\ pc \in [Calls -> {"idle", "select", "write", "returned", "done", "undone", "raised"}]
    /\ attempt \in [Calls -> 0..Attempts]
    /\ earlier \in [Calls -> {"none", "open", "committed", "lost"}]

\* A call that returned, its transaction committed, finds its attributes in the edge until
\* the edge is removed: with row locks, or in one process where every call commits itself
\* (principal_edges.py:341-420).  Elsewhere the later of two merges of one row wins.
OneProcess == \A c, d \in Calls : ProcessOf(c) = ProcessOf(d)
Serialized == Locking \/ (OneProcess /\ Owned = {})

Kept(c) == c \in removed \/ (row # None /\ c \in row.attrs)
AttributesKept == Serialized => \A c \in Calls : pc[c] = "done" => Kept(c)

\* Everywhere: a lease is not made permanent by calls that say nothing of its expiry, while
\* the edge is not removed (SQLite may give the id of a removed row to the next one, so that
\* an UPDATE decided before applies to it).
Lasting(r) == r.expires = None
OldLeases(r) == r.attrs \cap Leased \subseteq removed
LeasesKept == row # None => (Lasting(row) => OldLeases(row))

EdgesKept == AttributesKept /\ LeasesKept

\* What the comment on commit=False says, "The caller owns the transaction" and a violation
\* must not "abort their whole transaction" (principal_edges.py:392-397): a call that
\* returned has left the caller's earlier writes alone.
CallerOwns == \A c \in Calls : pc[c] \in {"returned", "done"} => earlier[c] # "lost"
-----------------------------------------------------------------------------
(* A strengthening of EdgesKept that every step preserves.                 *)

\* A call between its lock and the answer has the lock, and another attempt is left to
\* whoever waits for it.
LocksHeld ==
    \A c \in Calls :
        /\ pc[c] \in {"select", "write"} => edgeLock[ProcessOf(c)] = c
        /\ pc[c] = "idle" => attempt[c] < Attempts

\* The row is held by a transaction that has selected or written it, and by any that has
\* written without committing.
RowHeld ==
    /\ holder # None => pc[holder] = "returned" \/ (Locking /\ pc[holder] = "write")
    /\ \A c \in Calls :
        /\ pc[c] = "returned" => holder = c /\ flushed[c] # None /\ c \in Owned
        /\ (Locking /\ pc[c] = "write" /\ found[c] # None) => holder = c

\* What is in a row was put there by calls that are done.
Done == {c \in Calls : pc[c] = "done"}
AttributesDone ==
    /\ row # None => row.attrs \subseteq Done
    /\ \A c \in Calls :
        /\ (pc[c] = "write" /\ found[c] # None) => found[c].attrs \subseteq Done
        /\ pc[c] = "returned" => flushed[c].attrs \subseteq Done \cup {c}

\* Where calls are serialized, what a call found is the row, until that is removed, and what
\* it has flushed is the row with its own attributes.
FoundIsRow ==
    Serialized =>
        \A c \in Calls :
            /\ (pc[c] = "write" /\ found[c] # None /\ row # None) => found[c] = row
            /\ pc[c] = "returned" =>
                c \in flushed[c].attrs /\ (row # None => row.attrs \subseteq flushed[c].attrs)

\* What is about to be written into a row that lasts has no lease of its time.
NoRowLasts == row # None => Lasting(row)
LeasesRead ==
    \A c \in Calls :
        /\ (pc[c] = "write" /\ found[c] # None /\ NoRowLasts) => OldLeases(found[c])
        /\ (pc[c] = "returned" /\ Lasting(flushed[c])) =>
            NoRowLasts /\ OldLeases(flushed[c])

EdgesInv ==
    /\ TypeOK /\ EdgesKept
    /\ LocksHeld /\ RowHeld /\ AttributesDone /\ FoundIsRow /\ LeasesRead
=============================================================================
