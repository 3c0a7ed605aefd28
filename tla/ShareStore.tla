----------------------------- MODULE ShareStore -----------------------------
(***************************************************************************)
(* Key shares at rest (crates/keymesh-tss/src/storage.rs):                 *)
(* EncryptedShareStore keeps each participant's share in a file of its     *)
(* own, sealed under a key derived from a passphrase. Nothing locks the    *)
(* files: any process with the passphrase may store, load and delete, and  *)
(* may die between two steps of doing so.                                  *)
(*                                                                         *)
(* The file system is external: std::fs::write opens and truncates, then   *)
(* writes piece by piece at its own offset; a removed file lives on for    *)
(* who has it open. A blob has two pieces. Sealing is known by what it     *)
(* promises: only a whole blob, as it was written, opens. Each call of     *)
(* store brings a share of its own, known by the number of the call.       *)
(***************************************************************************)
EXTENDS Integers, Sequences, FiniteSets

CONSTANTS
    Processes,          \* who uses the directory
    ParticipantIds,
    MaxStores           \* bound: calls of store

ASSUME StoreAssumption == MaxStores \in Nat

VARIABLES
    files,              \* files[path]: the pieces in it, or Absent
    calls,              \* calls[p]: the store or delete p is in, or NoCall
    stores,             \* calls of store so far
    promised            \* what a load of each participant's share may answer:
                        \* history only

storage == <<files, calls, stores, promised>>

Absent == <<[share |-> 0, part |-> -1]>>
Failed == 0             \* load answers an error

Zero == [share |-> 0, part |-> 0]

Blob(share) == <<[share |-> share, part |-> 1], [share |-> share, part |-> 2]>>

(* at: pieces written, -1 before the file is opened; linked: the file open *)
(* is still the one at the path; alone: no other call on this participant  *)
(* ran at any time with this one.                                          *)
NoCall == [op |-> "none", id |-> 0, share |-> 0, blob |-> <<>>, at |-> 0,
           linked |-> FALSE, alone |-> FALSE]

(* Mutant: one file for all participants. *)
PathForAnyone(id) == "share.enc"

(* path_for *)
PathFor(id) == <<"share", id>>

Paths == {PathFor(id) : id \in ParticipantIds}

Busy(p, id) == calls[p] # NoCall /\ calls[p].id = id

----------------------------------------------------------------------------
(* What runs at the same time as the call p begins is not alone any more.  *)
Called(p, op, id, share, blob) ==
    calls' = [q \in Processes |->
        IF q = p THEN [op |-> op, id |-> id, share |-> share, blob |-> blob, at |-> -1,
                       linked |-> FALSE, alone |-> \A r \in Processes : ~Busy(r, id)]
        ELSE IF Busy(q, id) THEN [calls[q] EXCEPT !.alone = FALSE]
        ELSE calls[q]]

Ended(p) == calls' = [calls EXCEPT ![p] = NoCall]

(* store, up to the write *)
BeginStore(p, id) ==
    /\ calls[p] = NoCall
    /\ stores < MaxStores
    /\ stores' = stores + 1
    /\ Called(p, "store", id, stores', Blob(stores'))
    /\ promised' = [promised EXCEPT ![id] = @ \cup {stores', Failed}]
    /\ UNCHANGED files

(* delete, of a file that exists: as many zeros as it has pieces *)
BeginDelete(p, id) ==
    /\ calls[p] = NoCall
    /\ files[PathFor(id)] # Absent
    /\ Called(p, "delete", id, Failed, [i \in DOMAIN files[PathFor(id)] |-> Zero])
    /\ promised' = [promised EXCEPT ![id] = @ \cup {Failed}]
    /\ UNCHANGED <<files, stores>>

(* std::fs::write opens the file: created, or truncated *)
Open(p) ==
    /\ calls[p] # NoCall /\ calls[p].at = -1
    /\ files' = [files EXCEPT ![PathFor(calls[p].id)] = <<>>]
    /\ calls' = [calls EXCEPT ![p].at = 0, ![p].linked = TRUE]
    /\ UNCHANGED <<stores, promised>>

(* A write at an offset beyond the end leaves a gap of zeros. *)
WrittenAt(data, at, piece) ==
    [i \in 1 .. (IF Len(data) > at THEN Len(data) ELSE at + 1) |->
        IF i = at + 1 THEN piece ELSE IF i <= Len(data) THEN data[i] ELSE Zero]

WritePiece(p) ==
    LET c == calls[p]
        path == PathFor(c.id)
    IN  /\ c # NoCall /\ 0 <= c.at /\ c.at < Len(c.blob)
        /\ files' = IF c.linked
                    THEN [files EXCEPT ![path] = WrittenAt(@, c.at, c.blob[c.at + 1])]
                    ELSE files
        /\ calls' = [calls EXCEPT ![p].at = c.at + 1]
        /\ UNCHANGED <<stores, promised>>

(* store answers Ok. *)
FinishStore(p) ==
    LET c == calls[p]
    IN  /\ c.op = "store" /\ c.at = Len(c.blob)
        /\ promised' = IF c.alone THEN [promised EXCEPT ![c.id] = {c.share}] ELSE promised
        /\ Ended(p)
        /\ UNCHANGED <<files, stores>>

(* The disk refuses: store answers an error; delete ignores it and goes on *)
(* to remove the file.                                                     *)
WriteFails(p) ==
    LET c == calls[p]
    IN  /\ c # NoCall /\ c.at < Len(c.blob)
        /\ IF c.op = "store" THEN Ended(p)
           ELSE calls' = [calls EXCEPT ![p].at = Len(c.blob)]
        /\ UNCHANGED <<files, stores, promised>>

(* The end of delete. Who has the file open writes to no path from now on. *)
Remove(p) ==
    LET c == calls[p]
        path == PathFor(c.id)
    IN  /\ c.op = "delete" /\ c.at = Len(c.blob)
        /\ files' = [files EXCEPT ![path] = Absent]
        /\ calls' = [q \in Processes |->
                        IF q = p THEN NoCall
                        ELSE IF calls[q] # NoCall /\ PathFor(calls[q].id) = path
                        THEN [calls[q] EXCEPT !.linked = FALSE]
                        ELSE calls[q]]
        /\ promised' = IF c.alone THEN [promised EXCEPT ![c.id] = {Failed}] ELSE promised
        /\ UNCHANGED stores

(* The process dies in the call, and may come back. *)
Crash(p) ==
    /\ calls[p] # NoCall
    /\ Ended(p)
    /\ UNCHANGED <<files, stores, promised>>

(* load. A read that overlaps a write is one of those between two pieces:  *)
(* the pieces it puts together open only if they are one blob.             *)
Load(id) ==
    LET data == files[PathFor(id)]
        wholes == {s \in 1 .. stores : data = Blob(s)}
    IN  IF wholes = {} THEN Failed ELSE CHOOSE s \in wholes : TRUE

----------------------------------------------------------------------------
StoreInit ==
    /\ files = [path \in Paths |-> Absent]
    /\ calls = [p \in Processes |-> NoCall]
    /\ stores = 0
    /\ promised = [id \in ParticipantIds |-> {Failed}]

StoreNext ==
    \E p \in Processes :
        \/ \E id \in ParticipantIds : BeginStore(p, id) \/ BeginDelete(p, id)
        \/ Open(p)
        \/ WritePiece(p)
        \/ FinishStore(p)
        \/ WriteFails(p)
        \/ Remove(p)
        \/ Crash(p)

StoreSpec == StoreInit /\ [][StoreNext]_storage

----------------------------------------------------------------------------
(* Properties *)

(* A load answers a share stored for that participant: the last one stored *)
(* without others interfering, or one whose store overlapped with another  *)
(* call or did not come to its end since; in these cases it may fail, but  *)
(* never answers a mixture, a share replaced or deleted before, or another *)
(* participant's. In particular, a share stored alone stays loadable until *)
(* the next store or delete of it begins.                                  *)
LoadIntact == \A id \in ParticipantIds : Load(id) \in promised[id]
=============================================================================
