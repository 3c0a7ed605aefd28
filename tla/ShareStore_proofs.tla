-------------------------- MODULE ShareStore_proofs --------------------------
(***************************************************************************)
(* What a load of a key share may answer, for any number of processes and  *)
(* participants and any number of calls, each of which may overlap with    *)
(* others, fail or die between any two of its writes.                      *)
(***************************************************************************)
EXTENDS ShareStore, TLAPS

Piece == [share : Nat, part : Int]

Call == [op : {"none", "store", "delete"}, id : ParticipantIds \cup {0}, share : Nat,
         blob : Seq(Piece), at : Int, linked : BOOLEAN, alone : BOOLEAN]

StoreTypeOK ==
    /\ files \in [Paths -> Seq(Piece)]
    /\ calls \in [Processes -> Call]
    /\ stores \in Nat
    /\ promised \in [ParticipantIds -> SUBSET Nat]

(* The inductive invariant. A call under way, on a file with the contents   *)
(* file of which prom is promised after n stores: it writes a blob of its   *)
(* own or zeros, a failure is admitted, and a store that is alone has       *)
(* written what it has come to.                                             *)
CallSound(c, file, prom, n) ==
    /\ c.id \in ParticipantIds
    /\ c.at \in -1 .. Len(c.blob)
    /\ Failed \in prom
    /\ \/ /\ c.op = "store"
          /\ c.blob = Blob(c.share)
          /\ c.share \in prom
          /\ c.share \in 1 .. n
       \/ /\ c.op = "delete"
          /\ \A i \in 1 .. Len(c.blob) : c.blob[i] = Zero
    /\ c.op = "store" /\ c.alone /\ c.at >= 0 =>
          c.linked /\ Len(file) = c.at /\ \A i \in 1 .. c.at : file[i] = c.blob[i]

(* A file holds pieces of promised shares only, and is whole if no failure  *)
(* is admitted.                                                             *)
FileSound(file, prom, n) ==
    /\ \A i \in 1 .. Len(file) : file[i].share \in prom \cup {Failed}
    /\ Failed \notin prom => \E s \in 1 .. n : file = Blob(s)

CallsSound ==
    \A p \in Processes :
        calls[p] # NoCall =>
            CallSound(calls[p], files[PathFor(calls[p].id)], promised[calls[p].id], stores)

FilesSound == \A id \in ParticipantIds : FileSound(files[PathFor(id)], promised[id], stores)

Exclusive ==
    \A p, q \in Processes :
        p # q /\ calls[p] # NoCall /\ calls[q] # NoCall /\ calls[p].alone =>
            calls[p].id # calls[q].id

StoreInv == StoreTypeOK /\ CallsSound /\ FilesSound /\ Exclusive

----------------------------------------------------------------------------
LEMMA PathInjective ==
    ASSUME NEW a, NEW b
    PROVE  PathFor(a) = PathFor(b) => a = b
  BY DEF PathFor

LEMMA PathKnown == \A id \in ParticipantIds : PathFor(id) \in Paths
  BY DEF Paths

LEMMA BlobPieces ==
    ASSUME NEW s \in Nat
    PROVE  /\ Blob(s) \in Seq(Piece)
           /\ Len(Blob(s)) = 2
           /\ Blob(s)[1].share = s /\ Blob(s)[2].share = s
           /\ Blob(s)[1] \in Piece /\ Blob(s)[2] \in Piece
  BY DEF Blob, Piece

LEMMA WholeBlob ==
    ASSUME NEW s \in Nat, NEW file \in Seq(Piece), Len(file) = 2,
           file[1] = Blob(s)[1], file[2] = Blob(s)[2]
    PROVE  file = Blob(s)
  BY DEF Blob

LEMMA CallFields ==
    ASSUME NEW c \in Call
    PROVE  /\ c.op \in {"none", "store", "delete"} /\ c.id \in ParticipantIds \cup {0}
           /\ c.share \in Nat /\ c.blob \in Seq(Piece) /\ c.at \in Int
           /\ c.linked \in BOOLEAN /\ c.alone \in BOOLEAN
           /\ Len(c.blob) \in Nat
  BY DEF Call

(* More promised, more stores and a call less alone do no harm.             *)
LEMMA CallWeaker ==
    ASSUME NEW c \in Call, NEW file, NEW prom, NEW n \in Nat, CallSound(c, file, prom, n),
           NEW more, prom \subseteq more, NEW m \in Nat, n <= m
    PROVE  /\ CallSound(c, file, more, m)
           /\ CallSound([c EXCEPT !.alone = FALSE], file, more, m)
<1> DEFINE d == [c EXCEPT !.alone = FALSE]
<1>1. /\ d.op = c.op /\ d.id = c.id /\ d.share = c.share /\ d.blob = c.blob
      /\ d.at = c.at /\ d.alone = FALSE
  BY DEF Call
<1> HIDE DEF d
<1>2. c.share \in 1 .. n => c.share \in 1 .. m
  BY CallFields
<1>3. CallSound(d, file, more, m)
  BY <1>1, <1>2 DEF CallSound
<1>4. CallSound(c, file, more, m)
  BY <1>2 DEF CallSound
<1> QED
  BY <1>3, <1>4 DEF d

(* A call that is not alone depends on no file.                             *)
LEMMA CallAnyFile ==
    ASSUME NEW c, NEW file, NEW prom, NEW n, CallSound(c, file, prom, n), ~c.alone,
           NEW other
    PROVE  CallSound(c, other, prom, n)
  BY DEF CallSound

LEMMA StoreInitially == StoreInit => StoreInv
<1> SUFFICES ASSUME StoreInit
             PROVE  StoreInv
  OBVIOUS
<1>1. Absent \in Seq(Piece) /\ Len(Absent) = 1 /\ Absent[1].share = 0
  BY DEF Absent, Piece
<1>2. NoCall \in Call
  BY DEF NoCall, Call
<1>3. StoreTypeOK
  BY <1>1, <1>2 DEF StoreInit, StoreTypeOK, Failed
<1>4. \A id \in ParticipantIds : files[PathFor(id)] = Absent /\ promised[id] = {Failed}
  BY PathKnown DEF StoreInit
<1>5. FilesSound
  BY <1>1, <1>4 DEF FilesSound, FileSound, Failed
<1>6. CallsSound /\ Exclusive
  BY DEF StoreInit, CallsSound, Exclusive
<1> QED
  BY <1>3, <1>5, <1>6 DEF StoreInv

----------------------------------------------------------------------------
(* A call begins: of process p, on id. *)
LEMMA CalledSound ==
    ASSUME StoreInv, NEW p \in Processes, NEW id \in ParticipantIds,
           NEW op \in {"store", "delete"}, NEW share \in Nat, NEW blob \in Seq(Piece),
           calls[p] = NoCall, Called(p, op, id, share, blob), UNCHANGED files,
           NEW more \in SUBSET Nat, Failed \in more,
           promised' = [promised EXCEPT ![id] = @ \cup more],
           stores' \in Nat, stores <= stores',
           \/ op = "store" /\ blob = Blob(share) /\ share \in more /\ share \in 1 .. stores'
           \/ op = "delete" /\ \A i \in 1 .. Len(blob) : blob[i] = Zero
    PROVE  StoreInv'
<1> DEFINE new == [op |-> op, id |-> id, share |-> share, blob |-> blob, at |-> -1,
                   linked |-> FALSE, alone |-> \A r \in Processes : ~Busy(r, id)]
<1>0. StoreTypeOK
  BY DEF StoreInv
<1>1. new.alone \in BOOLEAN
  OBVIOUS
<1>2. new \in Call /\ calls'[p] = new
  BY <1>1 DEF Call, Called
<1>3. ASSUME NEW q \in Processes, q # p
      PROVE  calls'[q] = IF Busy(q, id) THEN [calls[q] EXCEPT !.alone = FALSE] ELSE calls[q]
  BY <1>3 DEF Called
<1>4. ASSUME NEW q \in Processes, q # p
      PROVE  /\ calls[q] \in Call /\ calls'[q] \in Call
             /\ calls'[q].id = calls[q].id
             /\ calls'[q].alone => calls'[q] = calls[q] /\ ~Busy(q, id)
             /\ calls'[q] # NoCall => calls[q] # NoCall
  BY <1>0, <1>3, <1>4 DEF StoreTypeOK, Call, Busy
<1>5. StoreTypeOK'
  <2>1. calls' = [q \in Processes |-> calls'[q]]
    BY DEF Called
  <2>2. calls' \in [Processes -> Call]
    BY <1>2, <1>4, <2>1
  <2> QED
    BY <1>0, <2>2 DEF StoreTypeOK
<1>6. \A other \in ParticipantIds : promised[other] \subseteq promised'[other]
  BY <1>0 DEF StoreTypeOK
<1>7. promised'[id] = promised[id] \cup more
  BY <1>0 DEF StoreTypeOK
<1>8. CallsSound'
  <2> SUFFICES ASSUME NEW q \in Processes, calls'[q] # NoCall
               PROVE  CallSound(calls'[q], files'[PathFor(calls'[q].id)],
                                promised'[calls'[q].id], stores')
    BY DEF CallsSound
  <2>1. CASE q = p
    <3>1. /\ new.id = id /\ new.op = op /\ new.share = share /\ new.blob = blob
          /\ new.at = -1
      OBVIOUS
    <3> HIDE DEF new
    <3>2. Len(blob) \in Nat
      OBVIOUS
    <3> QED
      BY <1>2, <1>7, <2>1, <3>1, <3>2 DEF CallSound
  <2>2. CASE q # p
    <3>1. /\ calls[q] \in Call /\ calls[q] # NoCall /\ calls'[q].id = calls[q].id
          /\ calls'[q] = calls[q] \/ calls'[q] = [calls[q] EXCEPT !.alone = FALSE]
      BY <1>3, <1>4, <2>2
    <3>2. CallSound(calls[q], files[PathFor(calls[q].id)], promised[calls[q].id], stores)
      BY <3>1 DEF StoreInv, CallsSound
    <3>3. calls[q].id \in ParticipantIds
      BY <3>2 DEF CallSound
    <3>4. /\ CallSound(calls[q], files[PathFor(calls[q].id)], promised'[calls[q].id], stores')
          /\ CallSound([calls[q] EXCEPT !.alone = FALSE], files[PathFor(calls[q].id)],
                       promised'[calls[q].id], stores')
      BY <1>0, <1>6, <3>1, <3>2, <3>3, CallWeaker DEF StoreTypeOK
    <3> QED
      BY <3>1, <3>4
  <2> QED
    BY <2>1, <2>2
<1>9. FilesSound'
  <2> SUFFICES ASSUME NEW other \in ParticipantIds
               PROVE  FileSound(files[PathFor(other)], promised'[other], stores')
    BY DEF FilesSound
  <2>1. FileSound(files[PathFor(other)], promised[other], stores)
    BY DEF StoreInv, FilesSound
  <2>2. stores \in Nat /\ \A s \in 1 .. stores : s \in 1 .. stores'
    BY <1>0 DEF StoreTypeOK
  <2> QED
    BY <1>6, <2>1, <2>2 DEF FileSound
<1>10. Exclusive'
  <2> SUFFICES ASSUME NEW q \in Processes, NEW r \in Processes, q # r,
                      calls'[q] # NoCall, calls'[r] # NoCall, calls'[q].alone
               PROVE  calls'[q].id # calls'[r].id
    BY DEF Exclusive
  <2>1. CASE q = p
    <3>1. ~Busy(r, id)
      BY <1>2, <2>1
    <3> QED
      BY <1>2, <1>4, <2>1, <3>1 DEF Busy
  <2>2. CASE r = p
    BY <1>2, <1>4, <2>2 DEF Busy
  <2>3. CASE q # p /\ r # p
    BY <1>4, <2>3 DEF StoreInv, Exclusive
  <2> QED
    BY <2>1, <2>2, <2>3
<1> QED
  BY <1>5, <1>8, <1>9, <1>10 DEF StoreInv

(* A call moves on to d, or ends: process p's, on id. The file then holds   *)
(* file, and prom is promised of it; who has a removed file open loses it.  *)
CallMove(p, id, file, prom, d) ==
    /\ files' = [files EXCEPT ![PathFor(id)] = file]
    /\ promised' = [promised EXCEPT ![id] = prom]
    /\ UNCHANGED stores
    /\ calls' \in [Processes -> Call]
    /\ calls'[p] = d
    /\ \A q \in Processes \ {p} :
          \/ calls'[q] = calls[q]
          \/ /\ calls[q] # NoCall /\ calls[q].id = id
             /\ calls'[q] = [calls[q] EXCEPT !.linked = FALSE]

LEMMA CallMoves ==
    ASSUME StoreInv, NEW p \in Processes, NEW c \in Call, c = calls[p], c # NoCall,
           NEW id, id = c.id, NEW file \in Seq(Piece), NEW prom \in SUBSET Nat, NEW d,
           CallMove(p, id, file, prom, d),
           \/ d = NoCall
           \/ d.id = id /\ d.alone = c.alone /\ CallSound(d, file, prom, stores),
           FileSound(file, prom, stores),
           prom = promised[id] \/ c.alone
    PROVE  StoreInv'
<1> USE DEF CallMove
<1>0. StoreTypeOK
  BY DEF StoreInv
<1>1. id \in ParticipantIds
  BY DEF StoreInv, CallsSound, CallSound
<1>2. files'[PathFor(id)] = file /\ promised'[id] = prom
  BY <1>0, <1>1, PathKnown DEF StoreTypeOK
<1>3. ASSUME NEW other \in ParticipantIds, other # id
      PROVE  files'[PathFor(other)] = files[PathFor(other)] /\ promised'[other] = promised[other]
  BY <1>0, <1>1, <1>3, PathKnown, PathInjective DEF StoreTypeOK
<1>4. StoreTypeOK'
  BY <1>0, <1>1, PathKnown DEF StoreTypeOK
<1>5. ASSUME NEW q \in Processes, q # p, calls'[q] # NoCall
      PROVE  /\ calls[q] \in Call /\ calls[q] # NoCall
             /\ calls'[q].id = calls[q].id /\ calls'[q].alone = calls[q].alone
             /\ CallSound(calls[q], files[PathFor(calls[q].id)], promised[calls[q].id], stores)
             /\ calls[q].id = id => ~calls[q].alone /\ ~calls[p].alone
  <2>1. calls[q] \in Call /\ calls[q] # NoCall
    BY <1>0, <1>5 DEF StoreTypeOK
  <2>2. calls'[q].id = calls[q].id /\ calls'[q].alone = calls[q].alone
    <3>1. CASE calls'[q] = calls[q]
      BY <3>1
    <3>2. CASE calls'[q] = [calls[q] EXCEPT !.linked = FALSE]
      BY <2>1, <3>2 DEF Call
    <3> QED
      BY <1>5, <3>1, <3>2
  <2> QED
    BY <1>5, <2>1, <2>2 DEF StoreInv, CallsSound, Exclusive
<1>6. CallsSound'
  <2> SUFFICES ASSUME NEW q \in Processes, calls'[q] # NoCall
               PROVE  CallSound(calls'[q], files'[PathFor(calls'[q].id)],
                                promised'[calls'[q].id], stores)
    BY DEF CallsSound
  <2>1. CASE q = p
    BY <1>2, <2>1
  <2>2. CASE q # p /\ calls[q].id = id
    <3>1. prom = promised[id] /\ ~calls[q].alone
      BY <1>5, <2>2
    <3>2. CallSound(calls[q], file, prom, stores)
      BY <1>5, <2>2, <3>1, CallAnyFile
    <3>3. CASE calls'[q] = calls[q]
      BY <1>2, <2>2, <3>2, <3>3
    <3>4. CASE calls'[q] = [calls[q] EXCEPT !.linked = FALSE]
      <4>1. /\ calls'[q].op = calls[q].op /\ calls'[q].id = calls[q].id
            /\ calls'[q].share = calls[q].share /\ calls'[q].blob = calls[q].blob
            /\ calls'[q].at = calls[q].at /\ calls'[q].alone = calls[q].alone
        BY <1>5, <2>2, <3>4 DEF Call
      <4>2. CallSound(calls'[q], file, prom, stores)
        BY <3>1, <3>2, <4>1 DEF CallSound
      <4> QED
        BY <1>2, <2>2, <4>1, <4>2
    <3> QED
      BY <2>2, <3>3, <3>4
  <2>3. CASE q # p /\ calls[q].id # id
    <3>1. calls'[q] = calls[q] /\ calls[q].id \in ParticipantIds
      BY <1>5, <2>3 DEF CallSound
    <3> QED
      BY <1>3, <1>5, <2>3, <3>1
  <2> QED
    BY <2>1, <2>2, <2>3
<1>7. FilesSound'
  BY <1>2, <1>3 DEF StoreInv, FilesSound
<1>8. Exclusive'
  BY <1>5 DEF StoreInv, Exclusive
<1> QED
  BY <1>4, <1>6, <1>7, <1>8 DEF StoreInv

(* What the invariant says of the call under way and of its file.           *)
LEMMA UnderWay ==
    ASSUME StoreInv, NEW p \in Processes, calls[p] # NoCall
    PROVE  \E c \in Call, file \in Seq(Piece), prom \in SUBSET Nat :
               /\ c = calls[p] /\ file = files[PathFor(c.id)] /\ prom = promised[c.id]
               /\ c.id \in ParticipantIds /\ PathFor(c.id) \in Paths
               /\ CallSound(c, file, prom, stores)
               /\ FileSound(file, prom, stores)
               /\ Failed \in prom /\ stores \in Nat
               /\ files = [files EXCEPT ![PathFor(c.id)] = file]
               /\ promised = [promised EXCEPT ![c.id] = prom]
<1>1. CallSound(calls[p], files[PathFor(calls[p].id)], promised[calls[p].id], stores)
  BY DEF StoreInv, CallsSound
<1>2. calls[p].id \in ParticipantIds /\ Failed \in promised[calls[p].id]
  BY <1>1 DEF CallSound
<1> QED
  BY <1>1, <1>2, PathKnown DEF StoreInv, StoreTypeOK, FilesSound

(* The call as it moves on.                                                 *)
Moved(c, at, linked) == [c EXCEPT !.at = at, !.linked = linked]

LEMMA CallAt ==
    ASSUME NEW c \in Call, NEW at \in Int, NEW linked \in BOOLEAN
    PROVE  LET d == Moved(c, at, linked)
           IN  /\ d \in Call
               /\ linked = c.linked => d = [c EXCEPT !.at = at]
               /\ d.op = c.op /\ d.id = c.id /\ d.share = c.share /\ d.blob = c.blob
               /\ d.at = at /\ d.linked = linked /\ d.alone = c.alone
<1> DEFINE m == [c EXCEPT !.at = at]
           d == [m EXCEPT !.linked = linked]
<1>1. /\ m \in Call /\ m.op = c.op /\ m.id = c.id /\ m.share = c.share /\ m.blob = c.blob
      /\ m.at = at /\ m.linked = c.linked /\ m.alone = c.alone
  BY DEF Call
<1> HIDE DEF m
<1>2. /\ d \in Call /\ d.op = m.op /\ d.id = m.id /\ d.share = m.share /\ d.blob = m.blob
      /\ d.at = m.at /\ d.linked = linked /\ d.alone = m.alone
  BY <1>1 DEF Call
<1>3. linked = c.linked => d = m
  BY <1>1 DEF Call
<1> HIDE DEF d
<1>4. d = Moved(c, at, linked)
  BY DEF d, m, Moved
<1>5. linked = c.linked => d = [c EXCEPT !.at = at]
  BY <1>3 DEF m
<1> QED
  BY <1>1, <1>2, <1>4, <1>5

(* Most steps of a call leave every other call alone.                       *)
LEMMA LoneMove ==
    ASSUME StoreInv, NEW p \in Processes, NEW id, NEW file, NEW prom, NEW d \in Call,
           files' = [files EXCEPT ![PathFor(id)] = file],
           promised' = [promised EXCEPT ![id] = prom],
           UNCHANGED stores,
           calls' = [calls EXCEPT ![p] = d]
    PROVE  CallMove(p, id, file, prom, d)
<1>1. /\ calls' \in [Processes -> Call] /\ calls'[p] = d
      /\ \A q \in Processes \ {p} : calls'[q] = calls[q]
  BY DEF StoreInv, StoreTypeOK
<1> QED
  BY <1>1 DEF CallMove

LEMMA NoCallTyped == NoCall \in Call
  BY DEF NoCall, Call

LEMMA BeginStoreStep ==
    ASSUME StoreInv, NEW p \in Processes, NEW id \in ParticipantIds, BeginStore(p, id)
    PROVE  StoreInv'
<1>1. stores \in Nat /\ stores' = stores + 1
  BY DEF BeginStore, StoreInv, StoreTypeOK
<1>2. Blob(stores') \in Seq(Piece)
  BY <1>1, BlobPieces
<1> DEFINE more == {stores', Failed}
<1>3. more \in SUBSET Nat /\ Failed \in more /\ stores' \in more
  BY <1>1 DEF Failed
<1>4. promised' = [promised EXCEPT ![id] = @ \cup more]
  BY DEF BeginStore
<1>5. /\ calls[p] = NoCall /\ UNCHANGED files
      /\ Called(p, "store", id, stores', Blob(stores'))
  BY DEF BeginStore
<1>6. PICK share \in Nat : share = stores'
  BY <1>1
<1>7. Called(p, "store", id, share, Blob(share)) /\ Blob(share) \in Seq(Piece)
  BY <1>2, <1>5, <1>6
<1>8. share \in more /\ share \in 1 .. stores' /\ stores' \in Nat /\ stores <= stores'
  BY <1>1, <1>3, <1>6
<1> HIDE DEF more
<1> QED
  BY <1>3, <1>4, <1>5, <1>7, <1>8, CalledSound

LEMMA BeginDeleteStep ==
    ASSUME StoreInv, NEW p \in Processes, NEW id \in ParticipantIds, BeginDelete(p, id)
    PROVE  StoreInv'
<1> DEFINE file == files[PathFor(id)]
           zeros == [i \in DOMAIN file |-> Zero]
<1>1. file \in Seq(Piece) /\ stores \in Nat
  BY PathKnown DEF StoreInv, StoreTypeOK
<1>2. zeros \in Seq(Piece) /\ \A i \in 1 .. Len(zeros) : zeros[i] = Zero
  BY <1>1 DEF Zero, Piece
<1>3. /\ calls[p] = NoCall /\ UNCHANGED <<files, stores>>
      /\ Called(p, "delete", id, Failed, zeros)
      /\ promised' = [promised EXCEPT ![id] = @ \cup {Failed}]
  BY DEF BeginDelete
<1>4. Failed \in Nat /\ {Failed} \in SUBSET Nat
  BY DEF Failed
<1>5. stores' \in Nat /\ stores <= stores' /\ UNCHANGED files
  BY <1>1, <1>3
<1> HIDE DEF zeros
<1>6. PICK blob \in Seq(Piece) : blob = zeros
  BY <1>2
<1>7. /\ Called(p, "delete", id, Failed, blob)
      /\ \A i \in 1 .. Len(blob) : blob[i] = Zero
  BY <1>2, <1>3, <1>6
<1>8. PICK more \in SUBSET Nat : more = {Failed}
  BY <1>4
<1>9. Failed \in more /\ promised' = [promised EXCEPT ![id] = @ \cup more]
  BY <1>3, <1>8
<1> QED
  <2>1. PICK share \in Nat : share = Failed
    BY <1>4
  <2>2. PICK op \in {"store", "delete"} : op = "delete"
    OBVIOUS
  <2>3. Called(p, op, id, share, blob)
    BY <1>7, <2>1, <2>2
  <2>4. calls[p] = NoCall
    BY <1>3
  <2> QED
    BY <1>5, <1>7, <1>9, <2>2, <2>3, <2>4, CalledSound

LEMMA OpenStep ==
    ASSUME StoreInv, NEW p \in Processes, Open(p)
    PROVE  StoreInv'
<1>1. PICK c \in Call, file \in Seq(Piece), prom \in SUBSET Nat :
         /\ c = calls[p] /\ file = files[PathFor(c.id)] /\ prom = promised[c.id]
         /\ c.id \in ParticipantIds /\ CallSound(c, file, prom, stores) /\ Failed \in prom
         /\ promised = [promised EXCEPT ![c.id] = prom]
  BY UnderWay DEF Open
<1>2. Len(c.blob) \in Nat
  BY CallFields
<1> DEFINE d == Moved(c, 0, TRUE)
<1>3. /\ d \in Call
      /\ d.op = c.op /\ d.id = c.id /\ d.share = c.share /\ d.blob = c.blob
      /\ d.at = 0 /\ d.linked /\ d.alone = c.alone
  <2> DEFINE m == [c EXCEPT !.at = 0]
  <2>1. /\ m \in Call /\ m.op = c.op /\ m.id = c.id /\ m.share = c.share
        /\ m.blob = c.blob /\ m.at = 0 /\ m.alone = c.alone
    BY DEF Call
  <2>2. d = [m EXCEPT !.linked = TRUE]
    BY DEF Moved
  <2> HIDE DEF m, d
  <2> QED
    BY <2>1, <2>2 DEF Call
<1>4. c # NoCall /\ calls' = [calls EXCEPT ![p] = d]
  <2>1. calls' = [calls EXCEPT ![p] = [calls[p] EXCEPT !.at = 0, !.linked = TRUE]]
    BY DEF Open, StoreInv, StoreTypeOK
  <2> QED
    BY <1>1, <2>1 DEF Open, Moved
<1> HIDE DEF d
<1>5. PICK empty \in Seq(Piece) : empty = <<>>
  <2>1. <<>> \in Seq(Piece)
    OBVIOUS
  <2> QED
    BY <2>1
<1>6. CallMove(p, c.id, empty, prom, d)
  <2>1. files' = [files EXCEPT ![PathFor(c.id)] = empty] /\ UNCHANGED <<stores, promised>>
    BY <1>1, <1>5 DEF Open
  <2>2. promised' = [promised EXCEPT ![c.id] = prom] /\ UNCHANGED stores
    BY <1>1, <2>1
  <2> QED
    BY <1>3, <1>4, <2>1, <2>2, LoneMove
<1>7. CallSound(d, empty, prom, stores)
  <2>1. Len(empty) = 0
    BY <1>5
  <2>2. d.at \in -1 .. Len(d.blob)
    BY <1>2, <1>3
  <2> QED
    BY <1>1, <1>3, <2>1, <2>2 DEF CallSound
<1>8. FileSound(empty, prom, stores)
  BY <1>1, <1>5 DEF FileSound
<1> QED
  BY <1>1, <1>3, <1>4, <1>6, <1>7, <1>8, CallMoves

LEMMA WrittenPieces ==
    ASSUME NEW data \in Seq(Piece), NEW at \in Nat, NEW piece \in Piece
    PROVE  \E longer \in Seq(Piece) :
               /\ longer = WrittenAt(data, at, piece)
               /\ Len(longer) = IF Len(data) > at THEN Len(data) ELSE at + 1
               /\ \A i \in 1 .. Len(longer) :
                      longer[i] = IF i = at + 1 THEN piece
                                  ELSE IF i <= Len(data) THEN data[i] ELSE Zero
<1> DEFINE n == IF Len(data) > at THEN Len(data) ELSE at + 1
<1>1. n \in Nat
  OBVIOUS
<1>2. \A i \in 1 .. Len(data) : data[i] \in Piece
  OBVIOUS
<1>3. Zero \in Piece
  BY DEF Zero, Piece
<1> DEFINE longer == [i \in 1 .. n |-> IF i = at + 1 THEN piece
                                      ELSE IF i <= Len(data) THEN data[i] ELSE Zero]
<1>4. longer \in Seq(Piece) /\ Len(longer) = n
  BY <1>1, <1>2, <1>3
<1>5. longer = WrittenAt(data, at, piece)
  BY DEF WrittenAt
<1>6. \A i \in 1 .. Len(longer) :
        longer[i] = IF i = at + 1 THEN piece ELSE IF i <= Len(data) THEN data[i] ELSE Zero
  BY <1>4
<1> HIDE DEF longer
<1> QED
  BY <1>4, <1>5, <1>6

LEMMA WritePieceStep ==
    ASSUME StoreInv, NEW p \in Processes, WritePiece(p)
    PROVE  StoreInv'
<1>1. PICK c \in Call, file \in Seq(Piece), prom \in SUBSET Nat :
         /\ c = calls[p] /\ file = files[PathFor(c.id)] /\ prom = promised[c.id]
         /\ c.id \in ParticipantIds
         /\ CallSound(c, file, prom, stores) /\ FileSound(file, prom, stores)
         /\ Failed \in prom /\ stores \in Nat
         /\ files = [files EXCEPT ![PathFor(c.id)] = file]
         /\ promised = [promised EXCEPT ![c.id] = prom]
  BY UnderWay DEF WritePiece
<1>2. PICK at \in Nat : at = c.at /\ at + 1 \in 1 .. Len(c.blob)
  BY <1>1, CallFields DEF WritePiece
<1>3. c.blob \in Seq(Piece) /\ Len(c.blob) \in Nat /\ c.share \in Nat
  BY CallFields
<1>4. PICK piece \in Piece : piece = c.blob[at + 1]
  BY <1>2, <1>3
<1>5. piece.share \in prom \cup {Failed}
  <2>1. CASE c.op = "store"
    <3>1. c.blob = Blob(c.share) /\ c.share \in prom
      BY <1>1, <2>1 DEF CallSound
    <3>2. Len(c.blob) = 2
      BY <1>3, <3>1, BlobPieces
    <3>3. at + 1 = 1 \/ at + 1 = 2
      BY <1>2, <3>2
    <3> QED
      BY <1>3, <1>4, <3>1, <3>3, BlobPieces
  <2>2. CASE c.op # "store"
    <3>1. c.blob[at + 1] = Zero
      BY <1>1, <1>2, <2>2 DEF CallSound
    <3> QED
      BY <1>4, <3>1 DEF Zero, Failed
  <2> QED
    BY <2>1, <2>2
<1>6. PICK longer \in Seq(Piece) :
         /\ longer = WrittenAt(file, at, piece)
         /\ Len(longer) = IF Len(file) > at THEN Len(file) ELSE at + 1
         /\ \A i \in 1 .. Len(longer) :
                longer[i] = IF i = at + 1 THEN piece
                            ELSE IF i <= Len(file) THEN file[i] ELSE Zero
  BY WrittenPieces
<1>7. FileSound(longer, prom, stores)
  <2>1. \A i \in 1 .. Len(file) : file[i].share \in prom \cup {Failed}
    BY <1>1 DEF FileSound
  <2>2. Zero.share = Failed
    BY DEF Zero, Failed
  <2>3. ASSUME NEW i \in 1 .. Len(longer)
        PROVE  longer[i].share \in prom \cup {Failed}
    <3>1. Len(file) \in Nat
      OBVIOUS
    <3> QED
      BY <1>5, <1>6, <2>1, <2>2, <3>1
  <2> QED
    BY <1>1, <2>3 DEF FileSound
<1>8. PICK d \in Call :
         /\ d = [c EXCEPT !.at = at + 1]
         /\ d.op = c.op /\ d.id = c.id /\ d.share = c.share /\ d.blob = c.blob
         /\ d.at = at + 1 /\ d.linked = c.linked /\ d.alone = c.alone
  <2>1. at + 1 \in Int /\ c.linked \in BOOLEAN
    BY CallFields
  <2>2. LET d == Moved(c, at + 1, c.linked)
        IN  /\ d \in Call /\ d = [c EXCEPT !.at = at + 1]
            /\ d.op = c.op /\ d.id = c.id /\ d.share = c.share /\ d.blob = c.blob
            /\ d.at = at + 1 /\ d.linked = c.linked /\ d.alone = c.alone
    BY <2>1, CallAt
  <2> QED
    BY <2>2
<1>9. c # NoCall /\ calls' = [calls EXCEPT ![p] = d]
  <2>1. calls' = [calls EXCEPT ![p] = [calls[p] EXCEPT !.at = calls[p].at + 1]]
    BY DEF WritePiece, StoreInv, StoreTypeOK
  <2> QED
    BY <1>1, <1>2, <1>8, <2>1 DEF WritePiece
<1>10. ASSUME NEW data \in Seq(Piece), files' = [files EXCEPT ![PathFor(c.id)] = data]
       PROVE  CallMove(p, c.id, data, prom, d)
  <2>1. UNCHANGED <<stores, promised>>
    BY DEF WritePiece
  <2>2. promised' = [promised EXCEPT ![c.id] = prom] /\ UNCHANGED stores
    BY <1>1, <2>1
  <2> QED
    BY <1>9, <1>10, <2>2, LoneMove
<1>11. d.at \in -1 .. Len(d.blob) /\ d.at >= 0
  BY <1>2, <1>3, <1>8
<1>12. CASE c.linked
  <2>1. files' = [files EXCEPT ![PathFor(c.id)] = longer]
    BY <1>1, <1>2, <1>4, <1>6, <1>12 DEF WritePiece
  <2>2. ASSUME c.op = "store", c.alone
        PROVE  Len(longer) = at + 1 /\ \A i \in 1 .. at + 1 : longer[i] = c.blob[i]
    <3>1. Len(file) = at /\ \A i \in 1 .. at : file[i] = c.blob[i]
      BY <1>1, <1>2, <2>2 DEF CallSound
    <3>2. Len(longer) = at + 1
      BY <1>6, <3>1
    <3> QED
      BY <1>4, <1>6, <3>1, <3>2
  <2>3. CallSound(d, longer, prom, stores)
    BY <1>1, <1>8, <1>11, <1>12, <2>2 DEF CallSound
  <2> QED
    BY <1>1, <1>7, <1>8, <1>9, <1>10, <2>1, <2>3, CallMoves
<1>13. CASE ~c.linked
  <2>1. files' = [files EXCEPT ![PathFor(c.id)] = file]
    BY <1>1, <1>13 DEF WritePiece
  <2>2. ~(c.op = "store" /\ c.alone)
    BY <1>1, <1>2, <1>13 DEF CallSound
  <2>3. CallSound(d, file, prom, stores)
    BY <1>1, <1>8, <1>11, <2>2 DEF CallSound
  <2> QED
    BY <1>1, <1>8, <1>9, <1>10, <2>1, <2>3, CallMoves
<1> QED
  BY <1>12, <1>13

(* A store that was alone has written the whole of its share.               *)
LEMMA FinishStoreStep ==
    ASSUME StoreInv, NEW p \in Processes, FinishStore(p)
    PROVE  StoreInv'
<1>0. calls[p] # NoCall
  BY DEF FinishStore, NoCall
<1>1. PICK c \in Call, file \in Seq(Piece), prom \in SUBSET Nat :
         /\ c = calls[p] /\ file = files[PathFor(c.id)] /\ prom = promised[c.id]
         /\ CallSound(c, file, prom, stores) /\ FileSound(file, prom, stores)
         /\ files = [files EXCEPT ![PathFor(c.id)] = file]
         /\ promised = [promised EXCEPT ![c.id] = prom]
  BY <1>0, UnderWay
<1>2. /\ UNCHANGED <<files, stores>> /\ calls' = [calls EXCEPT ![p] = NoCall]
      /\ c.op = "store" /\ c.at = Len(c.blob)
      /\ promised' = IF c.alone THEN [promised EXCEPT ![c.id] = {c.share}] ELSE promised
  BY <1>1 DEF FinishStore, Ended
<1>3. c.blob = Blob(c.share) /\ c.share \in 1 .. stores
  BY <1>1, <1>2 DEF CallSound
<1>4. c.share \in Nat /\ Len(c.blob) = 2
  BY <1>3, CallFields, BlobPieces
<1>5. PICK now \in SUBSET Nat : now = IF c.alone THEN {c.share} ELSE prom
  BY <1>4
<1>6. CallMove(p, c.id, file, now, NoCall)
  <2>1. files' = [files EXCEPT ![PathFor(c.id)] = file]
    BY <1>1, <1>2
  <2>2. promised' = [promised EXCEPT ![c.id] = now]
    BY <1>1, <1>2, <1>5
  <2> QED
    BY <1>2, <2>1, <2>2, NoCallTyped, LoneMove
<1>7. FileSound(file, now, stores)
  <2>1. CASE c.alone
    <3>1. Len(file) = 2 /\ file[1] = Blob(c.share)[1] /\ file[2] = Blob(c.share)[2]
      BY <1>1, <1>2, <1>3, <1>4, <2>1 DEF CallSound
    <3>2. file = Blob(c.share)
      BY <1>4, <3>1, WholeBlob
    <3>3. \A i \in 1 .. Len(file) : file[i].share = c.share
      <4> SUFFICES ASSUME NEW i \in 1 .. 2 PROVE file[i].share = c.share
        BY <3>1
      <4>1. i = 1 \/ i = 2
        OBVIOUS
      <4> QED
        BY <1>4, <3>2, <4>1, BlobPieces
    <3> QED
      BY <1>3, <1>5, <2>1, <3>2, <3>3 DEF FileSound
  <2>2. CASE ~c.alone
    BY <1>1, <1>5, <2>2
  <2> QED
    BY <2>1, <2>2
<1>8. c # NoCall /\ (now = promised[c.id] \/ c.alone)
  BY <1>0, <1>1, <1>5
<1> QED
  BY <1>1, <1>6, <1>7, <1>8, CallMoves

LEMMA WriteFailsStep ==
    ASSUME StoreInv, NEW p \in Processes, WriteFails(p)
    PROVE  StoreInv'
<1>1. PICK c \in Call, file \in Seq(Piece), prom \in SUBSET Nat :
         /\ c = calls[p] /\ file = files[PathFor(c.id)] /\ prom = promised[c.id]
         /\ CallSound(c, file, prom, stores) /\ FileSound(file, prom, stores)
         /\ files = [files EXCEPT ![PathFor(c.id)] = file]
         /\ promised = [promised EXCEPT ![c.id] = prom]
  BY UnderWay DEF WriteFails
<1>2. c # NoCall /\ UNCHANGED <<files, stores, promised>>
  BY <1>1 DEF WriteFails
<1>3. /\ files' = [files EXCEPT ![PathFor(c.id)] = file] /\ UNCHANGED stores
      /\ promised' = [promised EXCEPT ![c.id] = prom]
  BY <1>1, <1>2
<1>4. CASE c.op = "store"
  <2>1. calls' = [calls EXCEPT ![p] = NoCall]
    BY <1>1, <1>4 DEF WriteFails, Ended
  <2>2. CallMove(p, c.id, file, prom, NoCall)
    BY <1>3, <2>1, NoCallTyped, LoneMove
  <2> QED
    BY <1>1, <1>2, <2>2, CallMoves
<1>5. CASE c.op # "store"
  <2>1. calls' = [calls EXCEPT ![p] = [calls[p] EXCEPT !.at = Len(calls[p].blob)]]
    BY <1>1, <1>5 DEF WriteFails, StoreInv, StoreTypeOK
  <2>2. PICK d \in Call :
           /\ d = [c EXCEPT !.at = Len(c.blob)]
           /\ d.op = c.op /\ d.id = c.id /\ d.share = c.share /\ d.blob = c.blob
           /\ d.at = Len(c.blob) /\ d.alone = c.alone
    <3>1. PICK end \in Int : end = Len(c.blob)
      BY CallFields
    <3>2. c.linked \in BOOLEAN
      BY CallFields
    <3>3. LET d == Moved(c, end, c.linked)
          IN  /\ d \in Call /\ d = [c EXCEPT !.at = end]
              /\ d.op = c.op /\ d.id = c.id /\ d.share = c.share /\ d.blob = c.blob
              /\ d.at = end /\ d.alone = c.alone
      BY <3>2, CallAt
    <3> QED
      BY <3>1, <3>3
  <2>3. calls' = [calls EXCEPT ![p] = d]
    BY <1>1, <2>1, <2>2
  <2>4. CallMove(p, c.id, file, prom, d)
    BY <1>3, <2>3, LoneMove
  <2>5. d.at \in -1 .. Len(d.blob)
    <3>1. Len(c.blob) \in Nat
      BY CallFields
    <3> QED
      BY <2>2, <3>1
  <2>6. CallSound(d, file, prom, stores)
    BY <1>1, <1>5, <2>2, <2>5 DEF CallSound
  <2> QED
    BY <1>1, <1>2, <2>2, <2>4, <2>6, CallMoves
<1> QED
  BY <1>4, <1>5

LEMMA RemoveStep ==
    ASSUME StoreInv, NEW p \in Processes, Remove(p)
    PROVE  StoreInv'
<1>0. calls[p] # NoCall
  BY DEF Remove, NoCall
<1>1. PICK c \in Call, file \in Seq(Piece), prom \in SUBSET Nat :
         /\ c = calls[p] /\ prom = promised[c.id] /\ c.id \in ParticipantIds
         /\ Failed \in prom
         /\ promised = [promised EXCEPT ![c.id] = prom]
  BY <1>0, UnderWay
<1>2. /\ files' = [files EXCEPT ![PathFor(c.id)] = Absent] /\ UNCHANGED stores
      /\ promised' = IF c.alone THEN [promised EXCEPT ![c.id] = {Failed}] ELSE promised
  BY <1>1 DEF Remove
<1>3. PICK gone \in Seq(Piece) : gone = Absent
  <2>1. Absent \in Seq(Piece)
    BY DEF Absent, Piece
  <2> QED
    BY <2>1
<1>4. PICK now \in SUBSET Nat : now = IF c.alone THEN {Failed} ELSE prom
  <2>1. {Failed} \in SUBSET Nat
    BY DEF Failed
  <2> QED
    BY <2>1
<1>5. FileSound(gone, now, stores)
  <2>1. Len(gone) = 1 /\ gone[1].share = Failed
    BY <1>3 DEF Absent, Failed
  <2>2. Failed \in now
    BY <1>1, <1>4
  <2> QED
    BY <2>1, <2>2 DEF FileSound
<1>6. calls \in [Processes -> Call]
  BY DEF StoreInv, StoreTypeOK
<1>7. ASSUME NEW q \in Processes
      PROVE  calls'[q] = IF q = p THEN NoCall
                         ELSE IF calls[q] # NoCall /\ calls[q].id = c.id
                         THEN [calls[q] EXCEPT !.linked = FALSE]
                         ELSE calls[q]
  BY <1>1, PathInjective DEF Remove
<1>8. calls' \in [Processes -> Call]
  <2>1. calls' = [q \in Processes |-> calls'[q]]
    BY DEF Remove
  <2>2. ASSUME NEW q \in Processes
        PROVE  calls'[q] \in Call
    <3>1. calls[q] \in Call /\ [calls[q] EXCEPT !.linked = FALSE] \in Call
      BY <1>6 DEF Call
    <3> QED
      BY <1>7, <3>1, NoCallTyped
  <2> QED
    BY <2>1, <2>2
<1>9. CallMove(p, c.id, gone, now, NoCall)
  <2>1. files' = [files EXCEPT ![PathFor(c.id)] = gone]
    BY <1>2, <1>3
  <2>2. promised' = [promised EXCEPT ![c.id] = now]
    BY <1>1, <1>2, <1>4
  <2>3. \A q \in Processes \ {p} :
           \/ calls'[q] = calls[q]
           \/ /\ calls[q] # NoCall /\ calls[q].id = c.id
              /\ calls'[q] = [calls[q] EXCEPT !.linked = FALSE]
    BY <1>7
  <2>4. calls'[p] = NoCall
    BY <1>7
  <2> QED
    BY <1>2, <1>8, <2>1, <2>2, <2>3, <2>4 DEF CallMove
<1>10. c # NoCall /\ (now = promised[c.id] \/ c.alone)
  BY <1>0, <1>1, <1>4
<1> QED
  BY <1>1, <1>5, <1>9, <1>10, CallMoves

LEMMA CrashStep ==
    ASSUME StoreInv, NEW p \in Processes, Crash(p)
    PROVE  StoreInv'
<1>1. PICK c \in Call, file \in Seq(Piece), prom \in SUBSET Nat :
         /\ c = calls[p] /\ file = files[PathFor(c.id)] /\ prom = promised[c.id]
         /\ FileSound(file, prom, stores)
         /\ files = [files EXCEPT ![PathFor(c.id)] = file]
         /\ promised = [promised EXCEPT ![c.id] = prom]
  BY UnderWay DEF Crash
<1>2. /\ c # NoCall /\ UNCHANGED <<files, stores, promised>>
      /\ calls' = [calls EXCEPT ![p] = NoCall]
  BY <1>1 DEF Crash, Ended
<1>3. /\ files' = [files EXCEPT ![PathFor(c.id)] = file] /\ UNCHANGED stores
      /\ promised' = [promised EXCEPT ![c.id] = prom]
  BY <1>1, <1>2
<1>4. CallMove(p, c.id, file, prom, NoCall)
  BY <1>2, <1>3, NoCallTyped, LoneMove
<1> QED
  BY <1>1, <1>2, <1>4, CallMoves

LEMMA StoreStep == StoreInv /\ [StoreNext]_storage => StoreInv'
<1> SUFFICES ASSUME StoreInv, [StoreNext]_storage
             PROVE  StoreInv'
  OBVIOUS
<1>1. CASE UNCHANGED storage
  BY <1>1 DEF storage, StoreInv, StoreTypeOK, CallsSound, FilesSound, Exclusive
<1>2. CASE StoreNext
  BY <1>2, BeginStoreStep, BeginDeleteStep, OpenStep, WritePieceStep, FinishStoreStep,
     WriteFailsStep, RemoveStep, CrashStep DEF StoreNext
<1> QED
  BY <1>1, <1>2

(* What a load answers is promised: the share last stored alone stays       *)
(* loadable until the next store or delete of it begins, and no load ever   *)
(* answers a mixture, a share that was replaced or another participant's.   *)
THEOREM LoadsIntact == StoreSpec => []LoadIntact
<1>1. StoreInv => LoadIntact
  <2> SUFFICES ASSUME StoreInv, NEW id \in ParticipantIds
               PROVE  Load(id) \in promised[id]
    BY DEF LoadIntact
  <2> DEFINE data == files[PathFor(id)]
             wholes == {s \in 1 .. stores : data = Blob(s)}
  <2>1. FileSound(data, promised[id], stores) /\ stores \in Nat
    BY DEF StoreInv, StoreTypeOK, FilesSound
  <2>2. ASSUME NEW s \in wholes
        PROVE  s \in promised[id]
    <3>1. Len(data) = 2 /\ data[1].share = s /\ s # Failed
      BY <2>1, BlobPieces DEF Failed
    <3> QED
      BY <2>1, <3>1 DEF FileSound
  <2>3. wholes = {} => Failed \in promised[id]
    BY <2>1 DEF FileSound
  <2>4. Load(id) = IF wholes = {} THEN Failed ELSE CHOOSE s \in wholes : TRUE
    BY DEF Load
  <2> HIDE DEF wholes
  <2>5. wholes # {} => (CHOOSE s \in wholes : TRUE) \in wholes
    OBVIOUS
  <2> QED
    BY <2>2, <2>3, <2>4, <2>5
<1> QED
  BY <1>1, StoreInitially, StoreStep, PTL DEF StoreSpec
=============================================================================
