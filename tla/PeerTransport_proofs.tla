------------------------ MODULE PeerTransport_proofs ------------------------
(***************************************************************************)
(* Proofs about PeerTransport, for any envelopes, any number of sends and  *)
(* connections, and frames of any length.                                  *)
(*                                                                         *)
(* A frame ends with the last word of its body, so at any moment the       *)
(* envelopes that receive has answered, and the last words still on the    *)
(* wires or still to be written, stand for calls of send, one each, in the *)
(* order of the calls (Placed). That is inductive together with what is    *)
(* known of the connections (StreamsOK): a connection that can still be    *)
(* read from is the one the listener has or waits in the backlog, so       *)
(* nothing is ever read from a connection older than one already read.     *)
(***************************************************************************)
EXTENDS PeerTransport, SequenceTheorems, TLAPS

BodyWord(e, i) == [kind |-> "body", of |-> e, part |-> i]

Words == {LengthWord} \cup {BodyWord(e, i) : e \in Envelopes, i \in 1 .. BodyWords}

Wire == [words : Seq(Words), open : BOOLEAN, reset : BOOLEAN]

NetworkTypes ==
    /\ client \in [stream : Nat, authenticated : BOOLEAN, writing : Seq(Words) \cup {NoCall}]
    /\ server \in [stream : Nat, authenticated : BOOLEAN, listening : BOOLEAN,
                   accepting : BOOLEAN, reading : Seq(Words) \cup {NoCall}]
    /\ wires \in Seq(Wire)
    /\ backlog \in Seq(Nat)
    /\ handed \in Seq(Envelopes)
    /\ accepted \in Seq(Envelopes)

(* A connection somebody may still read from. *)
Readable(c) == c = server.stream \/ \E i \in 1 .. Len(backlog) : backlog[i] = c

StreamsOK ==
    /\ client.stream \in {None, Len(wires)}
    /\ client.writing # NoCall => client.stream # None /\ client.writing # <<>>
    /\ server.stream <= Len(wires)
    /\ server.reading # NoCall => server.stream # None
    /\ server.accepting => server.stream = None
    /\ server.stream # None \/ server.accepting => server.listening
    /\ \A i \in 1 .. Len(backlog) : server.stream < backlog[i] /\ backlog[i] <= Len(wires)
    /\ \A i, j \in 1 .. Len(backlog) : i < j => backlog[i] < backlog[j]
    /\ \A c \in 1 .. Len(wires) :
          IF wires[c].reset THEN wires[c].words = <<>> ELSE Readable(c)

(* The last word of the frame of e. *)
End(e) == BodyWord(e, BodyWords)

IsEnd(w) == \E e \in Envelopes : w = End(e)

(* The lines words stand in: what was answered, then the connections, then *)
(* what is being written.                                                  *)
Standing(answered, connections, writing) ==
    [c \in 0 .. Len(connections) + 1 |->
        IF c = 0 THEN [i \in 1 .. Len(answered) |-> End(answered[i])]
        ELSE IF c = Len(connections) + 1 THEN writing
        ELSE connections[c].words]

Lines == Standing(accepted, wires, client.writing)

(* The places of the last words in them. *)
Held(lines) ==
    {x \in UNION {{c} \X DOMAIN lines[c] : c \in DOMAIN lines} : IsEnd(lines[x[1]][x[2]])}

Before(x, y) == x[1] < y[1] \/ (x[1] = y[1] /\ x[2] < y[2])

Placing(lines, calls, place) ==
    /\ \A x \in Held(lines) : lines[x[1]][x[2]] = End(calls[place[x]])
    /\ \A x, y \in Held(lines) : Before(x, y) => place[x] < place[y]

Placed(lines, calls) ==
    \E place \in [Held(lines) -> 1 .. Len(calls)] : Placing(lines, calls, place)

OwnAnswers ==
    \A i \in 1 .. Len(accepted) : Verified(accepted[i]) /\ Valid(accepted[i], Expected)

NetworkInv ==
    /\ NetworkTypes
    /\ StreamsOK
    /\ OwnAnswers
    /\ Placed(Lines, handed)

----------------------------------------------------------------------------
(* Places *)

LEMMA HeldAre ==
  ASSUME NEW lines
  PROVE  /\ \A c \in DOMAIN lines : \A i \in DOMAIN lines[c] :
               IsEnd(lines[c][i]) => <<c, i>> \in Held(lines)
         /\ \A x \in Held(lines) :
               /\ x = <<x[1], x[2]>>
               /\ x[1] \in DOMAIN lines
               /\ x[2] \in DOMAIN lines[x[1]]
               /\ IsEnd(lines[x[1]][x[2]])
<1> HIDE DEF IsEnd
<1>1. ASSUME NEW c \in DOMAIN lines, NEW i \in DOMAIN lines[c], IsEnd(lines[c][i])
      PROVE  <<c, i>> \in Held(lines)
  <2>1. <<c, i>> \in {c} \X DOMAIN lines[c]
    OBVIOUS
  <2>2. <<c, i>> \in UNION {{d} \X DOMAIN lines[d] : d \in DOMAIN lines}
    BY <2>1
  <2>3. <<c, i>>[1] = c /\ <<c, i>>[2] = i
    OBVIOUS
  <2> QED
    BY <1>1, <2>2, <2>3 DEF Held
<1>2. ASSUME NEW x \in Held(lines)
      PROVE  /\ x = <<x[1], x[2]>>
             /\ x[1] \in DOMAIN lines
             /\ x[2] \in DOMAIN lines[x[1]]
             /\ IsEnd(lines[x[1]][x[2]])
  <2>1. x \in UNION {{d} \X DOMAIN lines[d] : d \in DOMAIN lines}
        /\ IsEnd(lines[x[1]][x[2]])
    BY DEF Held
  <2>2. PICK d \in DOMAIN lines : x \in {d} \X DOMAIN lines[d]
    BY <2>1
  <2>3. x = <<x[1], x[2]>> /\ x[1] = d /\ x[2] \in DOMAIN lines[d]
    BY <2>2
  <2> QED
    BY <2>1, <2>2, <2>3
<1> QED
  BY <1>1, <1>2

(* Words that were lost or moved, none of them past another, keep their    *)
(* calls.                                                                  *)
LEMMA Carried ==
  ASSUME NEW old, NEW new, NEW calls, Placed(old, calls),
         NEW from \in [Held(new) -> Held(old)],
         \A x \in Held(new) : new[x[1]][x[2]] = old[from[x][1]][from[x][2]],
         \A x, y \in Held(new) : Before(x, y) => Before(from[x], from[y])
  PROVE  Placed(new, calls)
<1>1. PICK place \in [Held(old) -> 1 .. Len(calls)] : Placing(old, calls, place)
  BY DEF Placed
<1> DEFINE kept == [x \in Held(new) |-> place[from[x]]]
<1>2. kept \in [Held(new) -> 1 .. Len(calls)]
  BY <1>1
<1>3. \A x \in Held(new) : kept[x] = place[from[x]] /\ from[x] \in Held(old)
  OBVIOUS
<1> HIDE DEF kept
<1>4. Placing(new, calls, kept)
  BY <1>1, <1>3 DEF Placing
<1> QED
  BY <1>2, <1>4 DEF Placed

(* Lines that lose all their last words.                                   *)
LEMMA Emptied ==
  ASSUME NEW old, NEW new, NEW calls, Placed(old, calls),
         \A c \in DOMAIN new :
            \/ c \in DOMAIN old /\ new[c] = old[c]
            \/ \A i \in DOMAIN new[c] : ~IsEnd(new[c][i])
  PROVE  Placed(new, calls)
<1>1. \A x \in Held(new) : x \in Held(old) /\ new[x[1]][x[2]] = old[x[1]][x[2]]
  <2> SUFFICES ASSUME NEW x \in Held(new)
               PROVE  x \in Held(old) /\ new[x[1]][x[2]] = old[x[1]][x[2]]
    OBVIOUS
  <2>1. /\ x = <<x[1], x[2]>> /\ x[1] \in DOMAIN new /\ x[2] \in DOMAIN new[x[1]]
        /\ IsEnd(new[x[1]][x[2]])
    BY HeldAre
  <2>2. PICK c, i : c = x[1] /\ i = x[2]
    OBVIOUS
  <2>3. c \in DOMAIN old /\ new[c] = old[c]
    BY <2>1, <2>2
  <2>4. <<c, i>> \in Held(old)
    BY <2>1, <2>2, <2>3, HeldAre
  <2> QED
    BY <2>1, <2>2, <2>3, <2>4
<1> DEFINE from == [x \in Held(new) |-> x]
<1>2. from \in [Held(new) -> Held(old)] /\ \A x \in Held(new) : from[x] = x
  BY <1>1
<1> HIDE DEF from
<1> QED
  BY <1>1, <1>2, Carried

----------------------------------------------------------------------------
(* Words *)

Writing == Seq(Words) \cup {NoCall}

LEMMA EndsApart ==
  ASSUME NEW e \in Envelopes
  PROVE  /\ End(e) \in Words
         /\ IsEnd(End(e))
         /\ ~IsEnd(LengthWord)
         /\ \A i \in 1 .. BodyWords : IsEnd(BodyWord(e, i)) => i = BodyWords
         /\ \A f \in Envelopes : End(e) = End(f) => e = f
<1>1. BodyWords \in 1 .. BodyWords
  BY TransportAssumption
<1>2. End(e) \in Words
  BY <1>1 DEF End, Words
<1>3. \A f : \A i, j : BodyWord(e, i) = BodyWord(f, j) => e = f /\ i = j
  <2> SUFFICES ASSUME NEW f, NEW i, NEW j, BodyWord(e, i) = BodyWord(f, j)
               PROVE  e = f /\ i = j
    OBVIOUS
  <2>1. BodyWord(e, i).of = e /\ BodyWord(e, i).part = i
    BY DEF BodyWord
  <2>2. BodyWord(f, j).of = f /\ BodyWord(f, j).part = j
    BY DEF BodyWord
  <2> QED
    BY <2>1, <2>2
<1>4. ~IsEnd(LengthWord)
  <2> SUFFICES ASSUME NEW f \in Envelopes, LengthWord = End(f) PROVE FALSE
    BY DEF IsEnd
  <2>1. LengthWord.kind = "length" /\ End(f).kind = "body"
    BY DEF LengthWord, End, BodyWord
  <2> QED
    BY <2>1
<1> QED
  BY <1>2, <1>3, <1>4 DEF End, IsEnd

LEMMA NoCallApart ==
  /\ NoCall \notin Seq(Words)
  /\ DOMAIN NoCall = {1}
  /\ \A i \in DOMAIN NoCall : ~IsEnd(NoCall[i])
  /\ NoCall # <<>>
<1>1. DOMAIN NoCall = {1} /\ Len(NoCall) = 1 /\ NoCall[1] = [kind |-> "no call"]
  BY DEF NoCall
<1>2. NoCall[1].kind = "no call"
  BY DEF NoCall
<1>3. \A w \in Words : w.kind \in {"length", "body"}
  BY DEF Words, LengthWord, BodyWord
<1>4. NoCall \notin Seq(Words)
  <2> SUFFICES ASSUME NoCall \in Seq(Words) PROVE FALSE
    OBVIOUS
  <2>1. PICK s \in Seq(Words) : s = NoCall
    OBVIOUS
  <2>2. Len(s) = 1
    BY <1>1, <2>1
  <2>3. s[1] \in Words
    BY <2>1, <2>2
  <2> QED
    BY <1>2, <1>3, <2>1, <2>3
<1>5. ~IsEnd(NoCall[1])
  <2> SUFFICES ASSUME NEW f \in Envelopes, NoCall[1] = End(f) PROVE FALSE
    BY DEF IsEnd
  <2>1. End(f).kind = "body"
    BY DEF End, BodyWord
  <2> QED
    BY <1>2, <2>1
<1>6. NoCall # <<>>
  BY DEF NoCall
<1>7. \A i \in DOMAIN NoCall : ~IsEnd(NoCall[i])
  <2> SUFFICES ASSUME NEW i \in DOMAIN NoCall PROVE ~IsEnd(NoCall[i])
    OBVIOUS
  <2>1. i = 1
    BY <1>1
  <2> QED
    BY <1>5, <2>1
<1> QED
  BY <1>1, <1>4, <1>6, <1>7

LEMMA LinesAre ==
  ASSUME NEW a \in Seq(Envelopes), NEW w \in Seq(Wire), NEW wr \in Writing
  PROVE  /\ Len(w) \in Nat
         /\ DOMAIN Standing(a, w, wr) = 0 .. Len(w) + 1
         /\ DOMAIN Standing(a, w, wr)[0] = 1 .. Len(a)
         /\ \A i \in 1 .. Len(a) : Standing(a, w, wr)[0][i] = End(a[i])
         /\ Standing(a, w, wr)[Len(w) + 1] = wr
         /\ \A c \in 1 .. Len(w) :
               /\ Standing(a, w, wr)[c] = w[c].words
               /\ w[c].words \in Seq(Words)
<1>1. Len(w) \in Nat
  OBVIOUS
<1>2. DOMAIN Standing(a, w, wr) = 0 .. Len(w) + 1
  BY DEF Standing
<1>3. Standing(a, w, wr)[0] = [i \in 1 .. Len(a) |-> End(a[i])]
  BY <1>1 DEF Standing
<1>4. Standing(a, w, wr)[Len(w) + 1] = wr
  BY <1>1 DEF Standing
<1>5. ASSUME NEW c \in 1 .. Len(w)
      PROVE  Standing(a, w, wr)[c] = w[c].words /\ w[c].words \in Seq(Words)
  <2>1. w[c] \in Wire
    OBVIOUS
  <2>2. c \in 0 .. Len(w) + 1 /\ c # 0 /\ c # Len(w) + 1
    BY <1>1
  <2> QED
    BY <2>1, <2>2 DEF Standing, Wire
<1> QED
  BY <1>1, <1>2, <1>3, <1>4, <1>5

(* What was answered is a subsequence of the calls.                        *)
LEMMA PlacedSubsequence ==
  ASSUME NEW a \in Seq(Envelopes), NEW w \in Seq(Wire), NEW wr \in Writing,
         NEW calls \in Seq(Envelopes), Placed(Standing(a, w, wr), calls)
  PROVE  Subsequence(a, calls)
<1> DEFINE lines == Standing(a, w, wr)
<1>1. PICK place \in [Held(lines) -> 1 .. Len(calls)] : Placing(lines, calls, place)
  BY DEF Placed
<1>2. \A i \in 1 .. Len(a) : <<0, i>> \in Held(lines) /\ lines[0][i] = End(a[i])
  <2> SUFFICES ASSUME NEW i \in 1 .. Len(a)
               PROVE  <<0, i>> \in Held(lines) /\ lines[0][i] = End(a[i])
    OBVIOUS
  <2>1. 0 \in DOMAIN lines /\ i \in DOMAIN lines[0] /\ lines[0][i] = End(a[i])
    BY LinesAre
  <2>2. IsEnd(lines[0][i])
    BY <2>1 DEF IsEnd
  <2> HIDE DEF lines
  <2> QED
    BY <2>1, <2>2, HeldAre
<1> HIDE DEF lines
<1> DEFINE at == [i \in 1 .. Len(a) |-> place[<<0, i>>]]
<1>3. at \in [DOMAIN a -> DOMAIN calls] /\ \A i \in 1 .. Len(a) : at[i] = place[<<0, i>>]
  BY <1>1, <1>2
<1> HIDE DEF at
<1>4. DOMAIN a = 1 .. Len(a) /\ DOMAIN calls = 1 .. Len(calls)
  OBVIOUS
<1>5. ASSUME NEW i \in 1 .. Len(a)
      PROVE  a[i] = calls[at[i]]
  <2>1. PICK x \in Held(lines) : x = <<0, i>>
    BY <1>2
  <2>2. lines[x[1]][x[2]] = End(calls[place[x]])
    BY <1>1 DEF Placing
  <2>3. End(a[i]) = End(calls[place[x]]) /\ place[x] = at[i]
    BY <1>2, <1>3, <2>1, <2>2
  <2>4. a[i] \in Envelopes /\ calls[at[i]] \in Envelopes
    BY <1>3, <1>4
  <2> QED
    BY <2>3, <2>4, EndsApart
<1>6. ASSUME NEW i \in 1 .. Len(a), NEW j \in 1 .. Len(a), i < j
      PROVE  at[i] < at[j]
  <2>1. PICK x \in Held(lines), y \in Held(lines) : x = <<0, i>> /\ y = <<0, j>>
    BY <1>2
  <2>2. Before(x, y)
    BY <1>6, <2>1 DEF Before
  <2>3. place[x] < place[y]
    BY <1>1, <2>2 DEF Placing
  <2> QED
    BY <1>3, <2>1, <2>3
<1> QED
  BY <1>3, <1>5, <1>6, <1>4 DEF Subsequence

----------------------------------------------------------------------------
(* What the steps do to the lines                                           *)

LEMMA NothingEnds ==
  ASSUME NEW wr, wr \in {<<>>, NoCall}
  PROVE  \A i \in DOMAIN wr : ~IsEnd(wr[i])
<1>1. DOMAIN <<>> = {}
  OBVIOUS
<1> QED
  BY <1>1, NoCallApart

LEMMA LostWords ==
  ASSUME NEW a \in Seq(Envelopes), NEW calls,
         NEW w \in Seq(Wire), NEW v \in Seq(Wire), Len(v) = Len(w),
         \A c \in 1 .. Len(w) : v[c].words \in {w[c].words, <<>>},
         NEW wr \in Writing, NEW vr \in Writing, vr \in {wr, NoCall},
         Placed(Standing(a, w, wr), calls)
  PROVE  Placed(Standing(a, v, vr), calls)
<1>1. PICK old : old = Standing(a, w, wr)
  OBVIOUS
<1>2. PICK new : new = Standing(a, v, vr)
  OBVIOUS
<1>3. /\ Len(w) \in Nat
      /\ DOMAIN old = 0 .. Len(w) + 1 /\ DOMAIN new = 0 .. Len(w) + 1
      /\ old[Len(w) + 1] = wr /\ new[Len(w) + 1] = vr
      /\ \A c \in 1 .. Len(w) : old[c] = w[c].words /\ new[c] = v[c].words
  BY <1>1, <1>2, LinesAre
<1>4. old[0] = new[0]
  BY <1>1, <1>2, <1>3 DEF Standing
<1>5. ASSUME NEW c \in DOMAIN new
      PROVE  \/ c \in DOMAIN old /\ new[c] = old[c]
             \/ \A i \in DOMAIN new[c] : ~IsEnd(new[c][i])
  <2>1. c = 0 \/ c = Len(w) + 1 \/ c \in 1 .. Len(w)
    BY <1>3
  <2>2. new[c] = old[c] \/ new[c] \in {<<>>, NoCall}
    BY <1>3, <1>4, <2>1
  <2> QED
    BY <1>3, <2>2, NothingEnds
<1>6. Placed(new, calls)
  BY <1>1, <1>5, Emptied
<1> QED
  BY <1>2, <1>6

LEMMA NewConnection ==
  ASSUME NEW a \in Seq(Envelopes), NEW calls,
         NEW w \in Seq(Wire), NEW v \in Seq(Wire), Len(v) = Len(w) + 1,
         \A c \in 1 .. Len(w) : v[c].words = w[c].words,
         v[Len(v)].words = <<>>,
         Placed(Standing(a, w, NoCall), calls)
  PROVE  Placed(Standing(a, v, NoCall), calls)
<1>1. PICK old : old = Standing(a, w, NoCall)
  OBVIOUS
<1>2. PICK new : new = Standing(a, v, NoCall)
  OBVIOUS
<1>0. NoCall \in Writing
  BY DEF Writing
<1>3. /\ Len(w) \in Nat
      /\ DOMAIN old = 0 .. Len(w) + 1 /\ DOMAIN new = 0 .. Len(w) + 2
      /\ new[Len(w) + 2] = NoCall
      /\ \A c \in 1 .. Len(w) : old[c] = w[c].words
      /\ \A c \in 1 .. Len(w) + 1 : new[c] = v[c].words
  <2>1. Len(w) \in Nat
    OBVIOUS
  <2>2. Len(v) + 1 = Len(w) + 2
    BY <2>1
  <2> QED
    BY <1>0, <1>1, <1>2, <2>1, <2>2, LinesAre
<1>4. old[0] = new[0]
  BY <1>1, <1>2, <1>3 DEF Standing
<1>5. ASSUME NEW c \in DOMAIN new
      PROVE  \/ c \in DOMAIN old /\ new[c] = old[c]
             \/ \A i \in DOMAIN new[c] : ~IsEnd(new[c][i])
  <2>1. c = 0 \/ c = Len(w) + 2 \/ c = Len(w) + 1 \/ c \in 1 .. Len(w)
    BY <1>3
  <2>2. (c \in DOMAIN old /\ new[c] = old[c]) \/ new[c] \in {<<>>, NoCall}
    BY <1>3, <1>4, <2>1
  <2> QED
    BY <2>2, NothingEnds
<1>6. Placed(new, calls)
  BY <1>1, <1>5, Emptied
<1> QED
  BY <1>2, <1>6

(* The words of a frame. *)
LEMMA FrameWords ==
  ASSUME NEW e \in Envelopes
  PROVE  /\ <<LengthWord>> \o Body(e) \in Seq(Words)
         /\ <<LengthWord>> \o Body(e) # <<>>
         /\ \A i \in DOMAIN (<<LengthWord>> \o Body(e)) :
               IsEnd((<<LengthWord>> \o Body(e))[i]) => (<<LengthWord>> \o Body(e))[i] = End(e)
         /\ \A i, j \in DOMAIN (<<LengthWord>> \o Body(e)) :
               /\ IsEnd((<<LengthWord>> \o Body(e))[i])
               /\ IsEnd((<<LengthWord>> \o Body(e))[j])
               => i = j
<1>1. PICK s \in Seq(Words) : s = <<LengthWord>>
  <2>1. PICK w \in Words : w = LengthWord
    BY DEF Words
  <2>2. <<w>> \in Seq(Words)
    OBVIOUS
  <2> QED
    BY <2>1, <2>2
<1>2. Len(s) = 1 /\ s[1] = LengthWord
  BY <1>1
<1>3. PICK b \in Seq(Words) : b = Body(e)
  <2>1. Body(e) = [i \in 1 .. BodyWords |-> BodyWord(e, i)]
    BY DEF Body, BodyWord
  <2>2. \A i \in 1 .. BodyWords : BodyWord(e, i) \in Words
    BY DEF Words
  <2> QED
    BY <2>1, <2>2, TransportAssumption
<1>4. Len(b) = BodyWords /\ BodyWords \in Nat
      /\ \A i \in 1 .. BodyWords : b[i] = BodyWord(e, i)
  BY <1>3, TransportAssumption DEF Body, BodyWord
<1>5. PICK f \in Seq(Words) : f = s \o b
  <2>1. s \o b \in Seq(Words)
    BY ConcatProperties
  <2> QED
    BY <2>1
<1>6. /\ Len(f) = 1 + BodyWords
      /\ f[1] = LengthWord
      /\ \A i \in 1 .. BodyWords : f[1 + i] = BodyWord(e, i)
  <2>1. /\ Len(f) = Len(s) + Len(b)
        /\ \A i \in 1 .. Len(s) + Len(b) :
              f[i] = IF i <= Len(s) THEN s[i] ELSE b[i - Len(s)]
    BY <1>5, ConcatProperties
  <2>2. /\ Len(f) = 1 + BodyWords
        /\ \A i \in 1 .. 1 + BodyWords : f[i] = IF i <= 1 THEN s[i] ELSE b[i - 1]
    BY <1>2, <1>4, <2>1
  <2>3. \A i \in 1 .. BodyWords : f[1 + i] = b[i]
    BY <1>4, <2>2
  <2> QED
    BY <1>2, <1>4, <2>2, <2>3
<1>7. ASSUME NEW i \in DOMAIN f, IsEnd(f[i])
      PROVE  i = 1 + BodyWords /\ f[i] = End(e)
  <2>1. i \in 1 .. 1 + BodyWords /\ i # 1
    BY <1>4, <1>6, <1>7, EndsApart
  <2>2. PICK k \in 1 .. BodyWords : i = 1 + k
    <3>1. i - 1 \in 1 .. BodyWords /\ i = 1 + (i - 1)
      BY <1>4, <2>1
    <3> QED
      BY <3>1
  <2>3. f[i] = BodyWord(e, k)
    BY <1>6, <2>2
  <2>4. k = BodyWords
    BY <1>7, <2>3, EndsApart
  <2> QED
    BY <2>2, <2>3, <2>4 DEF End
<1>8. f # <<>>
  BY <1>4, <1>6
<1> QED
  BY <1>1, <1>3, <1>5, <1>7, <1>8

(* A call of send: its last word is after all the others.                  *)
LEMMA Called ==
  ASSUME NEW a \in Seq(Envelopes), NEW calls \in Seq(Envelopes), NEW w \in Seq(Wire),
         NEW e \in Envelopes,
         Placed(Standing(a, w, NoCall), calls)
  PROVE  Placed(Standing(a, w, <<LengthWord>> \o Body(e)), Append(calls, e))
<1>1. PICK old : old = Standing(a, w, NoCall)
  OBVIOUS
<1>2. PICK frame \in Seq(Words) : frame = <<LengthWord>> \o Body(e)
  BY FrameWords
<1>3. PICK new : new = Standing(a, w, frame)
  OBVIOUS
<1>4. PICK last \in Nat : last = Len(w) + 1
  OBVIOUS
<1>5. PICK n \in Nat : n = Len(calls)
  OBVIOUS
<1>6. NoCall \in Writing /\ frame \in Writing
  BY DEF Writing
<1>7. /\ DOMAIN old = 0 .. last /\ DOMAIN new = 0 .. last
      /\ old[last] = NoCall /\ new[last] = frame
  BY <1>1, <1>3, <1>4, <1>6, LinesAre
<1>8. \A c \in 0 .. last : c # last => new[c] = old[c]
  BY <1>1, <1>3, <1>4 DEF Standing
<1>9. PICK place \in [Held(old) -> 1 .. n] : Placing(old, calls, place)
  BY <1>1, <1>5 DEF Placed
<1>10. ASSUME NEW x \in Held(new)
       PROVE  \/ x \in Held(old) /\ x[1] < last /\ new[x[1]][x[2]] = old[x[1]][x[2]]
              \/ x[1] = last /\ new[x[1]][x[2]] = End(e)
  <2>1. /\ x = <<x[1], x[2]>> /\ x[1] \in 0 .. last /\ x[2] \in DOMAIN new[x[1]]
        /\ IsEnd(new[x[1]][x[2]])
    BY <1>7, HeldAre
  <2>2. PICK c, i : c = x[1] /\ i = x[2]
    OBVIOUS
  <2>3. CASE c = last
    BY <1>2, <1>7, <2>1, <2>2, <2>3, FrameWords
  <2>4. CASE c # last
    <3>1. <<c, i>> \in Held(old)
      BY <1>7, <1>8, <2>1, <2>2, <2>4, HeldAre
    <3>2. c < last
      BY <2>1, <2>2, <2>4
    <3> QED
      BY <1>8, <2>1, <2>2, <2>4, <3>1, <3>2
  <2> QED
    BY <2>3, <2>4
<1>11. ASSUME NEW x \in Held(new), NEW y \in Held(new), Before(x, y)
       PROVE  x[1] < last
  <2>1. PICK c, i : /\ x = <<c, i>> /\ c \in 0 .. last
                    /\ i \in DOMAIN new[c] /\ IsEnd(new[c][i])
    BY <1>7, HeldAre
  <2>2. PICK d, j : /\ y = <<d, j>> /\ d \in 0 .. last
                    /\ j \in DOMAIN new[d] /\ IsEnd(new[d][j])
    BY <1>7, HeldAre
  <2>3. SUFFICES ASSUME c = last PROVE FALSE
    BY <2>1
  <2>4. d = last /\ i < j
    BY <1>11, <2>1, <2>2, <2>3 DEF Before
  <2>5. i = j
    BY <1>2, <1>7, <2>1, <2>2, <2>3, <2>4, FrameWords
  <2>6. i \in 1 .. Len(frame)
    BY <1>7, <2>1, <2>3
  <2> QED
    BY <2>4, <2>5, <2>6
<1> DEFINE more == [x \in Held(new) |-> IF x[1] = last THEN n + 1 ELSE place[x]]
<1>12. PICK all \in Seq(Envelopes) : all = Append(calls, e)
  <2>1. Append(calls, e) \in Seq(Envelopes)
    OBVIOUS
  <2> QED
    BY <2>1
<1>13. Len(all) = n + 1 /\ all[n + 1] = e /\ \A k \in 1 .. n : all[k] = calls[k]
  BY <1>5, <1>12
<1>14. ASSUME NEW x \in Held(new)
       PROVE  /\ x[1] = last => more[x] = n + 1
              /\ x[1] < last => x \in Held(old) /\ more[x] = place[x] /\ place[x] \in 1 .. n
              /\ x[1] = last \/ x[1] < last
  <2>1. x[1] = last \/ (x[1] # last /\ x \in Held(old) /\ x[1] < last)
    BY <1>10
  <2>2. x[1] < last => x[1] # last
    <3>1. x[1] \in 0 .. last
      BY <1>7, HeldAre
    <3> QED
      BY <3>1
  <2> QED
    BY <1>9, <2>1, <2>2
<1>15. more \in [Held(new) -> 1 .. n + 1]
  <2>1. \A x \in Held(new) : more[x] \in 1 .. n + 1
    BY <1>14
  <2> QED
    BY <2>1
<1> HIDE DEF more
<1>16. \A x \in Held(new) : new[x[1]][x[2]] = End(all[more[x]])
  <2> SUFFICES ASSUME NEW x \in Held(new) PROVE new[x[1]][x[2]] = End(all[more[x]])
    OBVIOUS
  <2>1. CASE x[1] = last
    <3>1. new[x[1]][x[2]] = End(e)
      BY <1>10, <1>4, <2>1
    <3> QED
      BY <1>13, <1>14, <2>1, <3>1
  <2>2. CASE x[1] < last /\ x \in Held(old)
    <3>1. new[x[1]][x[2]] = old[x[1]][x[2]]
      <4>1. x[1] # last
        <5>1. x[1] \in 0 .. last
          BY <1>7, HeldAre
        <5> QED
          BY <2>2, <5>1
      <4> QED
        BY <1>10, <4>1
    <3>2. old[x[1]][x[2]] = End(calls[place[x]])
      BY <1>9, <2>2 DEF Placing
    <3>3. place[x] \in 1 .. n /\ more[x] = place[x]
      BY <1>14, <2>2
    <3>4. calls[place[x]] = all[more[x]]
      BY <1>13, <3>3
    <3> QED
      BY <3>1, <3>2, <3>4
  <2> QED
    BY <1>14, <2>1, <2>2
<1>17. \A x, y \in Held(new) : Before(x, y) => more[x] < more[y]
  <2> SUFFICES ASSUME NEW x \in Held(new), NEW y \in Held(new), Before(x, y)
               PROVE  more[x] < more[y]
    OBVIOUS
  <2>1. x[1] < last
    BY <1>11
  <2>2. x \in Held(old) /\ more[x] = place[x] /\ place[x] \in 1 .. n
    BY <1>14, <2>1
  <2>3. CASE y[1] = last
    BY <1>14, <2>2, <2>3
  <2>4. CASE y[1] < last
    <3>1. y \in Held(old) /\ more[y] = place[y]
      BY <1>14, <2>4
    <3> QED
      BY <1>9, <2>2, <3>1 DEF Placing
  <2> QED
    BY <1>14, <2>3, <2>4
<1>18. Placed(new, all)
  BY <1>13, <1>15, <1>16, <1>17 DEF Placed, Placing
<1> QED
  BY <1>2, <1>3, <1>12, <1>18

(* Where the i-th word of line c stood before the first word of what was   *)
(* being written became the last of line n, which had len words.           *)
Unwritten(n, len, c, i) ==
    IF c = n + 1 THEN <<n + 1, i + 1>>
    ELSE IF c = n /\ i = len + 1 THEN <<n + 1, 1>>
    ELSE <<c, i>>

(* A word written is the last on its connection.                           *)
LEMMA Written ==
  ASSUME NEW a \in Seq(Envelopes), NEW calls,
         NEW w \in Seq(Wire), NEW v \in Seq(Wire), Len(v) = Len(w), Len(w) > 0,
         NEW wr \in Seq(Words), wr # <<>>,
         \A c \in 1 .. Len(w) : c # Len(w) => v[c].words = w[c].words,
         v[Len(w)].words = Append(w[Len(w)].words, Head(wr)),
         Placed(Standing(a, w, wr), calls)
  PROVE  Placed(Standing(a, v, IF Tail(wr) = <<>> THEN NoCall ELSE Tail(wr)), calls)
<1>1. PICK old : old = Standing(a, w, wr)
  OBVIOUS
<1>2. PICK vr \in Writing : vr = IF Tail(wr) = <<>> THEN NoCall ELSE Tail(wr)
  BY HeadTailProperties DEF Writing
<1>3. PICK new : new = Standing(a, v, vr)
  OBVIOUS
<1>4. PICK n \in Nat : n = Len(w) /\ n > 0
  OBVIOUS
<1>5. PICK before \in Seq(Words) : before = w[n].words
  <2>1. w[n] \in Wire
    BY <1>4
  <2> QED
    BY <2>1 DEF Wire
<1>6. PICK len \in Nat : len = Len(before)
  OBVIOUS
<1>7. wr \in Writing
  BY DEF Writing
<1>8. /\ DOMAIN old = 0 .. n + 1 /\ DOMAIN new = 0 .. n + 1
      /\ old[n + 1] = wr /\ new[n + 1] = vr
      /\ old[n] = before /\ new[n] = Append(before, Head(wr))
      /\ \A c \in 1 .. n : c # n => new[c] = old[c]
  BY <1>1, <1>3, <1>4, <1>5, <1>7, LinesAre
<1>9. new[0] = old[0]
  BY <1>1, <1>3, <1>4 DEF Standing
<1>10. /\ Head(wr) = wr[1] /\ 1 \in DOMAIN wr
       /\ \A i \in DOMAIN vr : IsEnd(vr[i]) => i \in Nat /\ i > 0 /\ i + 1 \in DOMAIN wr /\ vr[i] = wr[i + 1]
  <2>1. Head(wr) = wr[1] /\ 1 \in DOMAIN wr
    OBVIOUS
  <2>2. CASE vr = NoCall
    BY <2>1, <2>2, NoCallApart
  <2>3. CASE vr = Tail(wr)
    <3>1. Tail(wr) \in Seq(Words) /\ Len(Tail(wr)) = Len(wr) - 1
          /\ \A i \in 1 .. Len(Tail(wr)) : Tail(wr)[i] = wr[i + 1]
      BY HeadTailProperties
    <3>2. DOMAIN Tail(wr) = 1 .. Len(wr) - 1 /\ DOMAIN wr = 1 .. Len(wr) /\ Len(wr) \in Nat
      BY <3>1
    <3> QED
      BY <2>1, <2>3, <3>1, <3>2
  <2> QED
    BY <1>2, <2>2, <2>3
<1>11. PICK longer \in Seq(Words) : longer = new[n]
  <2>1. Head(wr) \in Words
    BY HeadTailProperties
  <2>2. Append(before, Head(wr)) \in Seq(Words)
    BY <2>1
  <2> QED
    BY <1>8, <2>2
<1>12. /\ DOMAIN longer = 1 .. len + 1 /\ longer[len + 1] = wr[1]
       /\ DOMAIN before = 1 .. len
       /\ \A i \in 1 .. len : longer[i] = before[i]
  <2>1. Head(wr) \in Words
    BY HeadTailProperties
  <2>2. /\ Len(longer) = len + 1 /\ longer[len + 1] = Head(wr)
        /\ \A i \in 1 .. len : longer[i] = before[i]
    BY <1>6, <1>8, <1>11, <2>1
  <2> QED
    BY <1>6, <1>10, <2>2
<1>13. ASSUME NEW c \in 0 .. n + 1, NEW i \in DOMAIN new[c], IsEnd(new[c][i])
       PROVE  /\ c = n + 1 => i \in Nat /\ i > 0 /\ i + 1 \in DOMAIN wr /\ new[c][i] = wr[i + 1]
              /\ c = n /\ i = len + 1 => new[c][i] = wr[1]
              /\ c = n /\ i # len + 1 => i \in DOMAIN before /\ i <= len /\ new[c][i] = before[i]
              /\ c < n => i \in DOMAIN old[c] /\ new[c][i] = old[c][i]
  <2>1. c = n + 1 => i \in Nat /\ i > 0 /\ i + 1 \in DOMAIN wr /\ new[c][i] = wr[i + 1]
    BY <1>8, <1>10, <1>13
  <2>2. c = n => i \in 1 .. len + 1 /\ new[c][i] = longer[i]
    BY <1>11, <1>12, <1>13
  <2>3. c < n => new[c] = old[c]
    BY <1>8, <1>9, <1>13
  <2> QED
    BY <1>12, <2>1, <2>2, <2>3
<1>14. ASSUME NEW c \in 0 .. n + 1, NEW i \in DOMAIN new[c], IsEnd(new[c][i])
       PROVE  /\ Unwritten(n, len, c, i) \in Held(old)
              /\ new[c][i] = old[Unwritten(n, len, c, i)[1]][Unwritten(n, len, c, i)[2]]
  <2>1. CASE c = n + 1
    <3>1. i + 1 \in DOMAIN old[n + 1] /\ new[c][i] = old[n + 1][i + 1] /\ n + 1 \in DOMAIN old
      BY <1>8, <1>13, <1>14, <2>1
    <3>2. <<n + 1, i + 1>> \in Held(old)
      BY <1>14, <3>1, HeldAre
    <3> QED
      BY <2>1, <3>1, <3>2 DEF Unwritten
  <2>2. CASE c = n /\ i = len + 1
    <3>1. 1 \in DOMAIN old[n + 1] /\ new[c][i] = old[n + 1][1] /\ n + 1 \in DOMAIN old
      BY <1>8, <1>10, <1>13, <1>14, <2>2
    <3>2. <<n + 1, 1>> \in Held(old)
      BY <1>14, <3>1, HeldAre
    <3> QED
      BY <2>2, <3>1, <3>2 DEF Unwritten
  <2>3. CASE c # n + 1 /\ ~(c = n /\ i = len + 1)
    <3>1. c \in DOMAIN old /\ i \in DOMAIN old[c] /\ new[c][i] = old[c][i]
      BY <1>8, <1>13, <1>14, <2>3
    <3>2. <<c, i>> \in Held(old)
      BY <1>14, <3>1, HeldAre
    <3> QED
      BY <2>3, <3>1, <3>2 DEF Unwritten
  <2> QED
    BY <2>1, <2>2, <2>3
<1>15. ASSUME NEW c \in 0 .. n + 1, NEW i \in DOMAIN new[c], IsEnd(new[c][i]),
              NEW d \in 0 .. n + 1, NEW j \in DOMAIN new[d], IsEnd(new[d][j]),
              c < d \/ (c = d /\ i < j)
       PROVE  Before(Unwritten(n, len, c, i), Unwritten(n, len, d, j))
  <2>1. CASE d = n + 1 /\ c = n + 1
    <3>1. i \in Nat /\ j \in Nat /\ i < j
      BY <1>13, <1>15, <2>1
    <3> QED
      BY <2>1, <3>1 DEF Unwritten, Before
  <2>2. CASE d = n + 1 /\ c = n /\ i = len + 1
    <3>1. j \in Nat /\ j > 0
      BY <1>13, <1>15, <2>2
    <3> QED
      BY <2>2, <3>1 DEF Unwritten, Before
  <2>3. CASE c # n + 1 /\ ~(c = n /\ i = len + 1)
    <3>1. Unwritten(n, len, c, i) = <<c, i>> /\ c <= n
      BY <2>3 DEF Unwritten, Before
    <3>2. CASE d = n + 1 \/ (d = n /\ j = len + 1)
      BY <3>1, <3>2 DEF Unwritten, Before
    <3>3. CASE ~(d = n + 1 \/ (d = n /\ j = len + 1))
      BY <1>15, <3>1, <3>3 DEF Unwritten, Before
    <3> QED
      BY <3>2, <3>3
  <2>4. CASE c = n /\ i = len + 1 /\ d = n
    <3>1. j \in 1 .. len + 1 /\ i < j
      BY <1>11, <1>12, <1>15, <2>4
    <3> QED
      BY <2>4, <3>1 DEF Unwritten, Before
  <2> QED
    BY <1>15, <2>1, <2>2, <2>3, <2>4
<1> DEFINE from == [x \in Held(new) |-> Unwritten(n, len, x[1], x[2])]
<1>16. ASSUME NEW x \in Held(new)
       PROVE  /\ from[x] = Unwritten(n, len, x[1], x[2])
              /\ x[1] \in 0 .. n + 1 /\ x[2] \in DOMAIN new[x[1]] /\ IsEnd(new[x[1]][x[2]])
  BY <1>8, HeldAre
<1>17. from \in [Held(new) -> Held(old)]
  BY <1>14, <1>16
<1> HIDE DEF from
<1>18. \A x \in Held(new) : new[x[1]][x[2]] = old[from[x][1]][from[x][2]]
  BY <1>14, <1>16
<1>19. \A x, y \in Held(new) : Before(x, y) => Before(from[x], from[y])
  <2> SUFFICES ASSUME NEW x \in Held(new), NEW y \in Held(new), Before(x, y)
               PROVE  Before(from[x], from[y])
    OBVIOUS
  <2>1. PICK c \in 0 .. n + 1 : \E i \in DOMAIN new[c] : c = x[1] /\ i = x[2] /\ IsEnd(new[c][i])
    BY <1>16
  <2>2. PICK i \in DOMAIN new[c] : c = x[1] /\ i = x[2] /\ IsEnd(new[c][i])
    BY <2>1
  <2>3. PICK d \in 0 .. n + 1 : \E j \in DOMAIN new[d] : d = y[1] /\ j = y[2] /\ IsEnd(new[d][j])
    BY <1>16
  <2>4. PICK j \in DOMAIN new[d] : d = y[1] /\ j = y[2] /\ IsEnd(new[d][j])
    BY <2>3
  <2>5. c < d \/ (c = d /\ i < j)
    BY <2>2, <2>4 DEF Before
  <2>6. Before(Unwritten(n, len, c, i), Unwritten(n, len, d, j))
    BY <1>15, <2>1, <2>2, <2>3, <2>4, <2>5
  <2>7. from[x] = Unwritten(n, len, c, i) /\ from[y] = Unwritten(n, len, d, j)
    BY <1>16, <2>2, <2>4
  <2> QED
    BY <2>6, <2>7
<1>20. Placed(new, calls)
  <2>1. Placed(old, calls)
    BY <1>1
  <2> QED
    BY <1>17, <1>18, <1>19, <2>1, Carried
<1> QED
  BY <1>2, <1>3, <1>20

LEMMA LinesNamed ==
  ASSUME NEW a \in Seq(Envelopes), NEW w \in Seq(Wire), NEW wr \in Writing,
         NEW lines, lines = Standing(a, w, wr)
  PROVE  /\ DOMAIN lines = 0 .. Len(w) + 1 /\ lines[Len(w) + 1] = wr
         /\ \A c \in 1 .. Len(w) : lines[c] = w[c].words
         /\ DOMAIN lines[0] = 1 .. Len(a) /\ \A i \in 1 .. Len(a) : lines[0][i] = End(a[i])
BY LinesAre

LEMMA Between ==
  ASSUME NEW n \in Nat, NEW c \in 0 .. n + 1
  PROVE  c = 0 \/ c = n + 1 \/ c \in 1 .. n
OBVIOUS

(* Where the i-th word of line c stood before the first word of line s was *)
(* read; the envelope it may have completed is the answer after len        *)
(* others.                                                                 *)
Unread(s, len, c, i) ==
    IF c = s THEN <<s, i + 1>>
    ELSE IF c = 0 /\ i = len + 1 THEN <<s, 1>>
    ELSE <<c, i>>

(* A word read is the first of the oldest connection that has any, and the *)
(* envelope answered is the one it ends.                                   *)
LEMMA WordTaken ==
  ASSUME NEW a \in Seq(Envelopes), NEW b \in Seq(Envelopes), NEW calls,
         NEW w \in Seq(Wire), NEW v \in Seq(Wire), Len(v) = Len(w),
         NEW s \in 1 .. Len(w), w[s].words # <<>>,
         v[s].words = Tail(w[s].words),
         \A c \in 1 .. Len(w) : c # s => v[c].words = w[c].words,
         \A c \in 1 .. Len(w) : c < s => w[c].words = <<>>,
         b = a \/ \E e \in Envelopes : b = Append(a, e) /\ Head(w[s].words) = End(e),
         NEW wr \in Writing,
         Placed(Standing(a, w, wr), calls)
  PROVE  Placed(Standing(b, v, wr), calls)
<1>1. PICK old : old = Standing(a, w, wr)
  OBVIOUS
<1>2. PICK new : new = Standing(b, v, wr)
  OBVIOUS
<1>3. PICK n \in Nat : n = Len(w) /\ s \in 1 .. n
  OBVIOUS
<1>4. PICK len \in Nat : len = Len(a)
  OBVIOUS
<1>5. PICK before \in Seq(Words) : before = w[s].words
  <2>1. w[s] \in Wire
    BY <1>3
  <2> QED
    BY <2>1 DEF Wire
<1>6. /\ DOMAIN old = 0 .. n + 1 /\ DOMAIN new = 0 .. n + 1
      /\ old[n + 1] = wr /\ new[n + 1] = wr
      /\ old[s] = before /\ new[s] = Tail(before)
      /\ \A c \in 1 .. n : c # s => new[c] = old[c]
      /\ \A c \in 1 .. n : c < s => new[c] = <<>>
      /\ DOMAIN old[0] = 1 .. len /\ DOMAIN new[0] = 1 .. Len(b)
      /\ \A i \in 1 .. len : old[0][i] = End(a[i])
      /\ \A i \in 1 .. Len(b) : new[0][i] = End(b[i])
  <2>1. /\ DOMAIN old = 0 .. n + 1 /\ old[n + 1] = wr
        /\ \A c \in 1 .. n : old[c] = w[c].words
        /\ DOMAIN old[0] = 1 .. len /\ \A i \in 1 .. len : old[0][i] = End(a[i])
    BY <1>1, <1>3, <1>4, LinesAre
  <2>2. /\ DOMAIN new = 0 .. n + 1 /\ new[n + 1] = wr
        /\ \A c \in 1 .. n : new[c] = v[c].words
        /\ DOMAIN new[0] = 1 .. Len(b) /\ \A i \in 1 .. Len(b) : new[0][i] = End(b[i])
    <3>1. Len(v) = n
      BY <1>3
    <3>2. /\ DOMAIN new = 0 .. Len(v) + 1 /\ new[Len(v) + 1] = wr
          /\ \A c \in 1 .. Len(v) : new[c] = v[c].words
          /\ DOMAIN new[0] = 1 .. Len(b) /\ \A i \in 1 .. Len(b) : new[0][i] = End(b[i])
      BY <1>2, LinesNamed
    <3> QED
      BY <3>1, <3>2
  <2>3. \A c \in 1 .. n : c < s => w[c].words = <<>> /\ c # s
    BY <1>3
  <2> QED
    BY <1>3, <1>5, <2>1, <2>2, <2>3
<1>7. /\ 1 \in DOMAIN before /\ Head(before) = before[1]
      /\ \A i \in DOMAIN Tail(before) :
            i \in Nat /\ i > 0 /\ i + 1 \in DOMAIN before /\ Tail(before)[i] = before[i + 1]
  <2>1. before # <<>>
    BY <1>5
  <2>2. Tail(before) \in Seq(Words) /\ Len(Tail(before)) = Len(before) - 1
        /\ \A i \in 1 .. Len(Tail(before)) : Tail(before)[i] = before[i + 1]
    BY <2>1, HeadTailProperties
  <2>3. DOMAIN Tail(before) = 1 .. Len(before) - 1 /\ DOMAIN before = 1 .. Len(before)
        /\ Len(before) \in Nat /\ Len(before) > 0
    BY <2>1, <2>2
  <2> QED
    BY <2>1, <2>2, <2>3
<1>8. ASSUME NEW i \in DOMAIN new[0]
      PROVE  /\ i \in Nat /\ i <= len + 1
             /\ i # len + 1 => i \in DOMAIN old[0] /\ new[0][i] = old[0][i]
             /\ i = len + 1 => new[0][i] = before[1]
  <2>1. i \in 1 .. Len(b) /\ new[0][i] = End(b[i])
    BY <1>6
  <2>2. CASE b = a
    BY <1>4, <1>6, <2>1, <2>2
  <2>3. CASE b # a
    <3>1. PICK e \in Envelopes : b = Append(a, e) /\ Head(w[s].words) = End(e)
      BY <2>3
    <3>2. Len(b) = len + 1 /\ b[len + 1] = e /\ \A k \in 1 .. len : b[k] = a[k]
      BY <1>4, <3>1
    <3> QED
      BY <1>4, <1>5, <1>6, <1>7, <2>1, <3>1, <3>2
  <2> QED
    BY <2>2, <2>3
<1>9. ASSUME NEW c \in 0 .. n + 1, NEW i \in DOMAIN new[c]
      PROVE  /\ c # 0 => c >= s
             /\ c = 0 => i \in Nat /\ i <= len + 1
             /\ c = s => i \in Nat /\ i > 0 /\ i + 1 \in DOMAIN old[s] /\ new[c][i] = old[s][i + 1]
             /\ c = 0 /\ i = len + 1 => 1 \in DOMAIN old[s] /\ new[c][i] = old[s][1]
             /\ c # s /\ ~(c = 0 /\ i = len + 1) => i \in DOMAIN old[c] /\ new[c][i] = old[c][i]
  <2>1. c # 0 => c >= s
    <3> SUFFICES ASSUME c # 0, c < s PROVE FALSE
      BY <1>3
    <3>1. new[c] = <<>>
      BY <1>3, <1>6
    <3> QED
      BY <1>9, <3>1
  <2>2. c = s => i \in Nat /\ i > 0 /\ i + 1 \in DOMAIN old[s] /\ new[c][i] = old[s][i + 1]
    BY <1>6, <1>7, <1>9
  <2>3. c = 0 => /\ i \in Nat /\ i <= len + 1
                 /\ i = len + 1 => 1 \in DOMAIN old[s] /\ new[c][i] = old[s][1]
                 /\ i # len + 1 => i \in DOMAIN old[c] /\ new[c][i] = old[c][i]
    BY <1>6, <1>7, <1>8, <1>9
  <2>4. c # s /\ c # 0 => new[c] = old[c]
    <3>1. c = 0 \/ c = n + 1 \/ c \in 1 .. n
      BY Between
    <3> QED
      BY <1>6, <3>1
  <2> QED
    BY <2>1, <2>2, <2>3, <2>4
<1>10. ASSUME NEW c \in 0 .. n + 1, NEW i \in DOMAIN new[c], IsEnd(new[c][i])
       PROVE  /\ Unread(s, len, c, i) \in Held(old)
              /\ new[c][i] = old[Unread(s, len, c, i)[1]][Unread(s, len, c, i)[2]]
  <2>1. s \in DOMAIN old /\ c \in DOMAIN old
    BY <1>3, <1>6
  <2>2. CASE c = s
    <3>1. <<s, i + 1>> \in Held(old) /\ new[c][i] = old[s][i + 1]
      BY <1>9, <1>10, <2>1, <2>2, HeldAre
    <3> QED
      BY <2>2, <3>1 DEF Unread
  <2>3. CASE c = 0 /\ i = len + 1
    <3>1. <<s, 1>> \in Held(old) /\ new[c][i] = old[s][1]
      BY <1>9, <1>10, <2>1, <2>3, HeldAre
    <3>2. Unread(s, len, c, i) = <<s, 1>>
      BY <1>3, <2>3 DEF Unread
    <3> QED
      BY <3>1, <3>2
  <2>4. CASE c # s /\ ~(c = 0 /\ i = len + 1)
    <3>1. <<c, i>> \in Held(old) /\ new[c][i] = old[c][i]
      BY <1>9, <1>10, <2>1, <2>4, HeldAre
    <3> QED
      BY <2>4, <3>1 DEF Unread
  <2> QED
    BY <2>2, <2>3, <2>4
<1>11. ASSUME NEW c \in 0 .. n + 1, NEW i \in DOMAIN new[c], IsEnd(new[c][i]),
              NEW d \in 0 .. n + 1, NEW j \in DOMAIN new[d], IsEnd(new[d][j]),
              c < d \/ (c = d /\ i < j)
       PROVE  Before(Unread(s, len, c, i), Unread(s, len, d, j))
  <2>1. CASE c = 0 /\ i = len + 1
    <3>1. Unread(s, len, c, i) = <<s, 1>>
      BY <1>3, <2>1 DEF Unread
    <3>2. d # 0 /\ d >= s
      BY <1>9, <1>11, <2>1
    <3>3. CASE d = s
      <4>1. j \in Nat /\ j > 0 /\ Unread(s, len, d, j) = <<s, j + 1>>
        BY <1>9, <1>11, <3>3 DEF Unread
      <4> QED
        BY <3>1, <4>1 DEF Before
    <3>4. CASE d # s
      <4>1. Unread(s, len, d, j) = <<d, j>> /\ d > s
        BY <1>3, <3>2, <3>4 DEF Unread
      <4> QED
        BY <3>1, <4>1 DEF Before
    <3> QED
      BY <3>3, <3>4
  <2>2. CASE c = s
    <3>1. Unread(s, len, c, i) = <<s, i + 1>> /\ i \in Nat /\ d # 0
      BY <1>3, <1>9, <1>11, <2>2 DEF Unread
    <3>2. CASE d = s
      <4>1. Unread(s, len, d, j) = <<s, j + 1>> /\ j \in Nat /\ i < j
        BY <1>3, <1>9, <1>11, <2>2, <3>2 DEF Unread
      <4> QED
        BY <3>1, <4>1 DEF Before
    <3>3. CASE d # s
      <4>1. Unread(s, len, d, j) = <<d, j>> /\ s < d
        BY <1>3, <1>11, <2>2, <3>1, <3>3 DEF Unread
      <4> QED
        BY <3>1, <4>1 DEF Before
    <3> QED
      BY <3>2, <3>3
  <2>3. CASE c # s /\ ~(c = 0 /\ i = len + 1)
    <3>1. Unread(s, len, c, i) = <<c, i>>
      BY <2>3 DEF Unread
    <3>2. CASE d = s \/ (d = 0 /\ j = len + 1)
      <4>1. Unread(s, len, d, j)[1] = s
        BY <3>2 DEF Unread
      <4>2. c < s
        BY <1>3, <1>11, <2>3, <3>2
      <4> QED
        BY <3>1, <4>1, <4>2 DEF Before
    <3>3. CASE ~(d = s \/ (d = 0 /\ j = len + 1))
      <4>1. Unread(s, len, d, j) = <<d, j>>
        BY <3>3 DEF Unread
      <4> QED
        BY <1>11, <3>1, <4>1 DEF Before
    <3> QED
      BY <3>2, <3>3
  <2> QED
    BY <2>1, <2>2, <2>3
<1> DEFINE from == [x \in Held(new) |-> Unread(s, len, x[1], x[2])]
<1>12. ASSUME NEW x \in Held(new)
       PROVE  /\ from[x] = Unread(s, len, x[1], x[2])
              /\ x[1] \in 0 .. n + 1 /\ x[2] \in DOMAIN new[x[1]] /\ IsEnd(new[x[1]][x[2]])
  BY <1>6, HeldAre
<1>13. from \in [Held(new) -> Held(old)]
  BY <1>10, <1>12
<1> HIDE DEF from
<1>14. \A x \in Held(new) : new[x[1]][x[2]] = old[from[x][1]][from[x][2]]
  BY <1>10, <1>12
<1>15. \A x, y \in Held(new) : Before(x, y) => Before(from[x], from[y])
  <2> SUFFICES ASSUME NEW x \in Held(new), NEW y \in Held(new), Before(x, y)
               PROVE  Before(from[x], from[y])
    OBVIOUS
  <2>1. PICK c \in 0 .. n + 1 : \E i \in DOMAIN new[c] : c = x[1] /\ i = x[2] /\ IsEnd(new[c][i])
    BY <1>12
  <2>2. PICK i \in DOMAIN new[c] : c = x[1] /\ i = x[2] /\ IsEnd(new[c][i])
    BY <2>1
  <2>3. PICK d \in 0 .. n + 1 : \E j \in DOMAIN new[d] : d = y[1] /\ j = y[2] /\ IsEnd(new[d][j])
    BY <1>12
  <2>4. PICK j \in DOMAIN new[d] : d = y[1] /\ j = y[2] /\ IsEnd(new[d][j])
    BY <2>3
  <2>5. c < d \/ (c = d /\ i < j)
    BY <2>2, <2>4 DEF Before
  <2>6. Before(Unread(s, len, c, i), Unread(s, len, d, j))
    BY <1>11, <2>1, <2>2, <2>3, <2>4, <2>5
  <2>7. from[x] = Unread(s, len, c, i) /\ from[y] = Unread(s, len, d, j)
    BY <1>12, <2>2, <2>4
  <2> QED
    BY <2>6, <2>7
<1>16. Placed(new, calls)
  <2>1. Placed(old, calls)
    BY <1>1
  <2> QED
    BY <1>13, <1>14, <1>15, <2>1, Carried
<1> QED
  BY <1>2, <1>16

----------------------------------------------------------------------------
(* What the steps do to the connections                                     *)

LEMMA WiresSet ==
  ASSUME wires \in Seq(Wire), NEW c \in 1 .. Len(wires), NEW words \in Seq(Words),
         wires' = [wires EXCEPT ![c].words = words]
  PROVE  /\ wires' \in Seq(Wire) /\ Len(wires') = Len(wires)
         /\ wires'[c].words = words /\ wires'[c].reset = wires[c].reset
         /\ \A d \in 1 .. Len(wires) : d # c => wires'[d] = wires[d]
<1>1. wires[c] \in Wire
  OBVIOUS
<1>2. PICK x \in Wire : x = [wires[c] EXCEPT !.words = words]
  BY <1>1 DEF Wire
<1>3. x.words = words /\ x.reset = wires[c].reset
  BY <1>1, <1>2 DEF Wire
<1>4. wires' = [wires EXCEPT ![c] = x]
  BY <1>2
<1>5. /\ wires' \in Seq(Wire) /\ Len(wires') = Len(wires)
      /\ \A d \in 1 .. Len(wires) : wires'[d] = IF d = c THEN x ELSE wires[d]
  BY <1>2, <1>4, ExceptSeq
<1> QED
  BY <1>3, <1>5

LEMMA ConnectionClosed ==
  ASSUME wires \in Seq(Wire), NEW c \in 0 .. Len(wires), NEW v, v = Closed(c)
  PROVE  /\ v \in Seq(Wire) /\ Len(v) = Len(wires)
         /\ \A d \in 1 .. Len(wires) : v[d].words = wires[d].words /\ v[d].reset = wires[d].reset
<1>1. CASE c = None
  BY <1>1 DEF Closed
<1>2. CASE c # None
  <2>1. c \in 1 .. Len(wires)
    BY <1>2 DEF None
  <2>2. wires[c] \in Wire
    BY <2>1
  <2>3. PICK x \in Wire : x = [wires[c] EXCEPT !.open = FALSE]
    BY <2>2 DEF Wire
  <2>4. x.words = wires[c].words /\ x.reset = wires[c].reset
    BY <2>2, <2>3 DEF Wire
  <2>5. v = [wires EXCEPT ![c] = x]
    BY <1>2, <2>3 DEF Closed
  <2>6. /\ v \in Seq(Wire) /\ Len(v) = Len(wires)
        /\ \A d \in 1 .. Len(wires) : v[d] = IF d = c THEN x ELSE wires[d]
    BY <2>1, <2>5, ExceptSeq
  <2> QED
    BY <2>4, <2>6
<1> QED
  BY <1>1, <1>2

LEMMA AllReset ==
  ASSUME wires \in Seq(Wire), backlog \in Seq(Nat), Resets,
         \A c \in 1 .. Len(wires) : IF wires[c].reset THEN wires[c].words = <<>> ELSE Readable(c)
  PROVE  /\ wires' \in Seq(Wire) /\ Len(wires') = Len(wires)
         /\ \A c \in 1 .. Len(wires) : wires'[c].reset /\ wires'[c].words = <<>>
<1>1. DOMAIN wires = 1 .. Len(wires) /\ Len(wires) \in Nat
  OBVIOUS
<1>2. ASSUME NEW c \in 1 .. Len(wires)
      PROVE  wires'[c] \in Wire /\ wires'[c].reset /\ wires'[c].words = <<>>
  <2>1. wires[c] \in Wire /\ <<>> \in Seq(Words)
    OBVIOUS
  <2>2. Readable(c) <=> c = server.stream \/ Contains(backlog, c)
    <3>1. DOMAIN backlog = 1 .. Len(backlog)
      OBVIOUS
    <3> QED
      BY <3>1 DEF Readable, Contains
  <2>3. CASE Readable(c)
    <3>1. wires'[c] = [wires[c] EXCEPT !.words = <<>>, !.reset = TRUE]
      BY <1>1, <2>2, <2>3 DEF Resets
    <3> QED
      BY <2>1, <3>1 DEF Wire
  <2>4. CASE ~Readable(c)
    <3>1. wires'[c] = wires[c]
      BY <1>1, <2>2, <2>4 DEF Resets
    <3> QED
      BY <2>1, <2>4, <3>1 DEF Wire
  <2> QED
    BY <2>3, <2>4
<1>3. wires' = [c \in 1 .. Len(wires) |-> wires'[c]]
  BY <1>1 DEF Resets
<1>4. wires' \in Seq(Wire) /\ Len(wires') = Len(wires)
  <2>1. \A c \in 1 .. Len(wires) : wires'[c] \in Wire
    BY <1>2
  <2> QED
    BY <1>1, <1>3, <2>1
<1> QED
  BY <1>2, <1>4

----------------------------------------------------------------------------
(* The invariant                                                            *)

LEMMA InitialNetwork == TransportInit => NetworkInv
<1> SUFFICES ASSUME TransportInit PROVE NetworkInv
  OBVIOUS
<1> USE DEF TransportInit, NewTransport, NewListener
<1>1. NetworkTypes
  BY DEF NetworkTypes, None
<1>2. StreamsOK
  BY DEF StreamsOK, None
<1>3. OwnAnswers
  BY DEF OwnAnswers
<1>4. Placed(Lines, handed)
  <2>1. ASSUME NEW x \in Held(Lines) PROVE FALSE
    <3>1. Lines = [c \in 0 .. 1 |-> IF c = 0 THEN [i \in 1 .. 0 |-> End(accepted[i])] ELSE NoCall]
      BY DEF Lines, Standing
    <3>2. DOMAIN Lines = 0 .. 1 /\ DOMAIN Lines[0] = 1 .. 0 /\ Lines[1] = NoCall
      BY <3>1
    <3>3. x[1] \in 0 .. 1 /\ x[2] \in DOMAIN Lines[x[1]] /\ IsEnd(Lines[x[1]][x[2]])
      BY <3>2, HeldAre
    <3>4. x[1] = 0 \/ x[1] = 1
      BY <3>3
    <3> QED
      BY <3>2, <3>3, <3>4, NoCallApart
  <2>2. Placing(Lines, handed, [x \in Held(Lines) |-> 0])
    BY <2>1 DEF Placing
  <2>3. [x \in Held(Lines) |-> 0] \in [Held(Lines) -> 1 .. Len(handed)]
    BY <2>1
  <2> QED
    BY <2>2, <2>3 DEF Placed
<1> QED
  BY <1>1, <1>2, <1>3, <1>4 DEF NetworkInv

(* A word is read from a connection there is, into what was read before.   *)
LEMMA ReadOf ==
  ASSUME NetworkTypes, StreamsOK, ReadWord
  PROVE  /\ server.stream \in 1 .. Len(wires)
         /\ wires[server.stream].words \in Seq(Words)
         /\ wires[server.stream].words # <<>>
         /\ Tail(wires[server.stream].words) \in Seq(Words)
         /\ Head(wires[server.stream].words) \in Words
         /\ server.reading \in Seq(Words)
         /\ Append(server.reading, Head(wires[server.stream].words)) \in Seq(Words)
         /\ wires' = [wires EXCEPT ![server.stream].words = Tail(wires[server.stream].words)]
<1>1. server.reading # NoCall /\ wires[server.stream].words # <<>>
  BY DEF ReadWord
<1>2. server.stream \in Nat /\ server.reading \in Seq(Words) /\ Len(wires) \in Nat
  BY <1>1 DEF NetworkTypes
<1>3. server.stream \in 1 .. Len(wires)
  BY <1>1, <1>2 DEF StreamsOK, None
<1>4. wires[server.stream] \in Wire
  BY <1>3 DEF NetworkTypes
<1>5. PICK words \in Seq(Words) : words = wires[server.stream].words
  BY <1>4 DEF Wire
<1>6. Head(words) \in Words /\ Tail(words) \in Seq(Words)
  BY <1>1, <1>5, HeadTailProperties
<1>7. Append(server.reading, Head(words)) \in Seq(Words)
  BY <1>2, <1>6
<1>8. wires' = [wires EXCEPT ![server.stream].words = Tail(words)]
  BY <1>5 DEF ReadWord
<1> QED
  BY <1>1, <1>2, <1>3, <1>5, <1>6, <1>7, <1>8

LEMMA ResetNetwork ==
  ASSUME NetworkTypes, StreamsOK, Resets
  PROVE  /\ wires' \in Seq(Wire) /\ Len(wires') = Len(wires)
         /\ \A c \in 1 .. Len(wires) : wires'[c].reset /\ wires'[c].words = <<>>
         /\ backlog' = <<>> /\ backlog' \in Seq(Nat)
<1>1. wires \in Seq(Wire) /\ backlog \in Seq(Nat)
  BY DEF NetworkTypes
<1>2. \A c \in 1 .. Len(wires) : IF wires[c].reset THEN wires[c].words = <<>> ELSE Readable(c)
  BY DEF StreamsOK
<1>3. backlog' = <<>>
  BY Zenon DEF Resets
<1>4. <<>> \in Seq(Nat)
  OBVIOUS
<1> QED
  BY <1>1, <1>2, <1>3, <1>4, AllReset

LEMMA TypesKept == NetworkTypes /\ StreamsOK /\ [TransportNext]_network => NetworkTypes'
<1> SUFFICES ASSUME NetworkTypes, StreamsOK, [TransportNext]_network
             PROVE  NetworkTypes'
  OBVIOUS
<1>1. CASE UNCHANGED network
  BY <1>1 DEF NetworkTypes, network
<1>2. CASE ClientConnect
  <2>1. client.stream \in 0 .. Len(wires) /\ Len(wires) \in Nat
    BY DEF NetworkTypes, StreamsOK, None
  <2>2. PICK v \in Seq(Wire) : v = Closed(client.stream)
    BY <2>1, ConnectionClosed DEF NetworkTypes
  <2>3. [words |-> <<>>, open |-> TRUE, reset |-> FALSE] \in Wire
    BY DEF Wire
  <2>4. wires' \in Seq(Wire) /\ Len(wires') \in Nat
    BY <1>2, <2>2, <2>3 DEF ClientConnect
  <2>5. PICK n \in Nat : n = Len(wires')
    BY <2>4
  <2>6. client' = [client EXCEPT !.stream = n] /\ backlog' = Append(backlog, n)
    BY <1>2, <2>5 DEF ClientConnect
  <2>7. backlog' \in Seq(Nat)
    BY <2>6 DEF NetworkTypes
  <2> QED
    BY <1>2, <2>4, <2>6, <2>7 DEF ClientConnect, NetworkTypes
<1>3. CASE ClientAuthenticate
  BY <1>3 DEF ClientAuthenticate, NetworkTypes
<1>4. CASE ClientClose
  <2>1. client.stream \in 0 .. Len(wires)
    BY DEF NetworkTypes, StreamsOK, None
  <2>2. wires' \in Seq(Wire)
    BY <1>4, <2>1, ConnectionClosed DEF ClientClose, NetworkTypes
  <2> QED
    BY <1>4, <2>2 DEF ClientClose, NetworkTypes, None
<1>5. CASE ClientCrash
  <2>1. client.stream \in 0 .. Len(wires)
    BY DEF NetworkTypes, StreamsOK, None
  <2>2. wires' \in Seq(Wire)
    BY <1>5, <2>1, ConnectionClosed DEF ClientCrash, NetworkTypes
  <2> QED
    BY <1>5, <2>2 DEF ClientCrash, NewTransport, NetworkTypes, None
<1>6. ASSUME NEW e \in Envelopes, BeginSend(e)
      PROVE  NetworkTypes'
  <2>1. PICK frame \in Seq(Words) : frame = <<LengthWord>> \o Body(e)
    BY FrameWords
  <2>2. client' = [client EXCEPT !.writing = frame] /\ handed' = Append(handed, e)
    BY <1>6, <2>1 DEF BeginSend
  <2>3. handed' \in Seq(Envelopes)
    BY <2>2 DEF NetworkTypes
  <2>4. client' \in [stream : Nat, authenticated : BOOLEAN, writing : Seq(Words) \cup {NoCall}]
    BY <2>2 DEF NetworkTypes
  <2> QED
    BY <1>6, <2>3, <2>4 DEF BeginSend, NetworkTypes
<1>7. CASE WriteWord
  <2>1. client.writing # NoCall
    BY <1>7 DEF WriteWord
  <2>2. PICK wr \in Seq(Words) : wr = client.writing /\ wr # <<>>
    BY <2>1 DEF NetworkTypes, StreamsOK
  <2>3. PICK c \in 1 .. Len(wires) : c = client.stream
    BY <2>1 DEF NetworkTypes, StreamsOK, None
  <2>4. Tail(wr) \in Seq(Words) /\ Head(wr) \in Words
    BY <2>2, HeadTailProperties
  <2>5. wires[c] \in Wire
    BY DEF NetworkTypes
  <2>6. Append(wires[c].words, Head(wr)) \in Seq(Words)
    BY <2>4, <2>5 DEF Wire
  <2>7. wires' \in Seq(Wire)
    <3>1. CASE wires[c].reset
      BY <1>7, <2>3, <3>1 DEF WriteWord, NetworkTypes
    <3>2. CASE ~wires[c].reset
      <4>1. wires' = [wires EXCEPT ![c].words = Append(wires[c].words, Head(wr))]
        BY <1>7, <2>2, <2>3, <3>2 DEF WriteWord
      <4> QED
        BY <2>6, <4>1, WiresSet DEF NetworkTypes
    <3> QED
      BY <3>1, <3>2
  <2>8. PICK vr \in Seq(Words) \cup {NoCall} : client' = [client EXCEPT !.writing = vr]
    <3>1. client' = [client EXCEPT !.writing =
                        IF wires[c].reset \/ Tail(wr) = <<>> THEN NoCall ELSE Tail(wr)]
      BY <1>7, <2>2, <2>3 DEF WriteWord
    <3> QED
      BY <2>4, <3>1
  <2>9. client' \in [stream : Nat, authenticated : BOOLEAN, writing : Seq(Words) \cup {NoCall}]
    BY <2>8 DEF NetworkTypes
  <2> QED
    BY <1>7, <2>7, <2>9 DEF WriteWord, NetworkTypes
<1>8. CASE CancelSend
  BY <1>8 DEF CancelSend, NetworkTypes
<1>9. CASE Bind
  BY <1>9 DEF Bind, NetworkTypes
<1>10. CASE Accept
  <2>1. Head(backlog) \in Nat /\ Tail(backlog) \in Seq(Nat)
    BY <1>10, HeadTailProperties DEF Accept, NetworkTypes
  <2> QED
    BY <1>10, <2>1 DEF Accept, NetworkTypes
<1>11. CASE CancelAccept
  BY <1>11 DEF CancelAccept, NetworkTypes
<1>12. CASE ServerAuthenticate
  BY <1>12 DEF ServerAuthenticate, NetworkTypes
<1>13. CASE BeginReceive
  <2>1. <<>> \in Seq(Words)
    OBVIOUS
  <2>2. server' = [server EXCEPT !.reading = <<>>]
    BY <1>13 DEF BeginReceive
  <2>3. server' \in [stream : Nat, authenticated : BOOLEAN, listening : BOOLEAN,
                      accepting : BOOLEAN, reading : Seq(Words) \cup {NoCall}]
    BY <2>1, <2>2 DEF NetworkTypes
  <2> QED
    BY <1>13, <2>3 DEF BeginReceive, NetworkTypes
<1>14. CASE ReadWord
  <2>1. PICK s \in 1 .. Len(wires), rest \in Seq(Words) :
           s = server.stream /\ wires' = [wires EXCEPT ![s].words = rest]
    BY <1>14, ReadOf
  <2>2. wires' \in Seq(Wire)
    BY <2>1, WiresSet DEF NetworkTypes
  <2>3. PICK words \in Seq(Words) :
           words = Append(server.reading, Head(wires[server.stream].words))
    BY <1>14, ReadOf
  <2>4. PICK vr \in Seq(Words) \cup {NoCall} : server' = [server EXCEPT !.reading = vr]
    <3>1. server' = [server EXCEPT !.reading =
                        IF Head(words).kind # "length" \/ Len(words) = 1 + BodyWords
                        THEN NoCall ELSE words]
      BY <1>14, <2>3 DEF ReadWord
    <3> QED
      BY <3>1
  <2>5. server' \in [stream : Nat, authenticated : BOOLEAN, listening : BOOLEAN,
                      accepting : BOOLEAN, reading : Seq(Words) \cup {NoCall}]
    BY <2>4 DEF NetworkTypes
  <2>6. accepted' = accepted \/ \E e \in Envelopes : accepted' = Append(accepted, e)
    BY <1>14 DEF ReadWord, Decode
  <2>7. accepted' \in Seq(Envelopes)
    <3>1. CASE accepted' = accepted
      BY <3>1 DEF NetworkTypes
    <3>2. ASSUME NEW e \in Envelopes, accepted' = Append(accepted, e)
          PROVE  accepted' \in Seq(Envelopes)
      BY <3>2 DEF NetworkTypes
    <3> QED
      BY <2>6, <3>1, <3>2
  <2> QED
    BY <1>14, <2>2, <2>5, <2>7 DEF ReadWord, NetworkTypes
<1>15. CASE ReadEnd
  BY <1>15 DEF ReadEnd, NetworkTypes
<1>16. CASE CancelReceive
  BY <1>16 DEF CancelReceive, NetworkTypes
<1>17. CASE ServerClose
  <2>1. wires' \in Seq(Wire) /\ backlog' \in Seq(Nat)
    BY <1>17, ResetNetwork DEF ServerClose
  <2> QED
    BY <1>17, <2>1 DEF ServerClose, NetworkTypes, None
<1>18. CASE ServerCrash
  <2>1. wires' \in Seq(Wire) /\ backlog' \in Seq(Nat)
    BY <1>18, ResetNetwork DEF ServerCrash
  <2> QED
    BY <1>18, <2>1 DEF ServerCrash, NewListener, NetworkTypes, None
<1> QED
  BY <1>1, <1>2, <1>3, <1>4, <1>5, <1>6, <1>7, <1>8, <1>9, <1>10, <1>11, <1>12, <1>13,
     <1>14, <1>15, <1>16, <1>17, <1>18 DEF TransportNext

LEMMA StreamsKept == NetworkTypes /\ StreamsOK /\ [TransportNext]_network => StreamsOK'
<1> SUFFICES ASSUME NetworkTypes, StreamsOK, [TransportNext]_network
             PROVE  StreamsOK'
  OBVIOUS
<1> USE DEF None
<1>a. Len(wires) \in Nat /\ Len(backlog) \in Nat
  BY DEF NetworkTypes
<1>b. ASSUME UNCHANGED <<server, backlog>>,
             wires' \in Seq(Wire), Len(wires') = Len(wires),
             \A c \in 1 .. Len(wires) :
                /\ wires'[c].reset = wires[c].reset
                /\ wires[c].reset => wires'[c].words = wires[c].words,
             client'.stream \in {0, Len(wires)},
             client'.writing # NoCall => client'.stream # 0 /\ client'.writing # <<>>
      PROVE  StreamsOK'
  BY <1>a, <1>b DEF StreamsOK, Readable
<1>c. ASSUME UNCHANGED <<client, wires, backlog>>,
             server'.stream = server.stream,
             server'.reading # NoCall => server.stream # 0,
             server'.accepting => server.stream = 0,
             server'.stream # 0 \/ server'.accepting => server'.listening
      PROVE  StreamsOK'
  BY <1>a, <1>c DEF StreamsOK, Readable
<1>d. ASSUME Resets, server'.stream = 0, server'.reading = NoCall, ~server'.accepting,
             UNCHANGED client
      PROVE  StreamsOK'
  <2>1. /\ Len(wires') = Len(wires) /\ Len(backlog') = 0
        /\ \A c \in 1 .. Len(wires) : wires'[c].reset /\ wires'[c].words = <<>>
    BY <1>d, ResetNetwork
  <2> QED
    BY <1>a, <1>d, <2>1 DEF StreamsOK
<1>1. CASE UNCHANGED network
  BY <1>1 DEF StreamsOK, Readable, network
<1>2. CASE ClientConnect
  <2>1. client.stream \in 0 .. Len(wires)
    BY <1>a DEF StreamsOK
  <2>2. PICK v : v = Closed(client.stream)
    OBVIOUS
  <2>3. /\ v \in Seq(Wire) /\ Len(v) = Len(wires)
        /\ \A d \in 1 .. Len(wires) :
              v[d].words = wires[d].words /\ v[d].reset = wires[d].reset
    BY <2>1, <2>2, ConnectionClosed DEF NetworkTypes
  <2>4. PICK x \in Wire : x = [words |-> <<>>, open |-> TRUE, reset |-> FALSE]
    <3>1. [words |-> <<>>, open |-> TRUE, reset |-> FALSE] \in Wire
      BY DEF Wire
    <3> QED
      BY <3>1
  <2>5. ~x.reset
    BY <2>4
  <2>6. wires' = Append(v, x)
    BY <1>2, <2>2, <2>4 DEF ClientConnect
  <2>7. PICK n \in Nat : n = Len(wires) + 1 /\ Len(wires') = n
    BY <1>a, <2>3, <2>6
  <2>8. /\ wires'[n] = x
        /\ \A d \in 1 .. Len(wires) : wires'[d] = v[d]
    BY <1>a, <2>3, <2>6, <2>7
  <2>9. /\ client'.stream = n /\ client'.writing = NoCall /\ server' = server
        /\ backlog' = Append(backlog, n)
    BY <1>2, <2>7 DEF ClientConnect, NetworkTypes
  <2>10. /\ Len(backlog') = Len(backlog) + 1 /\ backlog'[Len(backlog) + 1] = n
         /\ \A i \in 1 .. Len(backlog) : backlog'[i] = backlog[i]
    BY <2>9 DEF NetworkTypes
  <2>11. server.stream \in Nat /\ \A i \in 1 .. Len(backlog) : backlog[i] \in Nat
    BY DEF NetworkTypes
  <2>12. \A i \in 1 .. Len(backlog') : server.stream < backlog'[i] /\ backlog'[i] <= n
    BY <1>a, <2>7, <2>10, <2>11 DEF StreamsOK
  <2>13. \A i, j \in 1 .. Len(backlog') : i < j => backlog'[i] < backlog'[j]
    BY <1>a, <2>7, <2>10, <2>11 DEF StreamsOK
  <2>14. ASSUME NEW c \in 1 .. n
         PROVE  IF wires'[c].reset THEN wires'[c].words = <<>> ELSE Readable(c)'
    <3>1. CASE c = n
      <4>1. Len(backlog) + 1 \in 1 .. Len(backlog')
        BY <1>a, <2>10
      <4>2. \E i \in 1 .. Len(backlog') : backlog'[i] = c
        BY <2>10, <3>1, <4>1
      <4> QED
        BY <2>5, <2>8, <3>1, <4>2 DEF Readable
    <3>2. CASE c # n
      <4>1. c \in 1 .. Len(wires)
        BY <1>a, <2>7, <3>2
      <4>2. /\ wires'[c].words = wires[c].words /\ wires'[c].reset = wires[c].reset
            /\ IF wires[c].reset THEN wires[c].words = <<>> ELSE Readable(c)
        BY <2>3, <2>8, <4>1 DEF StreamsOK
      <4>3. Readable(c) => Readable(c)'
        BY <1>a, <2>9, <2>10 DEF Readable
      <4> QED
        BY <4>2, <4>3
    <3> QED
      BY <3>1, <3>2
  <2>15. server.stream <= n /\ (server.reading # NoCall => server.stream # 0)
         /\ (server.accepting => server.stream = 0)
         /\ (server.stream # 0 \/ server.accepting => server.listening)
    BY <1>a, <2>7, <2>11 DEF StreamsOK
  <2> QED
    BY <2>7, <2>9, <2>12, <2>13, <2>14, <2>15 DEF StreamsOK
<1>3. CASE ClientAuthenticate
  <2>1. client'.stream = client.stream /\ client'.writing = client.writing
    BY <1>3 DEF ClientAuthenticate, NetworkTypes
  <2>2. wires' \in Seq(Wire)
    BY <1>3 DEF ClientAuthenticate, NetworkTypes
  <2> QED
    BY <1>b, <1>3, <2>1, <2>2 DEF ClientAuthenticate, StreamsOK
<1>4. CASE ClientClose \/ ClientCrash
  <2>1. client.stream \in 0 .. Len(wires)
    BY <1>a DEF StreamsOK
  <2>2. wires' = Closed(client.stream) /\ UNCHANGED <<server, backlog>>
    BY <1>4 DEF ClientClose, ClientCrash
  <2>3. /\ wires' \in Seq(Wire) /\ Len(wires') = Len(wires)
        /\ \A d \in 1 .. Len(wires) :
              wires'[d].words = wires[d].words /\ wires'[d].reset = wires[d].reset
    BY <2>1, <2>2, ConnectionClosed DEF NetworkTypes
  <2>4. client'.stream = 0 /\ client'.writing = NoCall
    BY <1>4 DEF ClientClose, ClientCrash, NewTransport, NetworkTypes
  <2> QED
    BY <1>b, <2>2, <2>3, <2>4
<1>5. ASSUME NEW e \in Envelopes, BeginSend(e)
      PROVE  StreamsOK'
  <2>1. client'.stream = client.stream /\ client.stream # 0
        /\ client'.writing = <<LengthWord>> \o Body(e)
    BY <1>5 DEF BeginSend, NetworkTypes
  <2>2. client'.writing # <<>>
    BY <2>1, FrameWords
  <2>3. wires' \in Seq(Wire)
    BY <1>5 DEF BeginSend, NetworkTypes
  <2> QED
    BY <1>b, <1>5, <2>1, <2>2, <2>3 DEF BeginSend, StreamsOK
<1>6. CASE WriteWord
  <2>1. client.writing # NoCall /\ client'.stream = client.stream
    BY <1>6 DEF WriteWord, NetworkTypes
  <2>2. PICK c \in 1 .. Len(wires) : c = client.stream
    BY <1>a, <2>1 DEF StreamsOK
  <2>3. client'.writing # NoCall => client'.writing # <<>>
    BY <1>6 DEF WriteWord, NetworkTypes
  <2>4. /\ wires' \in Seq(Wire) /\ Len(wires') = Len(wires)
        /\ \A d \in 1 .. Len(wires) :
              /\ wires'[d].reset = wires[d].reset
              /\ wires[d].reset => wires'[d].words = wires[d].words
    <3>1. CASE wires[c].reset
      BY <1>6, <2>2, <3>1 DEF WriteWord, NetworkTypes
    <3>2. CASE ~wires[c].reset
      <4>1. PICK words \in Seq(Words) : wires' = [wires EXCEPT ![c].words = words]
        <5>1. PICK wr \in Seq(Words) : wr = client.writing /\ wr # <<>>
          BY <2>1 DEF NetworkTypes, StreamsOK
        <5>2. Head(wr) \in Words /\ wires[c] \in Wire
          BY <5>1, HeadTailProperties DEF NetworkTypes
        <5>3. Append(wires[c].words, Head(wr)) \in Seq(Words)
          BY <5>2 DEF Wire
        <5>4. wires' = [wires EXCEPT ![c].words = Append(wires[c].words, Head(wr))]
          BY <1>6, <2>2, <3>2, <5>1 DEF WriteWord
        <5> QED
          BY <5>3, <5>4
      <4>2. /\ wires' \in Seq(Wire) /\ Len(wires') = Len(wires)
            /\ wires'[c].reset = wires[c].reset
            /\ \A d \in 1 .. Len(wires) : d # c => wires'[d] = wires[d]
        BY <4>1, WiresSet DEF NetworkTypes
      <4> QED
        BY <3>2, <4>2
    <3> QED
      BY <3>1, <3>2
  <2>5. UNCHANGED <<server, backlog>>
    BY <1>6 DEF WriteWord
  <2>6. client'.stream \in {0, Len(wires)} /\ client'.stream # 0
    BY <1>a, <2>1, <2>2 DEF StreamsOK
  <2> QED
    BY <1>b, <2>3, <2>4, <2>5, <2>6
<1>7. CASE CancelSend
  <2>1. client'.stream = client.stream /\ client'.writing = NoCall
    BY <1>7 DEF CancelSend, NetworkTypes
  <2>2. wires' \in Seq(Wire)
    BY <1>7 DEF CancelSend, NetworkTypes
  <2> QED
    BY <1>b, <1>7, <2>1, <2>2 DEF CancelSend, StreamsOK
<1>8. CASE Bind
  <2>1. server.stream = 0 /\ server.reading = NoCall
    BY <1>8 DEF Bind, Idle, StreamsOK
  <2>2. server'.stream = 0 /\ server'.reading = NoCall /\ server'.listening
    BY <1>8, <2>1 DEF Bind, NetworkTypes
  <2> QED
    BY <1>c, <1>8, <2>1, <2>2 DEF Bind
<1>9. CASE Accept
  <2>1. /\ server.accepting /\ backlog # <<>>
        /\ server' = [server EXCEPT !.accepting = FALSE, !.stream = Head(backlog)]
        /\ backlog' = Tail(backlog)
        /\ UNCHANGED <<client, wires>>
    BY <1>9 DEF Accept
  <2>2. PICK n \in Nat : n = Len(backlog) /\ n > 0
    <3>1. backlog \in Seq(Nat) /\ backlog # <<>>
      BY <2>1 DEF NetworkTypes
    <3>2. Len(backlog) > 0
      BY <3>1
    <3> QED
      BY <1>a, <3>2
  <2>3. PICK h \in Nat : h = Head(backlog) /\ h = backlog[1]
    BY <2>1, <2>2 DEF NetworkTypes
  <2>4. Len(backlog') = n - 1 /\ \A i \in 1 .. n - 1 : backlog'[i] = backlog[i + 1]
    BY <2>1, <2>2, HeadTailProperties DEF NetworkTypes
  <2>5. \A i \in 1 .. n : backlog[i] \in Nat
    BY <2>2 DEF NetworkTypes
  <2>6. server.stream = 0 /\ \A i \in 1 .. n : 0 < backlog[i] /\ backlog[i] <= Len(wires)
    BY <2>1, <2>2 DEF StreamsOK
  <2>7. \A i, j \in 1 .. n : i < j => backlog[i] < backlog[j]
    BY <2>2 DEF StreamsOK
  <2>8. /\ server'.stream = h /\ ~server'.accepting
        /\ server'.reading = server.reading /\ server'.listening = server.listening
    BY <2>1, <2>3 DEF NetworkTypes
  <2>9. h > 0 /\ h <= Len(wires)
    BY <2>2, <2>3, <2>6
  <2>10. server.listening
    BY <2>1 DEF StreamsOK
  <2>11. \A i \in 1 .. n - 1 : h < backlog'[i] /\ backlog'[i] <= Len(wires)
    <3> SUFFICES ASSUME NEW i \in 1 .. n - 1
                 PROVE  h < backlog'[i] /\ backlog'[i] <= Len(wires)
      OBVIOUS
    <3>1. i + 1 \in 1 .. n /\ 1 \in 1 .. n /\ 1 < i + 1
      BY <2>2
    <3> QED
      BY <2>3, <2>4, <2>6, <2>7, <3>1
  <2>12. \A i, j \in 1 .. n - 1 : i < j => backlog'[i] < backlog'[j]
    <3> SUFFICES ASSUME NEW i \in 1 .. n - 1, NEW j \in 1 .. n - 1, i < j
                 PROVE  backlog'[i] < backlog'[j]
      OBVIOUS
    <3>1. i + 1 \in 1 .. n /\ j + 1 \in 1 .. n /\ i + 1 < j + 1
      BY <2>2
    <3> QED
      BY <2>4, <2>7, <3>1
  <2>13. ASSUME NEW c \in 1 .. Len(wires)
         PROVE  IF wires[c].reset THEN wires[c].words = <<>> ELSE Readable(c)'
    <3>1. Readable(c) => Readable(c)'
      <4> SUFFICES ASSUME Readable(c) PROVE Readable(c)'
        OBVIOUS
      <4>1. PICK i \in 1 .. n : backlog[i] = c
        BY <2>2, <2>6 DEF Readable
      <4>2. CASE i = 1
        BY <2>3, <2>8, <4>1, <4>2 DEF Readable
      <4>3. CASE i # 1
        <5>1. PICK k \in 1 .. n - 1 : i = k + 1
          <6>1. i - 1 \in 1 .. n - 1 /\ i = (i - 1) + 1
            BY <2>2, <4>3
          <6> QED
            BY <6>1
        <5>2. backlog'[k] = c /\ k \in 1 .. Len(backlog')
          BY <2>4, <4>1, <5>1
        <5> QED
          BY <5>2 DEF Readable
      <4> QED
        BY <4>2, <4>3
    <3> QED
      BY <3>1 DEF StreamsOK
  <2>14. server'.reading # NoCall => h # 0
    BY <2>9
  <2> QED
    BY <1>a, <2>1, <2>4, <2>8, <2>9, <2>10, <2>11, <2>12, <2>13 DEF StreamsOK
<1>10. CASE CancelAccept
  BY <1>c, <1>10 DEF CancelAccept, NetworkTypes, StreamsOK
<1>11. CASE ServerAuthenticate
  BY <1>c, <1>11 DEF ServerAuthenticate, NetworkTypes, StreamsOK
<1>12. CASE BeginReceive
  BY <1>c, <1>12 DEF BeginReceive, NetworkTypes, StreamsOK
<1>13. CASE ReadEnd \/ CancelReceive
  BY <1>c, <1>13 DEF ReadEnd, CancelReceive, NetworkTypes, StreamsOK
<1>14. CASE ReadWord
  <2>1. PICK s \in 1 .. Len(wires), rest \in Seq(Words) :
           s = server.stream /\ wires[s].words # <<>>
           /\ wires' = [wires EXCEPT ![s].words = rest]
    BY <1>14, ReadOf
  <2>2. /\ Len(wires') = Len(wires)
        /\ wires'[s].reset = wires[s].reset
        /\ \A d \in 1 .. Len(wires) : d # s => wires'[d] = wires[d]
    BY <2>1, WiresSet DEF NetworkTypes
  <2>3. ~wires[s].reset
    BY <2>1 DEF StreamsOK
  <2>4. /\ server'.stream = s /\ server'.accepting = server.accepting
        /\ server'.listening = server.listening /\ UNCHANGED <<client, backlog>>
    BY <1>14, <2>1 DEF ReadWord, NetworkTypes
  <2>5. ASSUME NEW c \in 1 .. Len(wires)
        PROVE  IF wires'[c].reset THEN wires'[c].words = <<>> ELSE Readable(c)'
    <3>1. Readable(c) => Readable(c)'
      BY <2>1, <2>4 DEF Readable
    <3> QED
      BY <2>2, <2>3, <3>1 DEF StreamsOK
  <2>6. s # 0
    OBVIOUS
  <2> QED
    BY <1>a, <2>1, <2>2, <2>4, <2>5, <2>6 DEF StreamsOK
<1>15. CASE ServerClose
  <2>1. server'.stream = 0 /\ server'.reading = NoCall /\ ~server'.accepting
    BY <1>15 DEF ServerClose, Idle, NetworkTypes
  <2> QED
    BY <1>d, <1>15, <2>1 DEF ServerClose
<1>16. CASE ServerCrash
  BY <1>d, <1>16 DEF ServerCrash, NewListener
<1> QED
  BY <1>1, <1>2, <1>3, <1>4, <1>5, <1>6, <1>7, <1>8, <1>9, <1>10, <1>11, <1>12, <1>13,
     <1>14, <1>15, <1>16 DEF TransportNext

LEMMA OwnKept == NetworkTypes /\ OwnAnswers /\ [TransportNext]_network => OwnAnswers'
<1> SUFFICES ASSUME NetworkTypes, OwnAnswers, [TransportNext]_network
             PROVE  OwnAnswers'
  OBVIOUS
<1>1. CASE UNCHANGED accepted
  BY <1>1 DEF OwnAnswers
<1>2. ASSUME NEW e \in Envelopes, accepted' = Append(accepted, e),
             Verified(e), Valid(e, Expected)
      PROVE  OwnAnswers'
  <2>1. Len(accepted) \in Nat /\ Len(accepted') = Len(accepted) + 1
    BY <1>2 DEF NetworkTypes
  <2>2. /\ accepted'[Len(accepted) + 1] = e
        /\ \A i \in 1 .. Len(accepted) : accepted'[i] = accepted[i]
    BY <1>2 DEF NetworkTypes
  <2>3. ASSUME NEW i \in 1 .. Len(accepted')
        PROVE  Verified(accepted'[i]) /\ Valid(accepted'[i], Expected)
    <3>1. i = Len(accepted) + 1 \/ i \in 1 .. Len(accepted)
      BY <2>1
    <3>2. CASE i = Len(accepted) + 1
      BY <1>2, <2>2, <3>2
    <3>3. CASE i \in 1 .. Len(accepted)
      BY <2>2, <3>3 DEF OwnAnswers
    <3> QED
      BY <3>1, <3>2, <3>3
  <2> QED
    BY <2>3 DEF OwnAnswers
<1>3. CASE ReadWord
  <2>1. \/ UNCHANGED accepted
        \/ \E e \in Envelopes :
              accepted' = Append(accepted, e) /\ Verified(e) /\ Valid(e, Expected)
    BY <1>3, Zenon DEF ReadWord, Decode
  <2> QED
    BY <1>1, <1>2, <2>1
<1>4. CASE \E e \in Envelopes : BeginSend(e)
  BY <1>1, <1>4 DEF BeginSend
<1> QED
  BY <1>1, <1>3, <1>4 DEF TransportNext, network, ClientConnect, ClientAuthenticate, ClientClose,
     ClientCrash, WriteWord, CancelSend, Bind, Accept, CancelAccept, ServerAuthenticate,
     BeginReceive, ReadEnd, CancelReceive, ServerClose, ServerCrash

(* What completes an answer is the last word of the answered envelope.     *)
LEMMA AnswerEnds ==
  ASSUME NetworkTypes, StreamsOK, ReadWord, NEW e \in Envelopes,
         NEW words \in Seq(Words),
         words = Append(server.reading, Head(wires[server.stream].words)),
         Len(words) = 1 + BodyWords, e \in Decode(Tail(words))
  PROVE  Head(wires[server.stream].words) = End(e)
<1>1. PICK before \in Seq(Words), h \in Words :
         before = server.reading /\ h = Head(wires[server.stream].words)
  BY ReadOf
<1>2. words = Append(before, h)
  BY <1>1
<1>3. BodyWords \in Nat \ {0}
  BY TransportAssumption
<1>4. Len(before) = BodyWords /\ words[1 + BodyWords] = h
  BY <1>2, <1>3
<1>5. words # <<>>
  BY <1>3
<1>6. Len(Tail(words)) = BodyWords /\ \A i \in 1 .. BodyWords : Tail(words)[i] = words[i + 1]
  BY <1>3, <1>5, HeadTailProperties
<1>7. Tail(words)[BodyWords] = h
  BY <1>3, <1>4, <1>6
<1>8. Tail(words) = Body(e)
  BY DEF Decode
<1>9. Body(e)[BodyWords] = End(e)
  BY <1>3 DEF Body, End, BodyWord
<1> QED
  BY <1>1, <1>7, <1>8, <1>9

LEMMA PlacedKept ==
  NetworkTypes /\ StreamsOK /\ Placed(Lines, handed) /\ [TransportNext]_network
  => Placed(Lines, handed)'
<1> SUFFICES ASSUME NetworkTypes, StreamsOK, Placed(Lines, handed), [TransportNext]_network
             PROVE  Placed(Lines, handed)'
  OBVIOUS
<1>0. NetworkTypes' /\ StreamsOK'
  BY TypesKept, StreamsKept
<1>1. PICK a \in Seq(Envelopes), w \in Seq(Wire), wr \in Writing, calls \in Seq(Envelopes) :
         a = accepted /\ w = wires /\ wr = client.writing /\ calls = handed
  BY DEF NetworkTypes, Writing
<1>2. PICK b \in Seq(Envelopes), v \in Seq(Wire), vr \in Writing, more \in Seq(Envelopes) :
         b = accepted' /\ v = wires' /\ vr = client'.writing /\ more = handed'
  BY <1>0 DEF NetworkTypes, Writing
<1>3. Placed(Standing(a, w, wr), calls)
  BY <1>1 DEF Lines
<1>4. SUFFICES Placed(Standing(b, v, vr), more)
  BY <1>2 DEF Lines
<1>5. ASSUME b = a, more = calls, Len(v) = Len(w), vr \in {wr, NoCall},
             \A c \in 1 .. Len(w) : v[c].words \in {w[c].words, <<>>}
      PROVE  Placed(Standing(b, v, vr), more)
  BY <1>3, <1>5, LostWords
<1>6. CASE UNCHANGED <<accepted, handed, wires>> /\ client'.writing \in {client.writing, NoCall}
  BY <1>1, <1>2, <1>5, <1>6
<1>7. CASE UNCHANGED network
  BY <1>6, <1>7 DEF network
<1>8. CASE \/ ClientAuthenticate \/ CancelSend \/ Bind \/ Accept \/ CancelAccept
           \/ ServerAuthenticate \/ BeginReceive \/ ReadEnd \/ CancelReceive
  BY <1>6, <1>8 DEF ClientAuthenticate, CancelSend, Bind, Accept, CancelAccept,
     ServerAuthenticate, BeginReceive, ReadEnd, CancelReceive, NetworkTypes
<1>9. CASE ClientClose \/ ClientCrash
  <2>1. client.stream \in 0 .. Len(wires)
    BY DEF NetworkTypes, StreamsOK, None
  <2>2. /\ Len(wires') = Len(wires)
        /\ \A d \in 1 .. Len(wires) : wires'[d].words = wires[d].words
    BY <1>9, <2>1, ConnectionClosed DEF NetworkTypes, ClientClose, ClientCrash
  <2>3. client'.writing \in {client.writing, NoCall} /\ UNCHANGED <<accepted, handed>>
    BY <1>9 DEF ClientClose, ClientCrash, NewTransport, NetworkTypes
  <2> QED
    BY <1>1, <1>2, <1>5, <2>2, <2>3
<1>10. CASE ServerClose \/ ServerCrash
  <2>1. /\ Len(wires') = Len(wires)
        /\ \A c \in 1 .. Len(wires) : wires'[c].words = <<>>
    BY <1>10, ResetNetwork DEF ServerClose, ServerCrash
  <2>2. UNCHANGED <<client, accepted, handed>>
    BY <1>10 DEF ServerClose, ServerCrash
  <2> QED
    BY <1>1, <1>2, <1>5, <2>1, <2>2
<1>11. CASE ClientConnect
  <2>1. client.stream \in 0 .. Len(wires)
    BY DEF NetworkTypes, StreamsOK, None
  <2>2. PICK u : u = Closed(client.stream)
    OBVIOUS
  <2>3. /\ u \in Seq(Wire) /\ Len(u) = Len(w)
        /\ \A d \in 1 .. Len(w) : u[d].words = w[d].words
    BY <1>1, <2>1, <2>2, ConnectionClosed DEF NetworkTypes
  <2>4. PICK x \in Wire : x = [words |-> <<>>, open |-> TRUE, reset |-> FALSE]
    <3>1. [words |-> <<>>, open |-> TRUE, reset |-> FALSE] \in Wire
      BY DEF Wire
    <3> QED
      BY <3>1
  <2>5. v = Append(u, x) /\ x.words = <<>>
    BY <1>2, <1>11, <2>2, <2>4 DEF ClientConnect
  <2>6. /\ Len(v) = Len(w) + 1 /\ v[Len(v)] = x
        /\ \A d \in 1 .. Len(w) : v[d] = u[d]
    BY <2>3, <2>5
  <2>7. wr = NoCall /\ vr = NoCall /\ b = a /\ more = calls
    BY <1>1, <1>2, <1>11 DEF ClientConnect, NetworkTypes
  <2> QED
    BY <1>3, <2>3, <2>5, <2>6, <2>7, NewConnection
<1>12. ASSUME NEW e \in Envelopes, BeginSend(e)
       PROVE  Placed(Standing(b, v, vr), more)
  <2>1. /\ wr = NoCall /\ vr = <<LengthWord>> \o Body(e)
        /\ b = a /\ v = w /\ more = Append(calls, e)
    BY <1>1, <1>2, <1>12 DEF BeginSend, NetworkTypes
  <2> QED
    BY <1>3, <2>1, Called
<1>13. CASE WriteWord
  <2>1. client.writing # NoCall /\ client.stream = Len(w) /\ Len(w) # 0 /\ Len(w) \in Nat
    BY <1>1, <1>13 DEF WriteWord, StreamsOK, None
  <2>2. wr \in Seq(Words) /\ wr # <<>>
    BY <1>1, <2>1 DEF Writing, StreamsOK
  <2>3. b = a /\ more = calls
    BY <1>1, <1>2, <1>13 DEF WriteWord
  <2>4. CASE w[Len(w)].reset
    <3>1. v = w /\ vr = NoCall
      BY <1>1, <1>2, <1>13, <2>1, <2>4 DEF WriteWord, NetworkTypes
    <3> QED
      BY <1>5, <2>3, <3>1
  <2>5. CASE ~w[Len(w)].reset
    <3>1. PICK n \in 1 .. Len(w) : n = Len(w)
      BY <2>1
    <3>2. Head(wr) \in Words /\ w[n] \in Wire
      BY <2>2, HeadTailProperties
    <3>3. PICK words \in Seq(Words) : words = Append(w[n].words, Head(wr))
      <4>1. Append(w[n].words, Head(wr)) \in Seq(Words)
        BY <3>2 DEF Wire
      <4> QED
        BY <4>1
    <3>4. wires' = [wires EXCEPT ![n].words = words]
      BY <1>1, <1>13, <2>1, <2>5, <3>1, <3>3 DEF WriteWord
    <3>5. /\ Len(v) = Len(w) /\ v[n].words = words
          /\ \A d \in 1 .. Len(w) : d # n => v[d] = w[d]
      BY <1>1, <1>2, <3>4, WiresSet
    <3>6. vr = IF Tail(wr) = <<>> THEN NoCall ELSE Tail(wr)
      BY <1>1, <1>2, <1>13, <2>1, <2>5 DEF WriteWord, NetworkTypes
    <3>7. Len(w) > 0
      BY <2>1
    <3> QED
      BY <1>3, <2>2, <2>3, <3>1, <3>3, <3>5, <3>6, <3>7, Written
  <2> QED
    BY <2>4, <2>5
<1>14. CASE ReadWord
  <2>1. PICK s \in 1 .. Len(w), rest \in Seq(Words) :
           /\ s = server.stream /\ w[s].words # <<>> /\ rest = Tail(w[s].words)
           /\ wires' = [wires EXCEPT ![s].words = rest]
    BY <1>1, <1>14, ReadOf
  <2>2. /\ Len(v) = Len(w) /\ v[s].words = Tail(w[s].words)
        /\ \A d \in 1 .. Len(w) : d # s => v[d] = w[d]
    BY <1>1, <1>2, <2>1, WiresSet
  <2>3. ASSUME NEW c \in 1 .. Len(w), c < s
        PROVE  w[c].words = <<>>
    <3>1. ~Readable(c)
      <4>1. \A i \in 1 .. Len(backlog) : s < backlog[i] /\ backlog[i] \in Nat
        <5>1. backlog \in Seq(Nat)
          BY DEF NetworkTypes
        <5>2. \A i \in 1 .. Len(backlog) : server.stream < backlog[i]
          BY DEF StreamsOK
        <5>3. \A i \in 1 .. Len(backlog) : backlog[i] \in Nat
          BY <5>1
        <5>4. s = server.stream
          BY <2>1
        <5> QED
          BY <5>2, <5>3, <5>4
      <4> QED
        BY <2>1, <2>3, <4>1 DEF Readable
    <3> QED
      BY <1>1, <3>1 DEF StreamsOK
  <2>4. b = a \/ \E e \in Envelopes : b = Append(a, e) /\ Head(w[s].words) = End(e)
    <3>1. PICK words \in Seq(Words) :
             words = Append(server.reading, Head(wires[server.stream].words))
      BY <1>14, ReadOf
    <3>2. \/ b = a
          \/ \E e \in Decode(Tail(words)) : Len(words) = 1 + BodyWords /\ b = Append(a, e)
      BY <1>1, <1>2, <1>14, <3>1 DEF ReadWord
    <3>3. Decode(Tail(words)) \subseteq Envelopes
      BY DEF Decode
    <3>4. ASSUME NEW e \in Decode(Tail(words)), Len(words) = 1 + BodyWords, b = Append(a, e)
          PROVE  e \in Envelopes /\ Head(w[s].words) = End(e)
      BY <1>1, <1>14, <2>1, <3>1, <3>3, <3>4, AnswerEnds
    <3> QED
      BY <3>2, <3>4
  <2>5. more = calls /\ vr = wr
    BY <1>1, <1>2, <1>14 DEF ReadWord
  <2> QED
    BY <1>3, <2>1, <2>2, <2>3, <2>4, <2>5, WordTaken
<1> QED
  BY <1>7, <1>8, <1>9, <1>10, <1>11, <1>12, <1>13, <1>14 DEF TransportNext

(* Whatever crashes, is cancelled or cut: what receive answers was handed  *)
(* to send, in that order, and is the expected peer's own.                 *)
THEOREM AnswersInOrder == TransportSpec => []AcceptedInOrder
<1>1. TransportInit => NetworkInv
  BY InitialNetwork
<1>2. NetworkInv /\ [TransportNext]_network => NetworkInv'
  BY TypesKept, StreamsKept, OwnKept, PlacedKept DEF NetworkInv
<1>3. NetworkInv => AcceptedInOrder
  <2> SUFFICES ASSUME NetworkInv PROVE AcceptedInOrder
    OBVIOUS
  <2>1. Subsequence(accepted, handed)
    <3>1. PICK wr \in Writing : wr = client.writing
      BY DEF NetworkInv, NetworkTypes, Writing
    <3>2. Placed(Standing(accepted, wires, wr), handed)
      BY <3>1 DEF NetworkInv, Lines
    <3> QED
      BY <3>2, PlacedSubsequence DEF NetworkInv, NetworkTypes
  <2>2. DOMAIN accepted = 1 .. Len(accepted)
    BY DEF NetworkInv, NetworkTypes
  <2>3. \A i \in DOMAIN accepted :
           /\ accepted[i].participant = Peer /\ accepted[i].signer = Peer
           /\ accepted[i].session = Expected /\ accepted[i].round \in 1 .. 10
    BY <2>2, TransportAssumption DEF NetworkInv, OwnAnswers, Verified, Valid
  <2> QED
    BY <2>1, <2>3 DEF AcceptedInOrder
<1> QED
  BY <1>1, <1>2, <1>3, PTL DEF TransportSpec
=============================================================================
