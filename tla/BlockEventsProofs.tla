-------------------------- MODULE BlockEventsProofs --------------------------
(***************************************************************************)
(* Proof that a reader that pages through the events of a height gets the  *)
(* events of one block, in order and each once, whatever is appended or    *)
(* rolled back between its pages, for any blocks, limit and readers.       *)
(***************************************************************************)
EXTENDS BlockEvents, GatewayProofs

-----------------------------------------------------------------------------
(***************************************************************************)
(* The inductive invariant.                                                *)
(***************************************************************************)

\* An event is named by its block and its place in it.
Event == Branch \X Nat

RequestState == [step : {"none", "probe", "checkpoint", "block", "events"},
                 seen : Branch, blockHash : HashOrNull]

ReaderState == [height : Heights,
                cursor : [hash : HashOrNull, position : Nat],
                got : Seq(Event),
                blockHash : HashOrNull,
                checkpoint : Branch,
                status : {"idle", "paging", "complete", "not_indexed", "rejected"}]

\* A reader has the events before its cursor, or everything.
ReaderSound(s) ==
  /\ IsCursor(s.cursor)
  /\ s.cursor # NoCursor =>
       /\ s.cursor.hash # None
       /\ s.got = SubSeq(EventsOf(s.cursor.hash), 1, s.cursor.position)
  /\ s.status = "paging" /\ s.cursor = NoCursor => s.got = <<>> /\ s.blockHash = None
  /\ s.status = "complete" => s.got = EventsOf(s.blockHash)
  /\ s.status = "complete" => s.blockHash = HashAt(s.checkpoint, s.height)
  /\ s.blockHash # None => IsPrefix(s.blockHash, s.checkpoint)
  /\ s.status = "not_indexed" => Len(s.checkpoint) < s.height

\* Only a reader that pages has a request under way; the block the request has
\* found is the one at the reader's height, and its cursor's.
RequestSound(q, s) ==
  /\ q.step # "none" => s.status = "paging"
  /\ q.step = "events" =>
       /\ q.blockHash = HashAt(q.seen, s.height)
       /\ CursorFits(s.cursor, q.blockHash)

IInv ==
  /\ ReadinessTypeOK
  /\ request \in [Reader -> RequestState]
  /\ reader \in [Reader -> ReaderState]
  /\ \A r \in Reader :
       /\ ProbeSound(r)
       /\ ReaderSound(reader[r])
       /\ RequestSound(request[r], reader[r])

-----------------------------------------------------------------------------
(***************************************************************************)
(* Pages of a sequence.                                                    *)
(***************************************************************************)

\* What was got up to a position and the next page of at most L make what is got
\* up to the end of that page; the last page ends the sequence.
LEMMA PagesJoin ==
  ASSUME NEW S, NEW a \in Seq(S), NEW p \in 0 .. Len(a), NEW L \in Nat \ {0}
  PROVE  /\ Len(SubSeq(a, p + 1, Len(a))) = Len(a) - p
         /\ SubSeq(a, 1, p) \o SubSeq(a, p + 1, Len(a)) = a
         /\ Len(a) - p > L =>
              /\ SubSeq(a, 1, p) \o SubSeq(SubSeq(a, p + 1, Len(a)), 1, L)
                   = SubSeq(a, 1, p + L)
              /\ Last(SubSeq(SubSeq(a, p + 1, Len(a)), 1, L)) = a[p + L]
<1> DEFINE n == Len(a)
           got == SubSeq(a, 1, p)
           rest == SubSeq(a, p + 1, n)
<1>1. /\ n \in Nat /\ p \in Nat /\ p <= n /\ L \in Nat /\ L >= 1
      /\ \A k \in 1 .. n : a[k] \in S
  BY LenProperties, ElementOfSeq
<1>2. /\ got \in Seq(S) /\ Len(got) = p
      /\ \A k \in 1 .. p : got[k] = a[k]
  <2>1. \A k \in 1 .. p : a[k] \in S
    BY <1>1
  <2>2. /\ got \in Seq(S)
        /\ Len(got) = IF 1 <= p THEN p - 1 + 1 ELSE 0
        /\ \A k \in 1 .. p - 1 + 1 : got[k] = a[1 + k - 1]
    BY <1>1, <2>1, SubSeqProperties
  <2> HIDE DEF got
  <2> QED
    BY <1>1, <2>2
<1>3. /\ rest \in Seq(S) /\ Len(rest) = n - p
      /\ \A k \in 1 .. n - p : rest[k] = a[p + k]
  <2>1. \A k \in p + 1 .. n : a[k] \in S
    BY <1>1
  <2>2. /\ rest \in Seq(S)
        /\ Len(rest) = IF p + 1 <= n THEN n - (p + 1) + 1 ELSE 0
        /\ \A k \in 1 .. n - (p + 1) + 1 : rest[k] = a[p + 1 + k - 1]
    BY <1>1, <2>1, SubSeqProperties
  <2> HIDE DEF rest
  <2> QED
    BY <1>1, <2>2
<1>4. got \o rest = a
  <2>1. /\ got \o rest \in Seq(S)
        /\ Len(got \o rest) = Len(got) + Len(rest)
        /\ \A k \in 1 .. Len(got) + Len(rest) :
             (got \o rest)[k] = IF k <= Len(got) THEN got[k] ELSE rest[k - Len(got)]
    BY <1>2, <1>3, ConcatProperties
  <2> HIDE DEF got, rest
  <2>2. Len(got \o rest) = n
    BY <1>1, <1>2, <1>3, <2>1
  <2>3. \A k \in 1 .. n : (got \o rest)[k] = a[k]
    BY <1>1, <1>2, <1>3, <2>1
  <2>4. \A x, y \in Seq(S) : Len(x) = Len(y) /\ (\A k \in 1 .. Len(x) : x[k] = y[k]) => x = y
    BY SeqEqual
  <2> QED
    BY <2>1, <2>2, <2>3, <2>4
<1>5. ASSUME n - p > L
      PROVE  /\ got \o SubSeq(rest, 1, L) = SubSeq(a, 1, p + L)
             /\ Last(SubSeq(rest, 1, L)) = a[p + L]
  <2> DEFINE page == SubSeq(rest, 1, L)
             upto == SubSeq(a, 1, p + L)
  <2> HIDE DEF got, rest
  <2>1. /\ page \in Seq(S) /\ Len(page) = L
        /\ \A k \in 1 .. L : page[k] = rest[k]
    <3>1. \A k \in 1 .. L : rest[k] \in S
      BY <1>1, <1>3, <1>5
    <3>2. /\ page \in Seq(S)
          /\ Len(page) = IF 1 <= L THEN L - 1 + 1 ELSE 0
          /\ \A k \in 1 .. L - 1 + 1 : page[k] = rest[1 + k - 1]
      BY <1>1, <3>1, SubSeqProperties
    <3> HIDE DEF page
    <3> QED
      BY <1>1, <3>2
  <2>2. /\ upto \in Seq(S) /\ Len(upto) = p + L
        /\ \A k \in 1 .. p + L : upto[k] = a[k]
    <3>1. \A k \in 1 .. p + L : a[k] \in S
      BY <1>1, <1>5
    <3>2. p + L \in Int /\ 1 \in Int
      BY <1>1
    <3>3. /\ upto \in Seq(S)
          /\ Len(upto) = IF 1 <= p + L THEN p + L - 1 + 1 ELSE 0
          /\ \A k \in 1 .. p + L - 1 + 1 : upto[k] = a[1 + k - 1]
      BY <3>1, <3>2, SubSeqProperties
    <3> HIDE DEF upto
    <3> QED
      BY <1>1, <3>3
  <2> HIDE DEF page, upto
  <2>3. /\ got \o page \in Seq(S)
        /\ Len(got \o page) = Len(got) + Len(page)
        /\ \A k \in 1 .. Len(got) + Len(page) :
             (got \o page)[k] = IF k <= Len(got) THEN got[k] ELSE page[k - Len(got)]
    BY <1>2, <2>1, ConcatProperties
  <2>4. Len(got \o page) = p + L
    BY <1>2, <2>1, <2>3
  <2>5. ASSUME NEW k \in 1 .. p + L
        PROVE  (got \o page)[k] = upto[k]
    <3>1. CASE k <= p
      BY <1>1, <1>2, <2>1, <2>2, <2>3, <2>5, <3>1
    <3>2. CASE ~(k <= p)
      <4> DEFINE i == k - p
      <4>1. i \in 1 .. L /\ i \in 1 .. n - p /\ p + i = k
        BY <1>1, <1>5, <2>5, <3>2
      <4>2. (got \o page)[k] = page[i] /\ upto[k] = a[k]
        BY <1>1, <1>2, <2>1, <2>2, <2>3, <2>5, <3>2
      <4> HIDE DEF i
      <4> QED
        BY <1>3, <2>1, <4>1, <4>2
    <3> QED
      BY <3>1, <3>2
  <2>6. \A x, y \in Seq(S) : Len(x) = Len(y) /\ (\A k \in 1 .. Len(x) : x[k] = y[k]) => x = y
    BY SeqEqual
  <2>7. got \o page = upto
    BY <2>2, <2>3, <2>4, <2>5, <2>6
  <2>8. Last(page) = a[p + L]
    <3>1. L \in 1 .. L /\ L \in 1 .. n - p
      BY <1>1, <1>5
    <3>2. page[L] = rest[L] /\ rest[L] = a[p + L]
      BY <1>3, <2>1, <3>1
    <3>3. Last(page) = page[L]
      BY <2>1, Zenon DEF Last
    <3> QED
      BY <3>2, <3>3, Zenon
  <2> QED
    BY <2>7, <2>8 DEF page, upto
<1> QED
  BY <1>3, <1>4, <1>5

-----------------------------------------------------------------------------
(***************************************************************************)
(* Blocks and their events.                                                *)
(***************************************************************************)

\* A block's events are numbered from 1, each tagged with the block.
LEMMA EventsAreNumbered ==
  ASSUME NEW h \in HashOrNull
  PROVE  /\ EventsOf(h) \in Seq(Event)
         /\ h # None => /\ Last(h) \in Block /\ Events[Last(h)] \in Nat
                        /\ Len(EventsOf(h)) = Events[Last(h)]
         /\ Len(EventsOf(h)) # 0 => h # None
         /\ \A k \in 1 .. Len(EventsOf(h)) : EventsOf(h)[k] = <<h, k>>
<1>1. CASE h = None
  <2>1. EventsOf(h) = <<>>
    BY <1>1 DEF EventsOf
  <2>2. <<>> \in Seq(Event) /\ Len(<<>>) = 0
    BY EmptySeq
  <2>3. 1 .. 0 = {}
    OBVIOUS
  <2> QED
    BY <1>1, <2>1, <2>2, <2>3
<1>2. CASE h # None
  <2> DEFINE n == Events[Last(h)]
  <2>1. h \in Branch /\ h # <<>>
    BY <1>2 DEF HashOrNull
  <2>2. Len(h) \in 1 .. Len(h)
    BY <2>1, BranchIsSeq
  <2>3. Last(h) \in Block
    BY <2>1, <2>2, BranchIsSeq DEF Last
  <2>4. n \in Nat
    BY <2>3, BlockEventsAssumption
  <2> HIDE DEF n
  <2>5. EventsOf(h) = [k \in 1 .. n |-> <<h, k>>]
    BY <1>2 DEF EventsOf, n
  <2>6. [k \in 1 .. n |-> <<h, k>>] \in [1 .. n -> Event]
    BY <2>1, <2>4 DEF Event
  <2>7. EventsOf(h) \in Seq(Event)
    BY <2>4, <2>5, <2>6, SeqDef
  <2>8. \A e \in Seq(Event) : Len(e) \in Nat /\ DOMAIN e = 1 .. Len(e)
    BY LenProperties
  <2>9. \A e \in Seq(Event) : e \in [1 .. n -> Event] => Len(e) = n
    BY <2>4, <2>8
  <2>10. Len(EventsOf(h)) = n
    BY <2>5, <2>6, <2>7, <2>9
  <2>11. \A k \in 1 .. n : EventsOf(h)[k] = <<h, k>>
    BY <2>5
  <2> QED
    BY <1>2, <2>3, <2>4, <2>7, <2>10, <2>11 DEF n
<1> QED
  BY <1>1, <1>2

\* The block at a height is one of the branch, or null.
LEMMA HashAtIsOfBranch ==
  ASSUME NEW x \in Branch, NEW h \in Nat
  PROVE  /\ HashAt(x, h) \in HashOrNull
         /\ HashAt(x, h) # None => IsPrefix(HashAt(x, h), x)
<1>1. CASE h \in 1 .. Len(x)
  <2> DEFINE y == SubSeq(x, 1, h)
  <2>1. h \in 0 .. Len(x) /\ h # 0
    BY <1>1, BranchIsSeq
  <2>2. y \in Branch /\ Len(y) = h
    BY <2>1, CutIsBranch
  <2>3. \A u, v \in Branch : \A k \in 0 .. Len(v) : u = SubSeq(v, 1, k) => IsPrefix(u, v)
    BY PrefixIsCut
  <2>4. y # <<>> /\ HashAt(x, h) = y
    BY <1>1, <2>1, <2>2, EmptyIsBranch DEF HashAt
  <2>5. IsPrefix(y, x)
    BY <2>1, <2>2, <2>3
  <2> HIDE DEF y
  <2> QED
    BY <2>2, <2>4, <2>5 DEF HashOrNull
<1>2. CASE ~(h \in 1 .. Len(x))
  BY <1>2 DEF HashAt, HashOrNull
<1> QED
  BY <1>1, <1>2

-----------------------------------------------------------------------------
(***************************************************************************)
(* A step of one reader and its request.                                   *)
(***************************************************************************)

\* Request, reader and probe of r move; the tables and all others stay.
OfOne(r, q1, s1, p1) ==
  /\ request' = [request EXCEPT ![r] = q1]
  /\ reader' = [reader EXCEPT ![r] = s1]
  /\ probe' = [probe EXCEPT ![r] = p1]
  /\ UNCHANGED sourceVars

\* It keeps the invariant if it leaves its reader and its request sound.
LEMMA OneReaderMoves ==
  ASSUME IInv, NEW r \in Reader,
         NEW q1 \in RequestState, NEW s1 \in ReaderState, NEW p1 \in Probe,
         OfOne(r, q1, s1, p1),
         p1.pc = "ready" => p1.canonicalHeight # None,
         ReaderSound(s1), RequestSound(q1, s1)
  PROVE  IInv'
<1>1. /\ request \in [Reader -> RequestState] /\ reader \in [Reader -> ReaderState]
      /\ probe \in [Reader -> Probe]
  BY DEF IInv, ReadinessTypeOK
<1>2. UNCHANGED <<node, left, reorgs, tables, reorgEpoch, phase>>
  BY DEF OfOne, sourceVars
<1>3. /\ request' \in [Reader -> RequestState] /\ reader' \in [Reader -> ReaderState]
      /\ probe' \in [Reader -> Probe]
      /\ request'[r] = q1 /\ reader'[r] = s1 /\ probe'[r] = p1
      /\ \A o \in Reader : o # r =>
           request'[o] = request[o] /\ reader'[o] = reader[o] /\ probe'[o] = probe[o]
  BY <1>1 DEF OfOne
<1>4. ReadinessTypeOK'
  BY <1>2, <1>3 DEF IInv, ReadinessTypeOK
<1>5. ASSUME NEW o \in Reader
      PROVE  /\ probe'[o].pc = "ready" => probe'[o].canonicalHeight # None
             /\ ReaderSound(reader'[o])
             /\ RequestSound(request'[o], reader'[o])
  <2>1. CASE o = r
    BY <1>3, <2>1
  <2>2. CASE o # r
    BY <1>3, <2>2 DEF IInv, ProbeSound
  <2> QED
    BY <2>1, <2>2
<1> QED
  BY <1>3, <1>4, <1>5
  DEF IInv, ProbeSound, ReaderSound, RequestSound, IsCursor, NoCursor, EventsOf,
      HashAt, CursorFits

\* What the invariant says of reader r.
LEMMA ReaderIsTyped ==
  ASSUME IInv, NEW r \in Reader
  PROVE  /\ request \in [Reader -> RequestState] /\ request[r] \in RequestState
         /\ reader \in [Reader -> ReaderState] /\ reader[r] \in ReaderState
         /\ probe \in [Reader -> Probe] /\ probe[r] \in Probe
         /\ tables \in Branch
         /\ ProbeSound(r) /\ ReaderSound(reader[r]) /\ RequestSound(request[r], reader[r])
BY DEF IInv, ReadinessTypeOK

\* A reader that has nothing, and no request.
LEMMA BlankIsSound ==
  /\ NoRequest \in RequestState /\ NoRequest.step = "none"
  /\ \A h \in Heights, status \in {"idle", "paging", "rejected"} :
       LET s == [NewReader EXCEPT !.height = h, !.status = status] IN
       s \in ReaderState /\ s.status = status /\ ReaderSound(s)
<1>1. <<>> \in Branch /\ <<>> \in Seq(Event)
  BY EmptyIsBranch, EmptySeq
<1>2. NoRequest \in RequestState /\ NoRequest.step = "none"
  BY <1>1 DEF NoRequest, RequestState, HashOrNull
<1>3. ASSUME NEW h \in Heights, NEW status \in {"idle", "paging", "rejected"}
      PROVE  LET s == [NewReader EXCEPT !.height = h, !.status = status] IN
             s \in ReaderState /\ s.status = status /\ ReaderSound(s)
  <2> DEFINE s == [NewReader EXCEPT !.height = h, !.status = status]
  <2>1. /\ s.height = h /\ s.status = status /\ s.cursor = NoCursor
        /\ s.got = <<>> /\ s.blockHash = None /\ s.checkpoint = <<>>
    BY DEF NewReader
  <2>2. s \in ReaderState
    BY <1>1 DEF NewReader, ReaderState, NoCursor, HashOrNull
  <2> HIDE DEF s
  <2>3. ReaderSound(s)
    BY <2>1 DEF ReaderSound, IsCursor
  <2> QED
    BY <2>1, <2>2, <2>3 DEF s
<1> QED
  BY <1>2, <1>3

-----------------------------------------------------------------------------
(***************************************************************************)
(* The steps.                                                              *)
(***************************************************************************)

\* Readers whose requests stay keep the invariant.
LEMMA ReadersStay ==
  ASSUME IInv, ReadinessTypeOK', \A o \in Reader : ProbeSound(o)',
         UNCHANGED <<request, reader>>
  PROVE  IInv'
<1>1. request' = request /\ reader' = reader
  OBVIOUS
<1>2. /\ request' \in [Reader -> RequestState] /\ reader' \in [Reader -> ReaderState]
      /\ \A o \in Reader : /\ ReaderSound(reader'[o])
                            /\ RequestSound(request'[o], reader'[o])
  BY <1>1 DEF IInv
<1> QED
  BY <1>2
  DEF IInv, ReaderSound, RequestSound, IsCursor, NoCursor, EventsOf, HashAt, CursorFits

\* The node and the sync loop move under the readers.
LEMMA SourcesKeepInvariant ==
  ASSUME IInv, SourcesMove, UNCHANGED <<probe, request, reader>>
  PROVE  IInv'
<1>1. SourcesTypeOK
  BY DEF IInv, ReadinessTypeOK, SourcesTypeOK
<1>2. SourcesTypeOK'
  BY <1>1, SourcesMoveIsTyped
<1>3. ReadinessTypeOK'
  BY <1>2 DEF IInv, ReadinessTypeOK, SourcesTypeOK
<1>4. \A o \in Reader : ProbeSound(o)'
  BY DEF IInv, ProbeSound
<1> QED
  BY <1>3, <1>4, ReadersStay

\* A reader asks for a height.
LEMMA AskBlockKeepsInvariant ==
  ASSUME IInv, NEW r \in Reader, NEW h \in Heights, AskBlock(r, h)
  PROVE  IInv'
<1> DEFINE q1 == [NoRequest EXCEPT !.step = "probe"]
           s1 == [NewReader EXCEPT !.height = h, !.status = "paging"]
<1>1. q1 \in RequestState /\ q1.step = "probe"
  BY BlankIsSound DEF RequestState, NoRequest
<1>2. s1 \in ReaderState /\ s1.status = "paging" /\ ReaderSound(s1)
  BY BlankIsSound
<1>3. OfOne(r, q1, s1, NewProbe)
  BY DEF AskBlock, Send, OfOne
<1> HIDE DEF q1, s1
<1>4. RequestSound(q1, s1)
  BY <1>1, <1>2 DEF RequestSound
<1> QED
  BY <1>1, <1>2, <1>3, <1>4, ProbesAreTyped, OneReaderMoves

\* It asks for the next page.
LEMMA AskNextKeepsInvariant ==
  ASSUME IInv, NEW r \in Reader, AskNext(r)
  PROVE  IInv'
<1> DEFINE q1 == [NoRequest EXCEPT !.step = "probe"]
<1>1. q1 \in RequestState /\ q1.step = "probe"
  BY BlankIsSound DEF RequestState, NoRequest
<1>2. /\ reader \in [Reader -> ReaderState] /\ reader[r] \in ReaderState
      /\ ReaderSound(reader[r]) /\ reader[r].status = "paging"
  BY ReaderIsTyped DEF AskNext
<1>3. OfOne(r, q1, reader[r], NewProbe)
  BY <1>2 DEF AskNext, Send, OfOne
<1> HIDE DEF q1
<1>4. RequestSound(q1, reader[r])
  BY <1>1, <1>2 DEF RequestSound
<1> QED
  BY <1>1, <1>2, <1>3, <1>4, ProbesAreTyped, OneReaderMoves

\* The probe of its request moves.
LEMMA RequestProbesKeepsInvariant ==
  ASSUME IInv, NEW r \in Reader, RequestProbes(r)
  PROVE  IInv'
<1>1. /\ ReadinessTypeOK /\ ProbeStep(r)
      /\ \A o \in Reader : ProbeSound(o)
      /\ UNCHANGED <<request, reader>>
  BY DEF IInv, RequestProbes
<1>2. ReadinessTypeOK' /\ \A o \in Reader : ProbeSound(o)'
  BY <1>1, ProbeStepIsTyped
<1> QED
  BY <1>1, <1>2, ReadersStay

\* Its request ends, and leaves a sound reader.
LEMMA EndKeepsInvariant ==
  ASSUME IInv, NEW r \in Reader, NEW s1 \in ReaderState, ReaderSound(s1),
         Ended(r), reader' = [reader EXCEPT ![r] = s1]
  PROVE  IInv'
<1>1. OfOne(r, NoRequest, s1, NoProbe)
  BY DEF Ended, OfOne
<1>2. RequestSound(NoRequest, s1)
  BY BlankIsSound DEF RequestSound
<1> QED
  BY <1>1, <1>2, BlankIsSound, ProbesAreTyped, OneReaderMoves

\* It fails.
LEMMA RequestFailsKeepsInvariant ==
  ASSUME IInv, NEW r \in Reader, RequestFails(r)
  PROVE  IInv'
<1>1. /\ reader \in [Reader -> ReaderState] /\ reader[r] \in ReaderState
      /\ ReaderSound(reader[r])
  BY ReaderIsTyped
<1>2. reader' = [reader EXCEPT ![r] = reader[r]] /\ Ended(r)
  BY <1>1 DEF RequestFails
<1> QED
  BY <1>1, <1>2, EndKeepsInvariant

\* Its transaction starts.
LEMMA ReadyKeepsInvariant ==
  ASSUME IInv, NEW r \in Reader, Ready(r)
  PROVE  IInv'
<1> DEFINE q1 == [request[r] EXCEPT !.step = "checkpoint"]
<1>1. /\ request \in [Reader -> RequestState] /\ request[r] \in RequestState
      /\ reader \in [Reader -> ReaderState] /\ reader[r] \in ReaderState
      /\ ReaderSound(reader[r]) /\ RequestSound(request[r], reader[r])
      /\ request[r].step = "probe"
  BY ReaderIsTyped DEF Ready
<1>2. q1 \in RequestState /\ q1.step = "checkpoint"
  BY <1>1 DEF RequestState
<1>3. OfOne(r, q1, reader[r], NoProbe)
  BY <1>1 DEF Ready, OfOne, RequestState
<1> HIDE DEF q1
<1>4. RequestSound(q1, reader[r])
  BY <1>1, <1>2 DEF RequestSound
<1> QED
  BY <1>1, <1>2, <1>3, <1>4, ProbesAreTyped, OneReaderMoves

\* It is answered 400.
LEMMA RejectKeepsInvariant ==
  ASSUME IInv, NEW r \in Reader, Reject(r)
  PROVE  IInv'
<1> DEFINE s1 == [NewReader EXCEPT !.status = "rejected"]
<1>1. 0 \in Heights /\ <<>> \in Branch /\ <<>> \in Seq(Event)
  BY EmptyIsBranch, EmptySeq, ReadinessAssumption DEF Heights
<1>2. /\ s1.status = "rejected" /\ s1.cursor = NoCursor /\ s1.blockHash = None
      /\ s1 \in ReaderState
  BY <1>1 DEF NewReader, ReaderState, NoCursor, HashOrNull
<1>3. s1 \in ReaderState /\ ReaderSound(s1)
  <2> HIDE DEF s1
  <2> QED
    BY <1>2 DEF ReaderSound, IsCursor
<1>4. reader' = [reader EXCEPT ![r] = s1] /\ Ended(r)
  BY DEF Reject
<1> HIDE DEF s1
<1> QED
  BY <1>3, <1>4, EndKeepsInvariant

\* The first statement: the transaction sees the tables of now.
LEMMA ReadCheckpointKeepsInvariant ==
  ASSUME IInv, NEW r \in Reader, ReadCheckpoint(r)
  PROVE  IInv'
<1>1. /\ request \in [Reader -> RequestState] /\ request[r] \in RequestState
      /\ reader \in [Reader -> ReaderState] /\ reader[r] \in ReaderState
      /\ probe \in [Reader -> Probe] /\ probe[r] \in Probe
      /\ tables \in Branch /\ ProbeSound(r)
      /\ ReaderSound(reader[r]) /\ RequestSound(request[r], reader[r])
      /\ request[r].step = "checkpoint" /\ reader[r].status = "paging"
  BY ReaderIsTyped DEF ReadCheckpoint, RequestSound
<1>2. CASE Len(tables) >= reader[r].height
  <2> DEFINE q1 == [request[r] EXCEPT !.step = "block", !.seen = tables]
  <2>1. q1 \in RequestState /\ q1.step = "block"
    BY <1>1 DEF RequestState
  <2>2. OfOne(r, q1, reader[r], probe[r])
    BY <1>1, <1>2 DEF ReadCheckpoint, OfOne, RequestState, readinessVars, sourceVars
  <2> HIDE DEF q1
  <2>3. RequestSound(q1, reader[r])
    BY <1>1, <2>1 DEF RequestSound
  <2> QED
    BY <1>1, <2>1, <2>2, <2>3, OneReaderMoves DEF ProbeSound
<1>3. CASE Reject(r)
  BY <1>3, RejectKeepsInvariant
<1>4. CASE ~(Len(tables) >= reader[r].height) /\ reader[r].cursor = NoCursor
  <2> DEFINE s1 == [reader[r] EXCEPT !.status = "not_indexed", !.checkpoint = tables]
  <2>1. /\ s1 \in ReaderState
        /\ s1.status = "not_indexed" /\ s1.checkpoint = tables
        /\ s1.height = reader[r].height /\ s1.cursor = NoCursor
        /\ s1.blockHash = reader[r].blockHash
    BY <1>1, <1>4 DEF ReaderState
  <2>2. reader[r].height \in Nat /\ Len(tables) \in Nat
    BY <1>1, BranchIsSeq, ReadinessAssumption DEF ReaderState, Heights
  <2>3. Len(tables) < reader[r].height
    BY <1>4, <2>2
  <2>4. Ended(r) /\ reader' = [reader EXCEPT ![r] = s1]
    BY <1>1, <1>4 DEF ReadCheckpoint, ReaderState
  <2> HIDE DEF s1
  <2>5. ReaderSound(s1)
    BY <1>1, <1>4, <2>1, <2>3 DEF ReaderSound, IsCursor
  <2> QED
    BY <2>1, <2>4, <2>5, EndKeepsInvariant
<1> QED
  BY <1>2, <1>3, <1>4 DEF ReadCheckpoint

\* The second: a cursor of another block is refused.
LEMMA ReadBlockKeepsInvariant ==
  ASSUME IInv, NEW r \in Reader, ReadBlock(r)
  PROVE  IInv'
<1> DEFINE hash == HashAt(request[r].seen, reader[r].height)
           q1 == [request[r] EXCEPT !.step = "events", !.blockHash = hash]
<1>1. /\ request \in [Reader -> RequestState] /\ request[r] \in RequestState
      /\ reader \in [Reader -> ReaderState] /\ reader[r] \in ReaderState
      /\ probe \in [Reader -> Probe] /\ probe[r] \in Probe /\ ProbeSound(r)
      /\ ReaderSound(reader[r]) /\ RequestSound(request[r], reader[r])
      /\ request[r].step = "block" /\ reader[r].status = "paging"
  BY ReaderIsTyped DEF ReadBlock, RequestSound
<1>2. CASE Reject(r)
  BY <1>2, RejectKeepsInvariant
<1>3. CASE CursorFits(reader[r].cursor, hash)
  <2>1. request[r].seen \in Branch /\ reader[r].height \in Nat
    BY <1>1, ReadinessAssumption DEF RequestState, ReaderState, Heights
  <2>2. hash \in HashOrNull
    BY <2>1, HashAtIsOfBranch
  <2>3. OfOne(r, q1, reader[r], probe[r])
    BY <1>1, <1>3 DEF ReadBlock, SeenBy, OfOne, RequestState, readinessVars, sourceVars
  <2> HIDE DEF hash
  <2>4. /\ q1 \in RequestState /\ q1.step = "events"
        /\ q1.blockHash = hash /\ q1.seen = request[r].seen
    BY <1>1, <2>2 DEF RequestState
  <2> HIDE DEF q1
  <2>5. RequestSound(q1, reader[r])
    BY <1>1, <1>3, <2>4 DEF RequestSound, hash
  <2> QED
    BY <1>1, <2>3, <2>4, <2>5, OneReaderMoves DEF ProbeSound
<1> QED
  BY <1>2, <1>3 DEF ReadBlock, SeenBy

\* What a reader holds is the beginning of the events of the block it asks about.
LEMMA GotUpToCursor ==
  ASSUME NEW s \in ReaderState, NEW h \in HashOrNull,
         ReaderSound(s), s.status = "paging", CursorFits(s.cursor, h)
  PROVE  /\ s.cursor.position \in 0 .. Len(EventsOf(h))
         /\ s.got = SubSeq(EventsOf(h), 1, s.cursor.position)
<1>1. EventsOf(h) \in Seq(Event) /\ Len(EventsOf(h)) \in Nat
  BY EventsAreNumbered, LenProperties
<1>2. CASE s.cursor = NoCursor
  <2>1. s.cursor.position = 0 /\ s.got = <<>>
    BY <1>2 DEF ReaderSound, NoCursor
  <2>2. SubSeq(EventsOf(h), 1, 0) = <<>>
    BY SubSeqEmpty
  <2> QED
    BY <1>1, <2>1, <2>2
<1>3. CASE s.cursor # NoCursor
  <2>1. /\ s.cursor.hash = h /\ h # None
        /\ s.got = SubSeq(EventsOf(h), 1, s.cursor.position)
        /\ s.cursor.position \in 1 .. Events[Last(h)]
    BY <1>3 DEF ReaderSound, IsCursor, CursorFits
  <2>2. Len(EventsOf(h)) = Events[Last(h)] /\ Events[Last(h)] \in Nat
    BY <2>1, EventsAreNumbered
  <2> QED
    BY <2>1, <2>2
<1> QED
  BY <1>2, <1>3

\* The third: a page of its events, and a cursor or the end.
LEMMA ReadEventsKeepsInvariant ==
  ASSUME IInv, NEW r \in Reader, ReadEvents(r)
  PROVE  IInv'
<1> DEFINE hash == HashAt(request[r].seen, reader[r].height)
           position == reader[r].cursor.position
           all == EventsOf(hash)
           rest == SubSeq(all, position + 1, Len(all))
           page == SubSeq(rest, 1, Limit)
           more == [reader[r] EXCEPT
                      !.got = @ \o page, !.blockHash = hash, !.checkpoint = request[r].seen,
                      !.cursor = [hash |-> hash, position |-> Last(page)[2]],
                      !.status = "paging"]
           done == [reader[r] EXCEPT
                      !.got = @ \o rest, !.blockHash = hash, !.checkpoint = request[r].seen,
                      !.cursor = NoCursor, !.status = "complete"]
<1>1. /\ request \in [Reader -> RequestState] /\ request[r] \in RequestState
      /\ reader \in [Reader -> ReaderState] /\ reader[r] \in ReaderState
      /\ ReaderSound(reader[r]) /\ RequestSound(request[r], reader[r])
      /\ request[r].step = "events" /\ reader[r].status = "paging"
      /\ Limit \in Nat \ {0}
  BY ReaderIsTyped, BlockEventsAssumption DEF ReadEvents, RequestSound
<1>2. /\ request[r].seen \in Branch /\ reader[r].height \in Nat
      /\ reader[r].height \in Heights
      /\ request[r].blockHash = hash
      /\ CursorFits(reader[r].cursor, hash)
  BY <1>1, ReadinessAssumption DEF RequestState, ReaderState, Heights, RequestSound
<1>3. hash \in HashOrNull /\ (hash # None => IsPrefix(hash, request[r].seen))
  BY <1>2, HashAtIsOfBranch
<1>4. Ended(r) /\ reader' = [reader EXCEPT ![r] = IF Len(rest) > Limit THEN more ELSE done]
  <2>1. CASE Len(rest) > Limit
    BY <1>1, <1>2, <2>1 DEF ReadEvents, SeenBy, HasMore, ReaderState
  <2>2. CASE ~(Len(rest) > Limit)
    BY <1>1, <1>2, <2>2 DEF ReadEvents, SeenBy, HasMore, ReaderState
  <2> QED
    BY <2>1, <2>2
<1> HIDE DEF hash
<1>5. /\ all \in Seq(Event) /\ Len(all) \in Nat
      /\ \A k \in 1 .. Len(all) : all[k] = <<hash, k>>
      /\ position \in 0 .. Len(all)
      /\ reader[r].got = SubSeq(all, 1, position)
  BY <1>1, <1>2, <1>3, EventsAreNumbered, GotUpToCursor, LenProperties
<1> HIDE DEF all, position
<1>6. /\ Len(rest) = Len(all) - position
      /\ reader[r].got \o rest = all
      /\ Len(rest) > Limit => /\ reader[r].got \o page = SubSeq(all, 1, position + Limit)
                              /\ Last(page) = all[position + Limit]
  <2>1. \A a \in Seq(Event) : \A p \in 0 .. Len(a) :
          /\ Len(SubSeq(a, p + 1, Len(a))) = Len(a) - p
          /\ SubSeq(a, 1, p) \o SubSeq(a, p + 1, Len(a)) = a
          /\ Len(a) - p > Limit =>
               /\ SubSeq(a, 1, p) \o SubSeq(SubSeq(a, p + 1, Len(a)), 1, Limit)
                    = SubSeq(a, 1, p + Limit)
               /\ Last(SubSeq(SubSeq(a, p + 1, Len(a)), 1, Limit)) = a[p + Limit]
    BY <1>1, PagesJoin
  <2>2. /\ Len(rest) = Len(all) - position
        /\ SubSeq(all, 1, position) \o rest = all
        /\ Len(all) - position > Limit =>
             /\ SubSeq(all, 1, position) \o page = SubSeq(all, 1, position + Limit)
             /\ Last(page) = all[position + Limit]
    BY <1>5, <2>1, Zenon
  <2> HIDE DEF rest, page
  <2> QED
    BY <1>5, <2>2
<1> HIDE DEF rest, page
<1>7. CASE Len(rest) > Limit
  <2> DEFINE upto == position + Limit
  <2>1. upto \in 1 .. Len(all) /\ upto \in Nat
    BY <1>1, <1>5, <1>6, <1>7
  <2> HIDE DEF upto
  <2>2. Last(page) = all[upto] /\ all[upto] = <<hash, upto>>
    BY <1>5, <1>6, <1>7, <2>1 DEF upto
  <2>3. Last(page)[2] = upto
    BY <2>2
  <2>4. Len(all) # 0
    BY <1>5, <2>1
  <2>5. /\ hash # None /\ hash \in Branch \ {<<>>}
        /\ Len(all) = Events[Last(hash)]
    BY <1>3, <2>4, EventsAreNumbered DEF HashOrNull, all
  <2>6. SubSeq(all, 1, upto) \in Seq(Event)
    <3>1. \A k \in 1 .. upto : all[k] \in Event
      BY <1>5, <2>1, ElementOfSeq
    <3> QED
      BY <2>1, <3>1, SubSeqProperties
  <2>7. /\ more.got = SubSeq(all, 1, upto)
        /\ more.blockHash = hash /\ more.checkpoint = request[r].seen
        /\ more.cursor = [hash |-> hash, position |-> upto]
        /\ more.status = "paging" /\ more.height = reader[r].height
    BY <1>1, <1>6, <1>7, <2>3 DEF ReaderState, upto
  <2>8. more \in ReaderState
    BY <1>1, <1>2, <1>3, <1>6, <1>7, <2>1, <2>3, <2>6 DEF ReaderState, upto
  <2> HIDE DEF more
  <2>9. more.cursor # NoCursor /\ more.cursor.hash = hash /\ more.cursor.position = upto
    BY <2>1, <2>7 DEF NoCursor
  <2>10. ReaderSound(more)
    BY <1>3, <2>1, <2>5, <2>7, <2>9 DEF ReaderSound, IsCursor, all
  <2> QED
    BY <1>4, <1>7, <2>8, <2>10, EndKeepsInvariant
<1>8. CASE ~(Len(rest) > Limit)
  <2>1. /\ done.got = all
        /\ done.blockHash = hash /\ done.checkpoint = request[r].seen
        /\ done.cursor = NoCursor
        /\ done.status = "complete" /\ done.height = reader[r].height
    BY <1>1, <1>6 DEF ReaderState
  <2>2. NoCursor \in [hash : HashOrNull, position : Nat]
    BY DEF NoCursor, HashOrNull
  <2>3. done \in ReaderState
    BY <1>1, <1>2, <1>3, <1>5, <1>6, <2>2 DEF ReaderState
  <2> HIDE DEF done
  <2>4. ReaderSound(done)
    BY <1>3, <2>1 DEF ReaderSound, IsCursor, all, hash
  <2> QED
    BY <1>4, <1>8, <2>3, <2>4, EndKeepsInvariant
<1> QED
  BY <1>7, <1>8

\* The process dies; the readers ask again.
LEMMA RestartKeepsInvariant ==
  ASSUME IInv, Restart
  PROVE  IInv'
<1>1. ReadinessTypeOK'
  BY ProbesAreTyped DEF IInv, Restart, ReadinessTypeOK
<1>2. /\ request' \in [Reader -> RequestState]
      /\ \A o \in Reader : request'[o] = NoRequest /\ probe'[o] = NoProbe
      /\ reader' = reader
  BY BlankIsSound DEF Restart
<1>3. /\ reader' \in [Reader -> ReaderState]
      /\ \A o \in Reader : /\ ReaderSound(reader'[o])
                            /\ RequestSound(request'[o], reader'[o])
  BY <1>2, BlankIsSound DEF IInv, RequestSound
<1>4. \A o \in Reader : ProbeSound(o)'
  BY <1>2, ProbesAreTyped DEF ProbeSound
<1> QED
  BY <1>1, <1>2, <1>3, <1>4
  DEF IInv, ReaderSound, RequestSound, IsCursor, NoCursor, EventsOf, HashAt, CursorFits

\* Nobody asks at the start.
LEMMA InitSound ==
  Init => IInv
<1> SUFFICES ASSUME Init PROVE IInv
  OBVIOUS
<1>1. ReadinessTypeOK
  BY SourcesStartTyped DEF Init
<1>2. \A o \in Reader : probe[o] = NoProbe /\ request[o] = NoRequest /\ reader[o] = NewReader
  BY DEF Init, ReadinessInit
<1>3. NewReader \in ReaderState
  BY EmptyIsBranch, EmptySeq, ReadinessAssumption
  DEF NewReader, ReaderState, NoCursor, HashOrNull, Heights
<1>4. ReaderSound(NewReader) /\ RequestSound(NoRequest, NewReader)
  BY DEF NewReader, ReaderSound, RequestSound, IsCursor, NoRequest
<1>5. request \in [Reader -> RequestState] /\ reader \in [Reader -> ReaderState]
  BY <1>3, BlankIsSound DEF Init
<1>6. \A o \in Reader : ProbeSound(o)
  BY <1>2, ProbesAreTyped DEF ProbeSound
<1> QED
  BY <1>1, <1>2, <1>4, <1>5, <1>6 DEF IInv

\* Every step keeps the invariant.
LEMMA NextKeepsInvariant ==
  IInv /\ [Next]_vars => IInv'
<1> SUFFICES ASSUME IInv, [Next]_vars PROVE IInv'
  OBVIOUS
<1>1. CASE SourcesMove /\ UNCHANGED <<probe, request, reader>>
  BY <1>1, SourcesKeepInvariant
<1>2. ASSUME NEW r \in Reader, NEW h \in Heights, AskBlock(r, h)
      PROVE  IInv'
  BY <1>2, AskBlockKeepsInvariant
<1>3. ASSUME NEW r \in Reader, AskNext(r)
      PROVE  IInv'
  BY <1>3, AskNextKeepsInvariant
<1>4. ASSUME NEW r \in Reader, Serve(r)
      PROVE  IInv'
  BY <1>4, RequestProbesKeepsInvariant, RequestFailsKeepsInvariant, ReadyKeepsInvariant,
     ReadCheckpointKeepsInvariant, ReadBlockKeepsInvariant, ReadEventsKeepsInvariant
  DEF Serve
<1>5. CASE Restart
  BY <1>5, RestartKeepsInvariant
<1>6. CASE UNCHANGED vars
  <2>1. UNCHANGED readinessVars /\ UNCHANGED <<request, reader>>
    BY <1>6 DEF vars
  <2>2. ReadinessTypeOK' /\ \A o \in Reader : ProbeSound(o)'
    BY <2>1 DEF IInv, readinessVars, ReadinessTypeOK, ProbeSound
  <2> QED
    BY <2>1, <2>2, ReadersStay
<1> QED
  BY <1>1, <1>2, <1>3, <1>4, <1>5, <1>6 DEF Next

-----------------------------------------------------------------------------
(***************************************************************************)
(* The tables that are read.                                               *)
(***************************************************************************)
\* Of the steps here, only those of the sync loop change the tables.
LEMMA TablesMoveWithSources ==
  ASSUME Next
  PROVE  SourcesMove \/ UNCHANGED tables
<1>1. ASSUME NEW r \in Reader, Ended(r)
      PROVE  UNCHANGED tables
  BY <1>1 DEF Ended, sourceVars
<1>2. CASE \E r \in Reader : AskNext(r) \/ \E h \in Heights : AskBlock(r, h)
  <2>1. PICK r \in Reader : Send(r)
    BY <1>2, Zenon DEF AskNext, AskBlock
  <2> QED
    BY <2>1 DEF Send, sourceVars
<1>3. CASE \E r \in Reader : RequestProbes(r)
  BY <1>3 DEF RequestProbes, ProbeStep, ProbeTip, ProbeCheckpoint, ProbeNode,
              ProbeFails, sourceVars
<1>4. CASE \E r \in Reader : RequestFails(r) \/ ReadEvents(r)
  <2>1. PICK r \in Reader : RequestFails(r) \/ ReadEvents(r)
    BY <1>4
  <2>2. RequestFails(r) => Ended(r)
    BY DEF RequestFails
  <2>3. ReadEvents(r) => Ended(r)
    BY Zenon DEF ReadEvents
  <2> QED
    BY <1>1, <2>1, <2>2, <2>3
<1>5. CASE \E r \in Reader : Ready(r)
  BY <1>5 DEF Ready, sourceVars
<1>6. CASE \E r \in Reader : ReadCheckpoint(r) \/ ReadBlock(r)
  BY <1>1, <1>6 DEF ReadCheckpoint, ReadBlock, Reject, readinessVars
<1>7. CASE Restart
  BY <1>7 DEF Restart
<1> QED
  BY <1>2, <1>3, <1>4, <1>5, <1>6, <1>7 DEF Next, Serve

-----------------------------------------------------------------------------
(***************************************************************************)
(* The theorems.                                                           *)
(***************************************************************************)

\* The invariant holds in every state.
THEOREM BlockEventsInvariant == Spec => []IInv
<1>1. Init => IInv
  BY InitSound
<1>2. IInv /\ [Next]_vars => IInv'
  BY NextKeepsInvariant
<1> QED
  BY <1>1, <1>2, PTL DEF Spec

\* Requests and readers of BlockEventsService keep their types, and a cursor
\* points at an event of its block.
THEOREM BlockEventsTypeCorrect == Spec => []TypeOK
<1>1. IInv => TypeOK
  BY DEF IInv, TypeOK, RequestState, ReaderState, ReaderSound
<1> QED
  BY <1>1, BlockEventsInvariant, PTL

\* blockEvents and its cursor: a reader has got the events of one block, in order
\* and each once, all of them when it is told that there are no more.
THEOREM ReadersGetOneBlock == Spec => []EventsAreOfOneBlock
<1>1. IInv => EventsAreOfOneBlock
  BY DEF IInv, EventsAreOfOneBlock, ReaderSound
<1> QED
  BY <1>1, BlockEventsInvariant, PTL

\* Checkpoint and block of a page are of one branch, which has the height unless
\* the reader is told that it is not indexed.
THEOREM PagesAreUnderTheirCheckpoint == Spec => []PageIsUnderItsCheckpoint
<1>1. IInv => PageIsUnderItsCheckpoint
  BY DEF IInv, PageIsUnderItsCheckpoint, ReaderSound
<1> QED
  BY <1>1, BlockEventsInvariant, PTL

\* The tables that the statements of blockEvents see move as the store promises.
THEOREM EventsReadBlockStore == Spec => ReadsBlockStore
<1>1. Init => Store!Init
  BY SourcesStartAsStore DEF Init
<1>2. IInv /\ [Next]_vars => [Store!Next]_(Store!storeVars)
  <2> SUFFICES ASSUME IInv, [Next]_vars
               PROVE  Store!Next \/ UNCHANGED Store!storeVars
    OBVIOUS
  <2>1. SourcesTypeOK
    BY DEF IInv, ReadinessTypeOK, SourcesTypeOK
  <2>2. SourcesMove \/ UNCHANGED tables
    BY TablesMoveWithSources DEF vars, readinessVars
  <2> QED
    BY <2>1, <2>2, SourcesMoveAsStore
<1> QED
  BY <1>1, <1>2, BlockEventsInvariant, PTL DEF Spec, ReadsBlockStore, Store!Spec
=============================================================================
