------------------------ MODULE BrowserPlaybackProofs ------------------------
(***************************************************************************)
(* Proofs about the player, for any number of responses, chunks, messages  *)
(* and failures.  Neither OneVoice nor CompletedWasHeard is inductive.     *)
(* PlaybackInv adds what the queues between host, controller and player    *)
(* hold: each response is announced once and has no player before its      *)
(* announcement was worked off (Announcements), only the active part is    *)
(* live and whoever waits for a report has none (Voices), and the counts of *)
(* an end agree with what was sent, arrived and was played (Counts).       *)
(***************************************************************************)
EXTENDS BrowserPlayback, FiniteSetTheorems, SequenceTheorems, TLAPS

EventTypes ==
    {"none", "reasoning.started", "tts.started", "tts.ended", "audio",
     "response.failed", "response.cancelled", "vad.speech_start", "vad.speech_end",
     "barge_in.provisional", "barge_in.confirmed", "barge_in.rejected",
     "barge_in.timed_out", "interruption.accept", "interruption.resume"}
Maybe == Responses \cup {None}
Events == [type : EventTypes, r : Maybe, epoch : Int, at : Int, safe : BOOLEAN]
Reports ==
    [type : {"playback.paused", "playback.stopped", "turn.cancel"}, r : Maybe, at : Int]

HostState ==
    [epoch : Int, active : Maybe, made : 0..MaxResponses,
     stage : {"none", "reasoning", "playing", "ended"}, stream : Maybe,
     epochOf : [Responses -> Int], sent : [Responses -> Nat],
     closed : [Responses -> BOOLEAN], pause : {"none", "open", "checked"}, at : Int,
     pending : BOOLEAN, speaking : BOOLEAN, utterances : Int]

TransportState ==
    [latest : Maybe, refused : {"", "started", "failed", "cancelled", "ended", "audio"},
     bound : [Responses -> {"none", "live", "terminal"}], got : [Responses -> Nat]]

Players ==
    [player : {"none", "audible", "muted", "stopped"}, buffer : SUBSET Nat, played : Nat,
     total : Int, speechPause : Int, report : {"none", "storing", "done"},
     reason : {"", "completed", "cancelled", "failed", "stopped"}]

Pauses == [r : Maybe, at : Int, ready : BOOLEAN]
ControllerState ==
    [epoch : Int, active : Maybe, queue : Seq(Events), event : Events,
     step : {"idle", "storing", "pausing", "checkpointing", "reporting"},
     provisional : Pauses, deferred : Events,
     speaking : BOOLEAN, cancelling : Maybe, pausing : {"no", "muted", "silent"},
     stopped : BOOLEAN, degraded : BOOLEAN]

PlaybackTypes(h, d, u, t, p, c) ==
    /\ h \in HostState
    /\ d \in Seq(Events) /\ u \in Seq(Reports)
    /\ t \in TransportState
    /\ p \in [Responses -> Players]
    /\ c \in ControllerState

\* the responses that a sequence of events announces
Announces(e) == e.type = "tts.started"
Announced(s) == {s[i].r : i \in {j \in 1..Len(s) : Announces(s[j])}}
Once(s) ==
    \A i, j \in 1..Len(s) :
        Announces(s[i]) /\ Announces(s[j]) /\ s[i].r = s[j].r => i = j

\* the end of a stream, and the events that are neither
Ends(e) == e.type = "tts.ended"
Quiet(e) == ~Announces(e) /\ ~Ends(e)
QuietEvents == {e \in Events : Quiet(e)}

\* the host has yet to announce r
Unannounced(h, r) == r > h.made \/ (h.active = r /\ h.stage = "reasoning")

HostOk(h) ==
    /\ h.stage # "none" => h.active # None
    /\ h.active <= h.made
    /\ h.stream <= h.made

\* a response is announced once, and has no player before its announcement is worked off
Announcements(h, d, p, c) ==
    /\ HostOk(h)
    /\ Once(d)
    /\ Once(c.queue)
    /\ Announced(d) \cap Announced(c.queue) = {}
    /\ \A r \in Announced(d) \cup Announced(c.queue) :
          r \in Responses /\ ~Unannounced(h, r) /\ p[r].player = "none"
    /\ \A r \in Responses : Unannounced(h, r) => p[r].player = "none"
    /\ \A i \in 1..Len(d) : d[i].safe => Quiet(d[i])
    /\ \A i \in 1..Len(c.queue) : c.queue[i].safe => Quiet(c.queue[i])
    /\ Quiet(c.deferred)
    /\ c.step \in {"storing", "reporting"} /\ Announces(c.event) =>
          /\ c.event.r \in Responses
          /\ c.event.r \notin Announced(d)
          /\ c.event.r \notin Announced(c.queue)
          /\ ~Unannounced(h, c.event.r)
          /\ p[c.event.r].player = "none"
    /\ c.step \in {"pausing", "checkpointing"} => ~Announces(c.event)

\* only the active part has a live player; who waits for a report has none
Voices(p, c) ==
    /\ \A r \in Responses : Live(p[r]) => c.active = r
    /\ \A r \in Responses : p[r].report = "storing" => p[r].player = "stopped"
    /\ c.step = "reporting" /\ c.active # None => ~Live(p[c.active])

\* a stream that is over: what was sent of it is sent, and nothing follows
OverAt(h, r, n) ==
    /\ r \in Responses
    /\ ~Unannounced(h, r)
    /\ n = h.sent[r]
    /\ h.stream # r
CountedAt(h, t, r, n) ==
    /\ OverAt(h, r, n)
    /\ t.bound[r] = "terminal"
    /\ n = t.got[r]

Counted(h, d, t, p, r) ==
    /\ t.bound[r] # "none" => r \notin Announced(d) /\ ~Unannounced(h, r)
    /\ p.played <= t.got[r]
    /\ \A k \in p.buffer : k < t.got[r]
    /\ p.total >= 0 => CountedAt(h, t, r, p.total)
    /\ p.reason = "completed" => p.total >= 0 /\ p.played = p.total /\ p.player = "stopped"
    /\ p.player = "none" => p.reason = ""

\* an end on its way tells the count, and so does every total the browser has
Counts(h, d, t, p, c) ==
    /\ \A r \in Responses : Counted(h, d, t, p[r], r)
    /\ \A i \in 1..Len(d) : Ends(d[i]) => OverAt(h, d[i].r, d[i].at)
    /\ \A i \in 1..Len(c.queue) : Ends(c.queue[i]) => CountedAt(h, t, c.queue[i].r, c.queue[i].at)
    /\ c.step = "storing" /\ Ends(c.event) => CountedAt(h, t, c.event.r, c.event.at)

PlaybackInv(h, d, u, t, p, c) ==
    /\ PlaybackTypes(h, d, u, t, p, c)
    /\ Announcements(h, d, p, c)
    /\ Voices(p, c)
    /\ Counts(h, d, t, p, c)

-----------------------------------------------------------------------------
(* Announcements in sequences of events.                                   *)

LEMMA AnnouncedIn ==
    ASSUME NEW s \in Seq(Events), NEW i \in 1..Len(s), Announces(s[i])
    PROVE  s[i].r \in Announced(s)
  BY DEF Announced

LEMMA AnnouncedAt ==
    ASSUME NEW s \in Seq(Events), NEW r \in Announced(s)
    PROVE  \E i \in 1..Len(s) : Announces(s[i]) /\ s[i].r = r
  BY DEF Announced

LEMMA TailAnnounces ==
    ASSUME NEW s \in Seq(Events), s # <<>>
    PROVE  /\ Head(s) \in Events /\ Tail(s) \in Seq(Events)
           /\ \A i \in 1..Len(Tail(s)) : i + 1 \in 1..Len(s) /\ Tail(s)[i] = s[i + 1]
           /\ 1 \in 1..Len(s) /\ Head(s) = s[1]
           /\ Announced(Tail(s)) \subseteq Announced(s)
           /\ Announces(Head(s)) => Head(s).r \in Announced(s)
           /\ Once(s) => Once(Tail(s))
           /\ Once(s) /\ Announces(Head(s)) => Head(s).r \notin Announced(Tail(s))
<1>1. /\ Head(s) \in Events /\ Tail(s) \in Seq(Events)
      /\ \A i \in 1..Len(Tail(s)) : i + 1 \in 1..Len(s) /\ Tail(s)[i] = s[i + 1]
      /\ 1 \in 1..Len(s) /\ Head(s) = s[1]
      /\ Len(s) \in Nat /\ Len(Tail(s)) \in Nat
  BY HeadTailProperties
<1> DEFINE t == Tail(s)
<1> HIDE DEF t
<1>2. /\ t \in Seq(Events) /\ Len(t) \in Nat
      /\ \A i \in 1..Len(t) : i + 1 \in 1..Len(s) /\ t[i] = s[i + 1]
  BY <1>1 DEF t
<1>3. ASSUME NEW r \in Announced(t) PROVE r \in Announced(s)
  <2>1. PICK i \in 1..Len(t) : Announces(t[i]) /\ t[i].r = r
    BY <1>2, <1>3, AnnouncedAt
  <2>2. i + 1 \in 1..Len(s) /\ Announces(s[i + 1]) /\ s[i + 1].r = r
    BY <1>2, <2>1
  <2> QED BY <2>2, AnnouncedIn
<1>4. Announces(Head(s)) => Head(s).r \in Announced(s)
  BY <1>1, AnnouncedIn
<1>5. ASSUME Once(s) PROVE Once(t)
  <2> SUFFICES ASSUME NEW i \in 1..Len(t), NEW j \in 1..Len(t), Announces(t[i]), Announces(t[j]),
                      t[i].r = t[j].r
               PROVE  i = j
    BY DEF Once
  <2>1. /\ i + 1 \in 1..Len(s) /\ j + 1 \in 1..Len(s)
        /\ t[i] = s[i + 1] /\ t[j] = s[j + 1]
    BY <1>2
  <2>2. i + 1 = j + 1
    BY <1>5, <2>1 DEF Once
  <2> QED BY <1>2, <2>2
<1>6. ASSUME Once(s), Announces(Head(s)) PROVE Head(s).r \notin Announced(t)
  <2> SUFFICES ASSUME Head(s).r \in Announced(t) PROVE FALSE
    OBVIOUS
  <2>1. PICK i \in 1..Len(t) : Announces(t[i]) /\ t[i].r = Head(s).r
    BY <1>2, AnnouncedAt
  <2>2. i + 1 \in 1..Len(s) /\ t[i] = s[i + 1]
    BY <1>2
  <2>3. i + 1 = 1
    BY <1>1, <1>6, <2>1, <2>2 DEF Once
  <2> QED BY <1>2, <2>3
<1> QED BY <1>1, <1>3, <1>4, <1>5, <1>6 DEF t

LEMMA ConcatAnnounces ==
    ASSUME NEW s \in Seq(Events), NEW t \in Seq(Events)
    PROVE  /\ s \o t \in Seq(Events)
           /\ Announced(s \o t) = Announced(s) \cup Announced(t)
           /\ Once(s) /\ Once(t) /\ Announced(s) \cap Announced(t) = {} => Once(s \o t)
           /\ \A i \in 1..Len(s \o t) :
                 \/ i \in 1..Len(s) /\ (s \o t)[i] = s[i]
                 \/ i - Len(s) \in 1..Len(t) /\ (s \o t)[i] = t[i - Len(s)]
<1> DEFINE u == s \o t
<1>1. /\ u \in Seq(Events) /\ Len(u) = Len(s) + Len(t)
      /\ Len(s) \in Nat /\ Len(t) \in Nat
      /\ \A i \in 1..Len(u) : u[i] = IF i <= Len(s) THEN s[i] ELSE t[i - Len(s)]
  BY ConcatProperties
<1> HIDE DEF u
<1>2. ASSUME NEW i \in 1..Len(u)
      PROVE  \/ i \in 1..Len(s) /\ u[i] = s[i]
             \/ i - Len(s) \in 1..Len(t) /\ u[i] = t[i - Len(s)]
  BY <1>1
<1>3. ASSUME NEW r \in Announced(u) PROVE r \in Announced(s) \cup Announced(t)
  <2>1. PICK i \in 1..Len(u) : Announces(u[i]) /\ u[i].r = r
    BY <1>1, <1>3, AnnouncedAt
  <2>2. CASE i \in 1..Len(s) /\ u[i] = s[i]
    BY <2>1, <2>2, AnnouncedIn
  <2>3. CASE i - Len(s) \in 1..Len(t) /\ u[i] = t[i - Len(s)]
    BY <2>1, <2>3, AnnouncedIn
  <2> QED BY <1>2, <2>2, <2>3
<1>4. ASSUME NEW r \in Announced(s) PROVE r \in Announced(u)
  <2>1. PICK i \in 1..Len(s) : Announces(s[i]) /\ s[i].r = r
    BY <1>4, AnnouncedAt
  <2>2. i \in 1..Len(u) /\ u[i] = s[i]
    BY <1>1
  <2> QED BY <1>1, <2>1, <2>2, AnnouncedIn
<1>5. ASSUME NEW r \in Announced(t) PROVE r \in Announced(u)
  <2>1. PICK i \in 1..Len(t) : Announces(t[i]) /\ t[i].r = r
    BY <1>5, AnnouncedAt
  <2> DEFINE k == i + Len(s)
  <2>a. k \in 1..Len(u) /\ ~(k <= Len(s)) /\ k - Len(s) = i
    BY <1>1
  <2> HIDE DEF k
  <2>2. k \in 1..Len(u) /\ u[k] = t[i]
    BY <1>1, <2>a
  <2> QED BY <1>1, <2>1, <2>2, AnnouncedIn
<1>6. ASSUME Once(s), Once(t), Announced(s) \cap Announced(t) = {} PROVE Once(u)
  <2> SUFFICES ASSUME NEW i \in 1..Len(u), NEW j \in 1..Len(u), Announces(u[i]), Announces(u[j]),
                      u[i].r = u[j].r
               PROVE  i = j
    BY DEF Once
  <2>1. CASE i \in 1..Len(s) /\ u[i] = s[i] /\ j \in 1..Len(s) /\ u[j] = s[j]
    BY <1>6, <2>1 DEF Once
  <2>2. CASE /\ i - Len(s) \in 1..Len(t) /\ u[i] = t[i - Len(s)]
             /\ j - Len(s) \in 1..Len(t) /\ u[j] = t[j - Len(s)]
    <3>1. i - Len(s) = j - Len(s)
      BY <1>6, <2>2 DEF Once
    <3> QED BY <1>1, <3>1
  <2>3. CASE /\ i \in 1..Len(s) /\ u[i] = s[i]
             /\ j - Len(s) \in 1..Len(t) /\ u[j] = t[j - Len(s)]
    <3>1. u[i].r \in Announced(s) /\ u[j].r \in Announced(t)
      BY <2>3, AnnouncedIn
    <3> QED BY <1>6, <3>1
  <2>4. CASE /\ j \in 1..Len(s) /\ u[j] = s[j]
             /\ i - Len(s) \in 1..Len(t) /\ u[i] = t[i - Len(s)]
    <3>1. u[j].r \in Announced(s) /\ u[i].r \in Announced(t)
      BY <2>4, AnnouncedIn
    <3> QED BY <1>6, <3>1
  <2> QED BY <1>2, <2>1, <2>2, <2>3, <2>4
<1> QED BY <1>1, <1>2, <1>3, <1>4, <1>5, <1>6 DEF u

LEMMA OneAnnounces ==
    ASSUME NEW e \in Events
    PROVE  /\ <<e>> \in Seq(Events) /\ Once(<<e>>)
           /\ Announces(e) => Announced(<<e>>) = {e.r}
           /\ ~Announces(e) => Announced(<<e>>) = {}
           /\ \A i \in 1..Len(<<e>>) : <<e>>[i] = e
<1> DEFINE s == <<e>>
<1>1. s \in Seq(Events) /\ Len(s) = 1 /\ s[1] = e
  OBVIOUS
<1> HIDE DEF s
<1>2. \A i \in 1..Len(s) : i = 1 /\ s[i] = e
  BY <1>1
<1>3. Once(s)
  BY <1>2 DEF Once
<1>4. Announces(e) => e.r \in Announced(s)
  <2>1. 1 \in 1..Len(s)
    BY <1>1
  <2> QED BY <1>1, <2>1, AnnouncedIn
<1>5. ASSUME NEW r \in Announced(s) PROVE Announces(e) /\ r = e.r
  <2>1. PICK i \in 1..Len(s) : Announces(s[i]) /\ s[i].r = r
    BY <1>1, AnnouncedAt
  <2> QED BY <1>2, <2>1
<1> QED BY <1>1, <1>2, <1>3, <1>4, <1>5 DEF s

\* appended to a queue
LEMMA AppendAnnounces ==
    ASSUME NEW s \in Seq(Events), NEW e \in Events
    PROVE  /\ Append(s, e) \in Seq(Events)
           /\ Announces(e) => Announced(Append(s, e)) = Announced(s) \cup {e.r}
           /\ ~Announces(e) => Announced(Append(s, e)) = Announced(s)
           /\ Once(s) /\ (Announces(e) => e.r \notin Announced(s)) => Once(Append(s, e))
           /\ \A i \in 1..Len(Append(s, e)) :
                 \/ i \in 1..Len(s) /\ Append(s, e)[i] = s[i]
                 \/ Append(s, e)[i] = e
<1> DEFINE t == <<e>>
<1>1. Append(s, e) = s \o t
  OBVIOUS
<1>2. /\ t \in Seq(Events) /\ Once(t)
      /\ Announces(e) => Announced(t) = {e.r}
      /\ ~Announces(e) => Announced(t) = {}
      /\ \A i \in 1..Len(t) : t[i] = e
  BY OneAnnounces
<1> HIDE DEF t
<1>3. /\ s \o t \in Seq(Events)
      /\ Announced(s \o t) = Announced(s) \cup Announced(t)
      /\ Once(s) /\ Once(t) /\ Announced(s) \cap Announced(t) = {} => Once(s \o t)
      /\ \A i \in 1..Len(s \o t) :
            \/ i \in 1..Len(s) /\ (s \o t)[i] = s[i]
            \/ i - Len(s) \in 1..Len(t) /\ (s \o t)[i] = t[i - Len(s)]
  BY <1>2, ConcatAnnounces
<1> QED BY <1>1, <1>2, <1>3

-----------------------------------------------------------------------------
(* The host.                                                               *)

LEMMA QuietSeqs ==
    ASSUME NEW e \in QuietEvents, NEW f \in QuietEvents
    PROVE  /\ <<>> \in Seq(QuietEvents)
           /\ <<e>> \in Seq(QuietEvents)
           /\ <<e, f>> \in Seq(QuietEvents)
<1> DEFINE Q == QuietEvents
<1> HIDE DEF Q
<1>1. e \in Q /\ f \in Q
  BY DEF Q
<1>2. <<>> \in Seq(Q) /\ <<e>> \in Seq(Q) /\ <<e, f>> \in Seq(Q)
  BY <1>1
<1> QED BY <1>2 DEF Q

LEMMA QuietEmpty == <<>> \in Seq(QuietEvents)
<1> DEFINE Q == QuietEvents
<1> HIDE DEF Q
<1>1. <<>> \in Seq(Q)
  OBVIOUS
<1> QED BY <1>1 DEF Q

LEMMA QuietConcat ==
    ASSUME NEW s \in Seq(QuietEvents), NEW t \in Seq(QuietEvents)
    PROVE  s \o t \in Seq(QuietEvents)
  BY ConcatProperties

LEMMA QuietAnnounces ==
    ASSUME NEW s \in Seq(QuietEvents)
    PROVE  /\ s \in Seq(Events) /\ Announced(s) = {} /\ Once(s)
           /\ \A i \in 1..Len(s) : Quiet(s[i])
<1>1. QuietEvents \subseteq Events
  BY DEF QuietEvents
<1>2. s \in Seq(Events)
  BY <1>1, SeqMonotonic
<1>3. \A i \in 1..Len(s) : s[i] \in QuietEvents
  BY ElementOfSeq
<1>4. \A i \in 1..Len(s) : Quiet(s[i])
  BY <1>3 DEF QuietEvents
<1>5. \A r \in Announced(s) : FALSE
  BY <1>2, <1>4, AnnouncedAt DEF Quiet
<1>6. Once(s)
  BY <1>4 DEF Once, Quiet
<1> QED BY <1>2, <1>4, <1>5, <1>6

LEMMA EventIs ==
    ASSUME NEW h \in HostState, NEW type \in EventTypes, NEW r \in Maybe
    PROVE  /\ Event(h, type, r) \in Events
           /\ Event(h, type, r).type = type
           /\ Event(h, type, r).r = r
           /\ ~Event(h, type, r).safe
           /\ type \notin {"tts.started", "tts.ended"} => Event(h, type, r) \in QuietEvents
  BY DEF Event, Events, HostState, QuietEvents, Quiet, Announces, Ends

LEMMA SafeIs ==
    ASSUME NEW e \in QuietEvents
    PROVE  Safe(e) \in QuietEvents
  BY DEF Safe, Events, QuietEvents, Quiet, Announces, Ends

\* what a step that neither announces nor ends a stream does to the host
HostFollows(h, g) ==
    /\ g \in HostState
    /\ HostOk(g)
    /\ \A r \in Responses : Unannounced(g, r) => Unannounced(h, r)
    /\ \A r \in Responses : g.sent[r] # h.sent[r] => h.stream = r
    /\ \A r \in Responses : g.stream = r => h.stream = r \/ Unannounced(h, r)

LEMMA OverFollows ==
    ASSUME NEW h, NEW g, HostFollows(h, g), NEW r, NEW n, OverAt(h, r, n)
    PROVE  OverAt(g, r, n)
  BY DEF HostFollows, OverAt

LEMMA FollowKeeps ==
    ASSUME NEW h, NEW d, NEW u, NEW t, NEW p, NEW c, PlaybackInv(h, d, u, t, p, c),
           NEW g, HostFollows(h, g), NEW v \in Seq(Reports),
           NEW es \in Seq(QuietEvents)
    PROVE  PlaybackInv(g, d \o es, v, t, p, c)
<1>1. /\ es \in Seq(Events) /\ Announced(es) = {} /\ Once(es)
      /\ \A i \in 1..Len(es) : Quiet(es[i])
  BY QuietAnnounces
<1>2. d \in Seq(Events)
  BY DEF PlaybackInv, PlaybackTypes
<1> DEFINE b == d \o es
<1>3. /\ b \in Seq(Events)
      /\ Announced(b) = Announced(d)
      /\ Once(d) => Once(b)
      /\ \A i \in 1..Len(b) :
            \/ i \in 1..Len(d) /\ b[i] = d[i]
            \/ i - Len(d) \in 1..Len(es) /\ b[i] = es[i - Len(d)]
  <2>1. /\ b \in Seq(Events)
        /\ Announced(b) = Announced(d) \cup Announced(es)
        /\ Once(d) /\ Once(es) /\ Announced(d) \cap Announced(es) = {} => Once(b)
        /\ \A i \in 1..Len(b) :
              \/ i \in 1..Len(d) /\ b[i] = d[i]
              \/ i - Len(d) \in 1..Len(es) /\ b[i] = es[i - Len(d)]
    BY <1>1, <1>2, ConcatAnnounces
  <2> QED BY <1>1, <2>1
<1> HIDE DEF b
<1>4. PlaybackTypes(g, b, v, t, p, c)
  BY <1>3 DEF PlaybackInv, PlaybackTypes, HostFollows
<1>5. Announcements(g, b, p, c)
  <2> USE DEF PlaybackInv, Announcements
  <2>1. HostOk(g) /\ \A r \in Responses : Unannounced(g, r) => Unannounced(h, r)
    BY DEF HostFollows
  <2>2. \A i \in 1..Len(b) : b[i].safe => Quiet(b[i])
    BY <1>1, <1>3
  <2> QED BY <1>3, <2>1, <2>2
<1>6. Voices(p, c)
  BY DEF PlaybackInv
<1>7. Counts(g, b, t, p, c)
  <2> USE DEF PlaybackInv
  <2>1. ASSUME NEW r \in Responses PROVE Counted(g, b, t, p[r], r)
    <3>1. Counted(h, d, t, p[r], r)
      BY DEF Counts
    <3>2. Unannounced(g, r) => Unannounced(h, r)
      BY DEF HostFollows
    <3> QED BY <1>3, <3>1, <3>2, OverFollows DEF Counted, CountedAt
  <2>2. ASSUME NEW i \in 1..Len(b), Ends(b[i]) PROVE OverAt(g, b[i].r, b[i].at)
    <3>1. i \in 1..Len(d) /\ b[i] = d[i]
      BY <1>1, <1>3, <2>2 DEF Quiet
    <3> QED BY <2>2, <3>1, OverFollows DEF Counts
  <2> QED BY <2>1, <2>2, OverFollows DEF Counts, CountedAt
<1> QED BY <1>4, <1>5, <1>6, <1>7 DEF b, PlaybackInv

LEMMA FollowsSelf ==
    ASSUME NEW h \in HostState, HostOk(h) PROVE HostFollows(h, h)
  BY DEF HostFollows

LEMMA CancelledFollows ==
    ASSUME NEW h \in HostState, HostOk(h)
    PROVE  /\ Cancelled(h) \in HostState
           /\ HostFollows(h, Cancelled(h))
           /\ Cancelled(h).active = None /\ Cancelled(h).pause = "none"
           /\ Cancelled(h).made = h.made /\ Cancelled(h).sent = h.sent
           /\ Cancelled(h).stream = None /\ Cancelled(h).stage = "none"
<1>1. PICK n \in Int : n = h.epoch + 1
  BY DEF HostState
<1>2. Cancelled(h) = [h EXCEPT !.epoch = n, !.active = None, !.stage = "none",
                              !.stream = None, !.pause = "none", !.pending = FALSE]
  BY <1>1 DEF Cancelled
<1> DEFINE g == [h EXCEPT !.epoch = n, !.active = None, !.stage = "none",
                              !.stream = None, !.pause = "none", !.pending = FALSE]
<1>3. g \in HostState
  BY DEF HostState, Maybe
<1>4. /\ g.active = None /\ g.pause = "none" /\ g.made = h.made /\ g.sent = h.sent
      /\ g.stream = None /\ g.stage = "none"
  BY DEF HostState
<1> HIDE DEF g
<1>5. HostOk(g)
  BY <1>4 DEF HostOk, HostState, None
<1>6. HostFollows(h, g)
  BY <1>3, <1>4, <1>5 DEF HostFollows, Unannounced, None, Responses, HostState
<1> QED BY <1>2, <1>3, <1>4, <1>6 DEF g

LEMMA CancelEventsQuiet ==
    ASSUME NEW h \in HostState, HostOk(h)
    PROVE  CancelEvents(h) \in Seq(QuietEvents)
<1>1. Cancelled(h) \in HostState
  BY CancelledFollows
<1>2. h.active \in Maybe
  BY DEF HostState
<1>3. Event(Cancelled(h), "response.cancelled", h.active) \in QuietEvents
  BY <1>1, <1>2, EventIs DEF EventTypes
<1> QED BY <1>3, QuietEmpty, QuietSeqs DEF CancelEvents

LEMMA FieldsFollow ==
    ASSUME NEW h \in HostState, HostOk(h), NEW g \in HostState,
           g.made = h.made, g.sent = h.sent, g.stream = h.stream \/ g.stream = None,
           \/ g.active = h.active /\ g.stage = h.stage
           \/ g.active = None /\ g.stage = "none"
    PROVE  HostFollows(h, g)
<1>1. h.made \in Nat /\ h.stream \in Nat /\ h.active \in Nat
  BY DEF HostState, Maybe, Responses, None
<1>2. HostOk(g)
  BY <1>1 DEF HostOk, None
<1>3. \A r \in Responses : Unannounced(g, r) => Unannounced(h, r)
  BY DEF Unannounced
<1>4. \A r \in Responses : g.stream = r => h.stream = r
  BY DEF Responses, None
<1> QED BY <1>2, <1>3, <1>4 DEF HostFollows

\* the state of the player now
Playback == PlaybackInv(host, down, up, transport, part, ctl)

LEMMA SendsKeep ==
    ASSUME Playback, NEW g, HostFollows(host, g), NEW es \in Seq(QuietEvents),
           HostSends(g, es), up' \in Seq(Reports)
    PROVE  Playback'
<1>1. /\ host' = g /\ down' = down \o es
      /\ transport' = transport /\ part' = part /\ ctl' = ctl
  BY DEF HostSends
<1>2. PlaybackInv(g, down \o es, up', transport, part, ctl)
  BY FollowKeeps DEF Playback
<1> QED BY <1>1, <1>2 DEF Playback

LEMMA HostTyped ==
    ASSUME Playback
    PROVE  /\ host \in HostState /\ HostOk(host) /\ up \in Seq(Reports)
           /\ host.active \in Maybe /\ host.stream \in Maybe /\ host.made \in Nat
           /\ host.epoch \in Int
           /\ down \in Seq(Events) /\ transport \in TransportState
           /\ part \in [Responses -> Players] /\ ctl \in ControllerState
  BY DEF Playback, PlaybackInv, PlaybackTypes, Announcements, HostState

LEMMA StartKeeps ==
    ASSUME Playback, Start PROVE Playback'
<1> DEFINE r == host.made + 1
           h == [host EXCEPT !.made = r, !.active = r, !.stage = "reasoning",
                             !.stream = r, !.epochOf[r] = host.epoch]
<1>1. /\ r \in Responses /\ host.active = None
      /\ HostSends(h, <<Event(h, "reasoning.started", r)>>) /\ up' = up
  BY DEF Start
<1>2. host \in HostState /\ up \in Seq(Reports) /\ host.made \in Nat /\ host.epoch \in Int
  BY HostTyped
<1>3. r > host.made /\ r = host.made + 1
  BY <1>2
<1> HIDE DEF r
<1>4. r \in Maybe /\ r \in 0..MaxResponses /\ r # None /\ r \in Int
  BY <1>1 DEF Maybe, Responses, None
<1>5. [host.epochOf EXCEPT ![r] = host.epoch] \in [Responses -> Int]
  BY <1>1, <1>2 DEF HostState
<1>6. /\ h \in HostState
      /\ h.made = r /\ h.active = r /\ h.stage = "reasoning" /\ h.stream = r
      /\ h.sent = host.sent
  BY <1>2, <1>4, <1>5 DEF HostState
<1> HIDE DEF h
<1>7. HostOk(h)
  BY <1>4, <1>6 DEF HostOk
<1>8. HostFollows(host, h)
  BY <1>2, <1>3, <1>4, <1>6, <1>7 DEF HostFollows, Unannounced, Responses
<1>9. Event(h, "reasoning.started", r) \in QuietEvents
  BY <1>4, <1>6, EventIs DEF EventTypes
<1> QED BY <1>1, <1>2, <1>8, <1>9, QuietSeqs, SendsKeep

LEMMA SupersedeKeeps ==
    ASSUME Playback, Supersede PROVE Playback'
  BY HostTyped, CancelledFollows, CancelEventsQuiet, SendsKeep DEF Supersede

LEMMA StreamKeeps ==
    ASSUME Playback, Stream PROVE Playback'
<1> DEFINE r == host.stream
           h == [host EXCEPT !.sent[r] = @ + 1]
<1>1. /\ r # None
      /\ HostSends(h, <<Event(host, "audio", r)>>) /\ up' = up
  BY DEF Stream
<1>2. host \in HostState /\ HostOk(host) /\ up \in Seq(Reports) /\ r \in Maybe
  BY HostTyped
<1>3. r \in Responses
  BY <1>1, <1>2 DEF Maybe
<1>4. PICK n \in Nat : n = host.sent[r] + 1
  BY <1>2, <1>3 DEF HostState
<1> DEFINE s == [host.sent EXCEPT ![r] = n]
<1>5. h = [host EXCEPT !.sent = s]
  BY <1>4
<1>6. s \in [Responses -> Nat] /\ \A q \in Responses : s[q] # host.sent[q] => q = r
  BY <1>2, <1>3 DEF HostState
<1> HIDE DEF s
<1>7. /\ h \in HostState
      /\ h.made = host.made /\ h.active = host.active /\ h.stage = host.stage
      /\ h.stream = host.stream /\ h.sent = s
  BY <1>2, <1>5, <1>6 DEF HostState
<1> HIDE DEF h
<1>8. HostOk(h)
  BY <1>2, <1>7 DEF HostOk
<1>9. HostFollows(host, h)
  BY <1>6, <1>7, <1>8 DEF HostFollows, Unannounced
<1>10. Event(host, "audio", r) \in QuietEvents
  BY <1>2, EventIs DEF EventTypes
<1> QED BY <1>1, <1>2, <1>9, <1>10, QuietSeqs, SendsKeep

LEMMA FailKeeps ==
    ASSUME Playback, Fail PROVE Playback'
<1> DEFINE r == host.active
           cancel == Cancelled(host)
           back == [cancel EXCEPT !.epoch = host.epoch]
           after == IF host.pause = "none" THEN back ELSE cancel
           first == <<Event(host, "response.failed", r), Event(host, "response.cancelled", r)>>
           second == IF host.pause = "none" THEN <<>>
                     ELSE <<Event(after, "barge_in.rejected", r)>>
<1>1. HostSends(after, first \o second) /\ up' = up
  BY DEF Fail
<1>2. host \in HostState /\ HostOk(host) /\ up \in Seq(Reports) /\ r \in Maybe /\ host.epoch \in Int
  BY HostTyped
<1>3. /\ cancel \in HostState /\ HostFollows(host, cancel)
      /\ cancel.active = None /\ cancel.made = host.made /\ cancel.sent = host.sent
      /\ cancel.stream = None /\ cancel.stage = "none"
  BY <1>2, CancelledFollows
<1> HIDE DEF cancel
<1>4. /\ back \in HostState
      /\ back.active = None /\ back.made = host.made /\ back.sent = host.sent
      /\ back.stream = None /\ back.stage = "none"
  BY <1>2, <1>3 DEF HostState
<1> HIDE DEF back
<1>5. HostFollows(host, back)
  BY <1>2, <1>4, FieldsFollow
<1>6. after \in HostState /\ HostFollows(host, after)
  BY <1>3, <1>4, <1>5
<1> HIDE DEF after
<1>7. /\ Event(host, "response.failed", r) \in QuietEvents
      /\ Event(host, "response.cancelled", r) \in QuietEvents
      /\ Event(after, "barge_in.rejected", r) \in QuietEvents
  BY <1>2, <1>6, EventIs DEF EventTypes
<1>8. first \in Seq(QuietEvents) /\ second \in Seq(QuietEvents)
  BY <1>7, QuietSeqs, QuietEmpty
<1> HIDE DEF first, second
<1>9. first \o second \in Seq(QuietEvents)
  BY <1>8, QuietConcat
<1> QED BY <1>1, <1>2, <1>6, <1>9, SendsKeep

LEMMA PausedIs ==
    ASSUME NEW h \in HostState
    PROVE  /\ Paused(h) \in HostState
           /\ Paused(h).active = h.active /\ Paused(h).stage = h.stage
           /\ Paused(h).made = h.made /\ Paused(h).sent = h.sent
           /\ Paused(h).stream = h.stream
<1>1. PICK m \in Int : m = -1
  OBVIOUS
<1>2. Paused(h) = [h EXCEPT !.pause = "open", !.at = m]
  BY <1>1 DEF Paused
<1> QED BY <1>2 DEF HostState

LEMMA SpeechStartKeeps ==
    ASSUME Playback, SpeechStart PROVE Playback'
<1>1. host \in HostState /\ HostOk(host) /\ up \in Seq(Reports)
  BY HostTyped
<1>2. PICK n \in Int : n = host.utterances + 1
  BY <1>1 DEF HostState
<1> DEFINE spoken == [host EXCEPT !.speaking = TRUE, !.utterances = n]
           h == IF host.pending THEN Cancelled(spoken)
                ELSE IF host.stage \in {"playing", "ended"} /\ host.pause = "none"
                THEN Paused(spoken) ELSE spoken
           first == IF h.pause = host.pause THEN <<>>
                    ELSE IF host.pending THEN <<>>
                    ELSE <<Event(h, "barge_in.provisional", h.active)>>
           second == <<Event(h, "vad.speech_start", None)>>
<1>3. HostSends(h, first \o second) /\ up' = up
  BY <1>2 DEF SpeechStart
<1>4. /\ spoken \in HostState
      /\ spoken.active = host.active /\ spoken.stage = host.stage /\ spoken.made = host.made
      /\ spoken.sent = host.sent /\ spoken.stream = host.stream
  BY <1>1 DEF HostState
<1> HIDE DEF spoken
<1>5. HostOk(spoken)
  BY <1>1, <1>4 DEF HostOk
<1>6. h \in HostState /\ HostFollows(host, h)
  <2>1. HostFollows(host, spoken)
    BY <1>1, <1>4, FieldsFollow
  <2>2. Paused(spoken) \in HostState /\ HostFollows(host, Paused(spoken))
    <3>1. /\ Paused(spoken) \in HostState
          /\ Paused(spoken).active = host.active /\ Paused(spoken).stage = host.stage
          /\ Paused(spoken).made = host.made /\ Paused(spoken).sent = host.sent
          /\ Paused(spoken).stream = host.stream
      BY <1>4, PausedIs
    <3> QED BY <1>1, <3>1, FieldsFollow
  <2>3. Cancelled(spoken) \in HostState /\ HostFollows(host, Cancelled(spoken))
    <3>1. /\ Cancelled(spoken) \in HostState
          /\ Cancelled(spoken).active = None /\ Cancelled(spoken).stage = "none"
          /\ Cancelled(spoken).made = host.made /\ Cancelled(spoken).sent = host.sent
          /\ Cancelled(spoken).stream = None
      BY <1>4, <1>5, CancelledFollows
    <3> QED BY <1>1, <3>1, FieldsFollow
  <2> QED BY <1>4, <2>1, <2>2, <2>3
<1> HIDE DEF h
<1>7. h.active \in Maybe /\ None \in Maybe
  BY <1>6 DEF HostState, Maybe
<1>8. /\ Event(h, "barge_in.provisional", h.active) \in QuietEvents
      /\ Event(h, "vad.speech_start", None) \in QuietEvents
  BY <1>6, <1>7, EventIs DEF EventTypes
<1>9. first \in Seq(QuietEvents) /\ second \in Seq(QuietEvents)
  BY <1>8, QuietSeqs, QuietEmpty
<1> HIDE DEF first, second
<1>10. first \o second \in Seq(QuietEvents)
  BY <1>9, QuietConcat
<1> QED BY <1>1, <1>3, <1>6, <1>10, SendsKeep

LEMMA SpeechEndKeeps ==
    ASSUME Playback, SpeechEnd PROVE Playback'
<1> DEFINE h == [host EXCEPT !.speaking = FALSE]
<1>1. HostSends(h, <<Event(host, "vad.speech_end", None)>>) /\ up' = up
  BY DEF SpeechEnd
<1>2. host \in HostState /\ HostOk(host) /\ up \in Seq(Reports)
  BY HostTyped
<1>3. /\ h \in HostState
      /\ h.active = host.active /\ h.stage = host.stage /\ h.made = host.made
      /\ h.sent = host.sent /\ h.stream = host.stream
  BY <1>2 DEF HostState
<1> HIDE DEF h
<1>4. HostFollows(host, h)
  BY <1>2, <1>3, FieldsFollow
<1>5. Event(host, "vad.speech_end", None) \in QuietEvents
  BY <1>2, EventIs DEF EventTypes, Maybe
<1> QED BY <1>1, <1>2, <1>4, <1>5, QuietSeqs, SendsKeep

LEMMA AcceptKeeps ==
    ASSUME Playback, Accept PROVE Playback'
<1> DEFINE h == [host EXCEPT !.pause = "none", !.pending = TRUE, !.stream = None]
           e == Event(host, "interruption.accept", host.active)
           f == Event(host, "response.cancelled", host.active)
<1>1. HostSends(h, <<e, f>>) /\ up' = up
  BY DEF Accept
<1>2. host \in HostState /\ HostOk(host) /\ up \in Seq(Reports) /\ host.active \in Maybe
  BY HostTyped
<1>3. /\ h \in HostState
      /\ h.active = host.active /\ h.stage = host.stage /\ h.made = host.made
      /\ h.sent = host.sent /\ h.stream = None
  BY <1>2 DEF HostState, Maybe
<1> HIDE DEF h
<1>4. HostFollows(host, h)
  BY <1>2, <1>3, FieldsFollow
<1>5. e \in QuietEvents /\ f \in QuietEvents
  BY <1>2, EventIs DEF EventTypes
<1> QED BY <1>1, <1>2, <1>4, <1>5, QuietSeqs, SendsKeep

\* a step that changes nothing but the pause
LEMMA UnpausedFollows ==
    ASSUME NEW h \in HostState, HostOk(h)
    PROVE  HostFollows(h, [h EXCEPT !.pause = "none"])
<1> DEFINE g == [h EXCEPT !.pause = "none"]
<1>1. /\ g \in HostState
      /\ g.active = h.active /\ g.stage = h.stage /\ g.made = h.made
      /\ g.sent = h.sent /\ g.stream = h.stream
  BY DEF HostState
<1> HIDE DEF g
<1>2. HostFollows(h, g)
  BY <1>1, FieldsFollow
<1> QED BY <1>2 DEF g

LEMMA ResumeKeeps ==
    ASSUME Playback, Resume PROVE Playback'
<1> DEFINE h == [host EXCEPT !.pause = "none"]
           e == Safe(Event(host, "interruption.resume", host.active))
           f == Safe(Event(host, "barge_in.rejected", host.active))
<1>1. HostSends(h, <<e, f>>) /\ up' = up
  BY DEF Resume
<1>2. host \in HostState /\ HostOk(host) /\ up \in Seq(Reports) /\ host.active \in Maybe
  BY HostTyped
<1>3. HostFollows(host, h)
  BY <1>2, UnpausedFollows
<1> HIDE DEF h
<1>4. e \in QuietEvents /\ f \in QuietEvents
  BY <1>2, EventIs, SafeIs DEF EventTypes
<1> QED BY <1>1, <1>2, <1>3, <1>4, QuietSeqs, SendsKeep

LEMMA TimeoutKeeps ==
    ASSUME Playback, Timeout PROVE Playback'
<1> DEFINE h == [host EXCEPT !.pause = "none"]
           e == Safe(Event(host, "barge_in.timed_out", host.active))
           f == Event(Cancelled(host), "barge_in.timed_out", host.active)
<1>1. host \in HostState /\ HostOk(host) /\ up \in Seq(Reports) /\ host.active \in Maybe
  BY HostTyped
<1>2. up' = up
  BY DEF Timeout
<1>3. CASE host.pause = "checked"
  <2>1. HostSends(h, <<e>>)
    BY <1>3 DEF Timeout
  <2>2. HostFollows(host, h)
    BY <1>1, UnpausedFollows
  <2> HIDE DEF h
  <2>3. e \in QuietEvents
    BY <1>1, EventIs, SafeIs DEF EventTypes
  <2> QED BY <1>1, <1>2, <2>1, <2>2, <2>3, QuietSeqs, SendsKeep
<1>4. CASE host.pause # "checked"
  <2>1. HostSends(Cancelled(host), CancelEvents(host) \o <<f>>)
    BY <1>4 DEF Timeout
  <2>2. Cancelled(host) \in HostState /\ HostFollows(host, Cancelled(host))
    BY <1>1, CancelledFollows
  <2>3. f \in QuietEvents
    BY <1>1, <2>2, EventIs DEF EventTypes
  <2>4. CancelEvents(host) \in Seq(QuietEvents) /\ <<f>> \in Seq(QuietEvents)
    BY <1>1, <2>3, CancelEventsQuiet, QuietSeqs
  <2> HIDE DEF f
  <2>5. CancelEvents(host) \o <<f>> \in Seq(QuietEvents)
    BY <2>4, QuietConcat
  <2> QED BY <1>1, <1>2, <2>1, <2>2, <2>5, SendsKeep
<1> QED BY <1>3, <1>4

LEMMA TakenIs ==
    ASSUME NEW h \in HostState, HostOk(h)
    PROVE  Taken(h).h = Cancelled(h) /\ Taken(h).events \in Seq(QuietEvents)
<1>1. Cancelled(h) \in HostState /\ h.active \in Maybe
  BY CancelledFollows DEF HostState
<1>2. Event(Cancelled(h), "barge_in.confirmed", h.active) \in QuietEvents
  BY <1>1, EventIs DEF EventTypes
<1>3. <<Event(Cancelled(h), "barge_in.confirmed", h.active)>> \in Seq(QuietEvents)
  BY <1>2, QuietSeqs
<1> QED BY <1>3 DEF Taken

LEMMA AcceptTimeoutKeeps ==
    ASSUME Playback, AcceptTimeout PROVE Playback'
  BY HostTyped, TakenIs, CancelledFollows, SendsKeep DEF AcceptTimeout

LEMMA StoppedIs ==
    ASSUME NEW h \in HostState, HostOk(h), NEW r \in Maybe
    PROVE  /\ HostFollows(h, StoppedBy(h, r).h)
           /\ StoppedBy(h, r).events \in Seq(QuietEvents)
<1> DEFINE g == [h EXCEPT !.closed[r] = TRUE]
           k == [g EXCEPT !.active = None, !.stage = "none", !.pause = "none"]
           e == Event(h, "barge_in.rejected", r)
<1>1. [h.closed EXCEPT ![r] = TRUE] \in [Responses -> BOOLEAN]
  BY DEF HostState
<1>2. /\ g \in HostState
      /\ g.active = h.active /\ g.stage = h.stage /\ g.made = h.made
      /\ g.sent = h.sent /\ g.stream = h.stream
  BY <1>1 DEF HostState
<1> HIDE DEF g
<1>3. HostOk(g)
  BY <1>2 DEF HostOk
<1>4. HostFollows(h, h) /\ HostFollows(h, g)
  BY <1>2, <1>3, FieldsFollow
<1>5. /\ k \in HostState
      /\ k.active = None /\ k.stage = "none" /\ k.made = h.made
      /\ k.sent = h.sent /\ k.stream = h.stream
  BY <1>2 DEF HostState, Maybe
<1> HIDE DEF k
<1>6. HostFollows(h, k)
  BY <1>5, FieldsFollow
<1>7. HostFollows(h, Taken(g).h) /\ Taken(g).events \in Seq(QuietEvents)
  <2>1. Taken(g).h = Cancelled(g) /\ Taken(g).events \in Seq(QuietEvents)
    BY <1>2, <1>3, TakenIs
  <2>2. /\ Cancelled(g) \in HostState
        /\ Cancelled(g).active = None /\ Cancelled(g).stage = "none"
        /\ Cancelled(g).made = h.made /\ Cancelled(g).sent = h.sent
        /\ Cancelled(g).stream = None
    BY <1>2, <1>3, CancelledFollows
  <2>3. HostFollows(h, Cancelled(g))
    BY <2>2, FieldsFollow
  <2> QED BY <2>1, <2>3
<1>8. e \in QuietEvents
  BY EventIs DEF EventTypes
<1>9. <<>> \in Seq(QuietEvents) /\ <<e>> \in Seq(QuietEvents)
  BY <1>8, QuietSeqs
<1>10. CASE h.closed[r]
  <2>1. StoppedBy(h, r).h = h /\ StoppedBy(h, r).events = <<>>
    BY <1>10 DEF StoppedBy
  <2> QED BY <1>4, <1>9, <2>1
<1>11. CASE ~h.closed[r] /\ h.pending /\ h.active = r
  <2>1. StoppedBy(h, r) = Taken(g)
    BY <1>11 DEF StoppedBy, g
  <2> QED BY <1>7, <2>1
<1>12. CASE ~h.closed[r] /\ ~(h.pending /\ h.active = r) /\ h.epochOf[r] = h.epoch /\ h.active = r
  <2>1. StoppedBy(h, r).h = k /\ StoppedBy(h, r).events \in {<<>>, <<e>>}
    BY <1>12 DEF StoppedBy, g, k
  <2> QED BY <1>6, <1>9, <2>1
<1>13. CASE ~h.closed[r] /\ ~(h.pending /\ h.active = r) /\ ~(h.epochOf[r] = h.epoch /\ h.active = r)
  <2>1. StoppedBy(h, r).h = g /\ StoppedBy(h, r).events = <<>>
    BY <1>13 DEF StoppedBy, g
  <2> QED BY <1>4, <1>9, <2>1
<1> QED BY <1>10, <1>11, <1>12, <1>13

LEMMA HostHearsKeeps ==
    ASSUME Playback, HostHears PROVE Playback'
<1> DEFINE m == Head(up)
           cancel == Cancelled(host)
           paused == IF host.pause # "none" /\ host.active = m.r /\ ~host.closed[m.r]
                     THEN [host EXCEPT !.pause = "checked", !.at = m.at] ELSE host
           gone == IF host.active = None THEN host ELSE cancel
           second == IF host.pause = "none" THEN <<>>
                     ELSE <<Event(cancel, "barge_in.confirmed", host.active)>>
<1>1. /\ host \in HostState /\ HostOk(host) /\ up \in Seq(Reports) /\ host.active \in Maybe
      /\ up # <<>>
  BY HostTyped DEF HostHears
<1>2. m \in Reports /\ Tail(up) \in Seq(Reports) /\ up' = Tail(up)
  BY <1>1, HeadTailProperties DEF HostHears
<1> HIDE DEF m
<1>3. m.r \in Maybe /\ m.at \in Int /\ m.type \in {"playback.paused", "playback.stopped", "turn.cancel"}
  BY <1>2 DEF Reports
<1>4. CASE m.type = "playback.paused"
  <2>1. HostSends(paused, <<>>)
    BY <1>4 DEF HostHears, m
  <2> DEFINE k == [host EXCEPT !.pause = "checked", !.at = m.at]
  <2>2. /\ k \in HostState
        /\ k.active = host.active /\ k.stage = host.stage /\ k.made = host.made
        /\ k.sent = host.sent /\ k.stream = host.stream
    BY <1>1, <1>3 DEF HostState
  <2> HIDE DEF k
  <2>3. HostFollows(host, host) /\ HostFollows(host, k)
    BY <1>1, <2>2, FieldsFollow
  <2>4. HostFollows(host, paused)
    BY <2>3 DEF k
  <2> HIDE DEF paused
  <2> QED BY <1>2, <2>1, <2>4, QuietEmpty, SendsKeep
<1>5. CASE m.type = "playback.stopped"
  <2>1. HostSends(StoppedBy(host, m.r).h, StoppedBy(host, m.r).events)
    BY <1>5 DEF HostHears, m
  <2>2. /\ HostFollows(host, StoppedBy(host, m.r).h)
        /\ StoppedBy(host, m.r).events \in Seq(QuietEvents)
    BY <1>1, <1>3, StoppedIs
  <2> QED BY <1>2, <2>1, <2>2, SendsKeep
<1>6. CASE m.type = "turn.cancel"
  <2>1. HostSends(gone, CancelEvents(host) \o second)
    BY <1>6 DEF HostHears, m
  <2>2. cancel \in HostState /\ HostFollows(host, cancel) /\ HostFollows(host, host)
    BY <1>1, CancelledFollows, FieldsFollow
  <2>3. HostFollows(host, gone)
    BY <2>2
  <2>4. Event(cancel, "barge_in.confirmed", host.active) \in QuietEvents
    BY <1>1, <2>2, EventIs DEF EventTypes
  <2>5. CancelEvents(host) \in Seq(QuietEvents) /\ second \in Seq(QuietEvents)
    BY <1>1, <2>4, CancelEventsQuiet, QuietSeqs, QuietEmpty
  <2> HIDE DEF second, gone
  <2>6. CancelEvents(host) \o second \in Seq(QuietEvents)
    BY <2>5, QuietConcat
  <2> QED BY <1>2, <2>1, <2>3, <2>6, SendsKeep
<1> QED BY <1>3, <1>4, <1>5, <1>6

\* the active response is announced
LEMMA AnnounceKeeps ==
    ASSUME NEW h, NEW d, NEW u, NEW t, NEW p, NEW c, PlaybackInv(h, d, u, t, p, c),
           h.stage = "reasoning", NEW g, HostFollows(h, g),
           g.stage = "playing", g.active = h.active, g.made = h.made,
           NEW e \in Events, Announces(e), e.r = h.active, ~e.safe
    PROVE  PlaybackInv(g, Append(d, e), u, t, p, c)
<1> DEFINE r == h.active
           b == Append(d, e)
<1>1. /\ h \in HostState /\ d \in Seq(Events) /\ HostOk(h)
  BY DEF PlaybackInv, PlaybackTypes, Announcements
<1>2. r \in Responses /\ Unannounced(h, r) /\ ~Unannounced(g, r)
  BY <1>1 DEF HostState, HostOk, Maybe, Unannounced, Responses, None
<1>3. r \notin Announced(d) /\ r \notin Announced(c.queue) /\ p[r].player = "none"
  BY <1>2 DEF PlaybackInv, Announcements
<1>4. /\ b \in Seq(Events)
      /\ Announced(b) = Announced(d) \cup {r}
      /\ Once(d) => Once(b)
      /\ \A i \in 1..Len(b) : (i \in 1..Len(d) /\ b[i] = d[i]) \/ b[i] = e
  BY <1>1, <1>3, AppendAnnounces
<1> HIDE DEF b
<1>5. PlaybackTypes(g, b, u, t, p, c)
  BY <1>4 DEF PlaybackInv, PlaybackTypes, HostFollows
<1>6. Announcements(g, b, p, c)
  <2> USE DEF PlaybackInv, Announcements
  <2>1. HostOk(g) /\ \A q \in Responses : Unannounced(g, q) => Unannounced(h, q)
    BY DEF HostFollows
  <2>2. \A i \in 1..Len(b) : b[i].safe => Quiet(b[i])
    BY <1>4
  <2>3. Once(b) /\ Once(c.queue) /\ Announced(b) \cap Announced(c.queue) = {}
    BY <1>3, <1>4
  <2>4. ASSUME NEW q \in Announced(b) \cup Announced(c.queue)
        PROVE  q \in Responses /\ ~Unannounced(g, q) /\ p[q].player = "none"
    BY <1>2, <1>3, <1>4, <2>1
  <2>5. ASSUME c.step \in {"storing", "reporting"}, Announces(c.event)
        PROVE  /\ c.event.r \in Responses
               /\ c.event.r \notin Announced(b)
               /\ c.event.r \notin Announced(c.queue)
               /\ ~Unannounced(g, c.event.r)
               /\ p[c.event.r].player = "none"
    BY <1>2, <1>4, <2>1, <2>5
  <2> QED BY <2>1, <2>2, <2>3, <2>4, <2>5
<1>7. Voices(p, c)
  BY DEF PlaybackInv
<1>8. Counts(g, b, t, p, c)
  <2> USE DEF PlaybackInv
  <2>1. ASSUME NEW q \in Responses PROVE Counted(g, b, t, p[q], q)
    <3>1. Counted(h, d, t, p[q], q)
      BY DEF Counts
    <3>2. Unannounced(g, q) => Unannounced(h, q)
      BY DEF HostFollows
    <3> QED BY <1>2, <1>4, <3>1, <3>2, OverFollows DEF Counted, CountedAt
  <2>2. ASSUME NEW i \in 1..Len(b), Ends(b[i]) PROVE OverAt(g, b[i].r, b[i].at)
    <3>1. i \in 1..Len(d) /\ b[i] = d[i]
      BY <1>4, <2>2 DEF Announces, Ends
    <3> QED BY <2>2, <3>1, OverFollows DEF Counts
  <2> QED BY <2>1, <2>2, OverFollows DEF Counts, CountedAt
<1> QED BY <1>5, <1>6, <1>7, <1>8 DEF b, PlaybackInv

LEMMA AppendTwo ==
    ASSUME NEW s \in Seq(Events), NEW e \in Events, NEW f \in Events
    PROVE  s \o <<e, f>> = Append(s, e) \o <<f>>
<1> DEFINE E == Events
<1> HIDE DEF E
<1>1. s \in Seq(E) /\ e \in E /\ f \in E
  BY DEF E
<1>2. <<e>> \in Seq(E) /\ <<f>> \in Seq(E)
  BY <1>1
<1>3. <<e, f>> = <<e>> \o <<f>>
  <2> DEFINE a == <<e>>
             b == <<f>>
             u == a \o b
             w == <<e, f>>
  <2>1. Len(a) = 1 /\ Len(b) = 1 /\ a[1] = e /\ b[1] = f
    OBVIOUS
  <2>2. w \in Seq(E) /\ Len(w) = 2 /\ w[1] = e /\ w[2] = f
    BY <1>1
  <2>3. a \in Seq(E) /\ b \in Seq(E)
    BY <1>2
  <2> HIDE DEF a, b, w
  <2>4. /\ u \in Seq(E) /\ Len(u) = Len(a) + Len(b)
        /\ \A i \in 1..Len(u) : u[i] = IF i <= Len(a) THEN a[i] ELSE b[i - Len(a)]
    BY <2>3, ConcatProperties
  <2> HIDE DEF u
  <2>5. Len(u) = 2 /\ u[1] = e /\ u[2] = f
    BY <2>1, <2>4
  <2>6. \A i \in 1..Len(w) : w[i] = u[i]
    <3>1. \A i \in 1..2 : i = 1 \/ i = 2
      OBVIOUS
    <3> QED BY <2>2, <2>5, <3>1
  <2>7. w = u
    BY <2>2, <2>4, <2>5, <2>6, SeqEqual
  <2> QED BY <2>7 DEF w, u, a, b
<1>4. Append(s, e) = s \o <<e>>
  BY <1>1
<1>5. s \o (<<e>> \o <<f>>) = (s \o <<e>>) \o <<f>>
  BY <1>1, <1>2, ConcatAssociative
<1> QED BY <1>3, <1>4, <1>5

LEMMA StartedKeeps ==
    ASSUME Playback, Started PROVE Playback'
<1> DEFINE r == host.active
           h == [host EXCEPT !.stage = "playing"]
           e == Event(h, "tts.started", r)
           f == Event(h, "barge_in.provisional", r)
<1>1. /\ host.stage = "reasoning" /\ up' = up
      /\ \/ HostSends(Paused(h), <<e, f>>)
         \/ HostSends(h, <<e>>)
  BY DEF Started
<1>2. host \in HostState /\ HostOk(host) /\ up \in Seq(Reports) /\ r \in Maybe /\ down \in Seq(Events)
  BY HostTyped
<1>3. /\ h \in HostState
      /\ h.active = host.active /\ h.stage = "playing" /\ h.made = host.made
      /\ h.sent = host.sent /\ h.stream = host.stream
  BY <1>2 DEF HostState
<1> HIDE DEF h
<1>4. HostOk(h)
  BY <1>1, <1>2, <1>3 DEF HostOk
<1>5. HostFollows(host, h)
  BY <1>3, <1>4 DEF HostFollows, Unannounced
<1>6. e \in Events /\ e.type = "tts.started" /\ e.r = r /\ ~e.safe
  BY <1>2, <1>3, EventIs DEF EventTypes
<1>7. f \in QuietEvents /\ f \in Events
  BY <1>2, <1>3, EventIs DEF EventTypes
<1> HIDE DEF e, f
<1>8. PlaybackInv(h, Append(down, e), up, transport, part, ctl)
  BY <1>1, <1>3, <1>5, <1>6, AnnounceKeeps DEF Playback, Announces
<1>9. CASE HostSends(h, <<e>>)
  <2>1. /\ host' = h /\ down' = down \o <<e>>
        /\ transport' = transport /\ part' = part /\ ctl' = ctl
    BY <1>9 DEF HostSends
  <2>2. down \o <<e>> = Append(down, e)
    BY <1>2, <1>6
  <2> QED BY <1>1, <1>8, <2>1, <2>2 DEF Playback
<1>10. CASE HostSends(Paused(h), <<e, f>>)
  <2>1. /\ host' = Paused(h) /\ down' = down \o <<e, f>>
        /\ transport' = transport /\ part' = part /\ ctl' = ctl
    BY <1>10 DEF HostSends
  <2>2. HostFollows(h, Paused(h))
    <3>1. /\ Paused(h) \in HostState
          /\ Paused(h).active = h.active /\ Paused(h).stage = h.stage
          /\ Paused(h).made = h.made /\ Paused(h).sent = h.sent
          /\ Paused(h).stream = h.stream
      BY <1>3, PausedIs
    <3> QED BY <1>3, <1>4, <3>1, FieldsFollow
  <2>3. PlaybackInv(Paused(h), Append(down, e) \o <<f>>, up, transport, part, ctl)
    BY <1>2, <1>7, <1>8, <2>2, QuietSeqs, FollowKeeps
  <2>4. down \o <<e, f>> = Append(down, e) \o <<f>>
    BY <1>2, <1>6, <1>7, AppendTwo
  <2> QED BY <1>1, <2>1, <2>3, <2>4 DEF Playback
<1> QED BY <1>1, <1>9, <1>10

\* a stream is over, and its end tells what was sent of it
LEMMA OverKeeps ==
    ASSUME NEW h, NEW d, NEW u, NEW t, NEW p, NEW c, PlaybackInv(h, d, u, t, p, c),
           NEW g, HostFollows(h, g),
           NEW e \in Events, Ends(e), OverAt(g, e.r, e.at), ~e.safe
    PROVE  PlaybackInv(g, Append(d, e), u, t, p, c)
<1> DEFINE b == Append(d, e)
<1>1. d \in Seq(Events)
  BY DEF PlaybackInv, PlaybackTypes
<1>2. ~Announces(e)
  BY DEF Announces, Ends
<1>3. /\ b \in Seq(Events)
      /\ Announced(b) = Announced(d)
      /\ Once(d) => Once(b)
      /\ \A i \in 1..Len(b) : (i \in 1..Len(d) /\ b[i] = d[i]) \/ b[i] = e
  BY <1>1, <1>2, AppendAnnounces
<1> HIDE DEF b
<1>4. PlaybackTypes(g, b, u, t, p, c)
  BY <1>3 DEF PlaybackInv, PlaybackTypes, HostFollows
<1>5. Announcements(g, b, p, c)
  <2> USE DEF PlaybackInv, Announcements
  <2>1. HostOk(g) /\ \A r \in Responses : Unannounced(g, r) => Unannounced(h, r)
    BY DEF HostFollows
  <2>2. \A i \in 1..Len(b) : b[i].safe => Quiet(b[i])
    BY <1>3
  <2> QED BY <1>3, <2>1, <2>2
<1>6. Voices(p, c)
  BY DEF PlaybackInv
<1>7. Counts(g, b, t, p, c)
  <2> USE DEF PlaybackInv
  <2>1. ASSUME NEW r \in Responses PROVE Counted(g, b, t, p[r], r)
    <3>1. Counted(h, d, t, p[r], r)
      BY DEF Counts
    <3>2. Unannounced(g, r) => Unannounced(h, r)
      BY DEF HostFollows
    <3> QED BY <1>3, <3>1, <3>2, OverFollows DEF Counted, CountedAt
  <2>2. ASSUME NEW i \in 1..Len(b), Ends(b[i]) PROVE OverAt(g, b[i].r, b[i].at)
    <3>1. CASE i \in 1..Len(d) /\ b[i] = d[i]
      BY <2>2, <3>1, OverFollows DEF Counts
    <3>2. CASE b[i] = e
      BY <3>2
    <3> QED BY <1>3, <3>1, <3>2
  <2> QED BY <2>1, <2>2, OverFollows DEF Counts, CountedAt
<1> QED BY <1>4, <1>5, <1>6, <1>7 DEF b, PlaybackInv

LEMMA EndedKeeps ==
    ASSUME Playback, Ended PROVE Playback'
<1> DEFINE r == host.stream
           h == [host EXCEPT !.stream = None, !.stage = "ended"]
           e == [Event(host, "tts.ended", r) EXCEPT !.at = host.sent[r]]
<1>1. /\ r # None /\ host.active = r /\ up' = up
      /\ HostSends(h, <<e>>)
  BY DEF Ended
<1>2. host \in HostState /\ HostOk(host) /\ up \in Seq(Reports) /\ r \in Maybe /\ down \in Seq(Events)
  BY HostTyped
<1>3. r \in Responses
  BY <1>1, <1>2 DEF Maybe
<1>4. /\ h \in HostState
      /\ h.active = r /\ h.stage = "ended" /\ h.made = host.made
      /\ h.sent = host.sent /\ h.stream = None
  BY <1>1, <1>2 DEF HostState, Maybe
<1> HIDE DEF h
<1>5. HostOk(h)
  BY <1>1, <1>2, <1>4 DEF HostOk, HostState, None
<1>6. HostFollows(host, h)
  BY <1>4, <1>5 DEF HostFollows, Unannounced, Responses, None
<1>7. PICK n \in Nat : n = host.sent[r]
  BY <1>2, <1>3 DEF HostState
<1>8. Event(host, "tts.ended", r) \in Events /\ Event(host, "tts.ended", r).type = "tts.ended"
      /\ Event(host, "tts.ended", r).r = r /\ ~Event(host, "tts.ended", r).safe
  BY <1>2, EventIs DEF EventTypes
<1> DEFINE v == Event(host, "tts.ended", r)
<1> HIDE DEF v
<1>9. e = [v EXCEPT !.at = n]
  BY <1>7 DEF v
<1>10. n \in Int
  OBVIOUS
<1>11. e \in Events /\ e.type = "tts.ended" /\ e.r = r /\ e.at = n /\ ~e.safe
  BY <1>8, <1>9, <1>10 DEF Events, v
<1> HIDE DEF e
<1>12. OverAt(h, e.r, e.at)
  BY <1>1, <1>2, <1>3, <1>4, <1>5, <1>7, <1>11 DEF OverAt, Unannounced, HostOk, HostState, Responses, None
<1>13. PlaybackInv(h, Append(down, e), up, transport, part, ctl)
  BY <1>6, <1>11, <1>12, OverKeeps DEF Playback, Ends
<1>14. /\ host' = h /\ down' = down \o <<e>>
       /\ transport' = transport /\ part' = part /\ ctl' = ctl
  BY <1>1 DEF HostSends
<1>15. down \o <<e>> = Append(down, e)
  BY <1>2, <1>11
<1> QED BY <1>1, <1>13, <1>14, <1>15 DEF Playback

LEMMA HostStepKeeps ==
    ASSUME Playback, HostStep PROVE Playback'
  BY StartKeeps, SupersedeKeeps, StartedKeeps, StreamKeeps, EndedKeeps, FailKeeps,
     SpeechStartKeeps, SpeechEndKeeps, AcceptKeeps, ResumeKeeps, TimeoutKeeps,
     AcceptTimeoutKeeps, HostHearsKeeps DEF HostStep

-----------------------------------------------------------------------------
(* The players and the controller.                                         *)

\* p becomes q: it may be muted, unmuted or stopped, but plays nothing
Fades(p, q) ==
    /\ q \in Players
    /\ q.total = p.total
    /\ q.buffer = p.buffer
    /\ q.played = p.played
    /\ q.player = "none" <=> p.player = "none"
    /\ p.player = "stopped" => q.player = "stopped"
    /\ Live(q) => Live(p)
    /\ q.report = "storing" => p.report = "storing" \/ q.player = "stopped"
    /\ q.reason = p.reason \/ (Live(p) /\ q.reason \in {"cancelled", "failed", "stopped"})

FadeParts(p, q) ==
    /\ q \in [Responses -> Players]
    /\ \A r \in Responses : Fades(p[r], q[r])

LEMMA PlayersFade ==
    ASSUME NEW p \in Players
    PROVE  /\ Fades(p, p)
           /\ Fades(p, Mute(p))
           /\ Fades(p, Unmute(p))
           /\ Fades(p, MuteForSpeech(p))
           /\ Fades(p, [p EXCEPT !.speechPause = -1])
           /\ Fades(p, [p EXCEPT !.report = "done"])
<1>1. Fades(p, p) /\ Fades(p, [p EXCEPT !.report = "done"])
  BY DEF Fades, Players, Live
<1>2. Fades(p, Mute(p)) /\ Fades(p, Unmute(p))
  BY DEF Fades, Players, Live, Mute, Unmute
<1>3. Fades(p, MuteForSpeech(p))
  <2>0. p.played \in Nat
    BY DEF Players
  <2>1. PICK m \in Int : m = p.played
    BY <2>0
  <2>2. CASE Live(p)
    <3>1. MuteForSpeech(p) = [p EXCEPT !.player = "muted", !.speechPause = m]
      BY <2>1, <2>2 DEF Players, Mute, MuteForSpeech
    <3>2. Fades(p, [p EXCEPT !.player = "muted", !.speechPause = m])
      BY <2>2 DEF Fades, Players, Live
    <3> QED BY <3>1, <3>2
  <2> QED BY <1>1, <2>2 DEF MuteForSpeech
<1>4. Fades(p, [p EXCEPT !.speechPause = -1])
  <2>1. PICK m \in Int : m = -1
    OBVIOUS
  <2>2. Fades(p, [p EXCEPT !.speechPause = m])
    BY DEF Fades, Players, Live
  <2> QED BY <2>1, <2>2
<1> QED BY <1>1, <1>2, <1>3, <1>4

LEMMA StopFades ==
    ASSUME NEW p \in Players, NEW why \in {"cancelled", "failed", "stopped"}
    PROVE  Fades(p, Stop(p, why)) /\ ~Live(Stop(p, why))
  BY DEF Fades, Players, Live, Stop

LEMMA SameParts ==
    ASSUME NEW p \in [Responses -> Players]
    PROVE  FadeParts(p, p)
  BY PlayersFade DEF FadeParts

LEMMA OneFades ==
    ASSUME NEW p \in [Responses -> Players], NEW r \in Responses, NEW q, Fades(p[r], q)
    PROVE  FadeParts(p, [p EXCEPT ![r] = q]) /\ [p EXCEPT ![r] = q][r] = q
<1>1. \A s \in Responses : Fades(p[s], p[s])
  BY PlayersFade
<1>2. q \in Players
  BY DEF Fades
<1> QED BY <1>1, <1>2 DEF FadeParts

LEMMA ActiveFades ==
    ASSUME Playback, NEW q, ctl.active # None => Fades(Playing, q)
    PROVE  /\ FadeParts(part, Active(q))
           /\ ctl.active # None => Active(q)[ctl.active] = q
<1>1. part \in [Responses -> Players] /\ ctl.active \in Maybe
  BY HostTyped DEF ControllerState
<1>2. CASE ctl.active = None
  BY <1>1, <1>2, SameParts DEF Active
<1>3. CASE ctl.active # None
  <2>1. ctl.active \in Responses
    BY <1>1, <1>3 DEF Maybe
  <2> QED BY <1>1, <1>3, <2>1, OneFades DEF Active, Playing
<1> QED BY <1>2, <1>3

\* a binding becomes terminal, or stays what it is
Binds(t, s) ==
    /\ s \in TransportState
    /\ s.got = t.got
    /\ \A r \in Responses :
          s.bound[r] = t.bound[r] \/ (t.bound[r] = "live" /\ s.bound[r] = "terminal")

\* the controller goes from c to k with the parts q
ControllerFollows(c, k, q) ==
    /\ k \in ControllerState
    /\ k.queue = c.queue
    /\ Quiet(k.deferred)
    /\ k.step = "storing" => Quiet(k.event) \/ (c.step = "storing" /\ k.event = c.event)
    /\ k.step = "reporting" =>
          ~Announces(k.event) \/ (c.step \in {"storing", "reporting"} /\ k.event = c.event)
    /\ k.step \in {"pausing", "checkpointing"} => ~Announces(k.event)
    /\ \A r \in Responses : Live(q[r]) => k.active = r
    /\ k.step = "reporting" /\ k.active # None => ~Live(q[k.active])

LEMMA CountedFades ==
    ASSUME NEW h, NEW d, NEW t \in TransportState, NEW s, Binds(t, s), NEW r \in Responses,
           NEW p \in Players, NEW q, Fades(p, q), Counted(h, d, t, p, r)
    PROVE  Counted(h, d, s, q, r)
<1>1. q.reason = "completed" => p.reason = "completed"
  BY DEF Fades
<1>2. q.player = "none" => q.reason = ""
  BY DEF Fades, Live, Counted
<1>3. s.bound[r] # "none" => t.bound[r] # "none"
  BY DEF Binds
<1>4. t.bound[r] = "terminal" => s.bound[r] = "terminal"
  BY DEF Binds
<1>5. s.got[r] = t.got[r]
  BY DEF Binds
<1> QED BY <1>1, <1>2, <1>3, <1>4, <1>5 DEF Counted, CountedAt, Fades

LEMMA FadeKeeps ==
    ASSUME NEW h, NEW d, NEW u, NEW t, NEW p, NEW c, PlaybackInv(h, d, u, t, p, c),
           NEW v \in Seq(Reports), NEW s, Binds(t, s), NEW q, FadeParts(p, q),
           NEW k, ControllerFollows(c, k, q)
    PROVE  PlaybackInv(h, d, v, s, q, k)
<1>1. PlaybackTypes(h, d, v, s, q, k)
  BY DEF PlaybackInv, PlaybackTypes, Binds, FadeParts, ControllerFollows
<1>2. \A r \in Responses : q[r].player = "none" <=> p[r].player = "none"
  BY DEF FadeParts, Fades
<1>3. Announcements(h, d, q, k)
  <2> USE DEF PlaybackInv, Announcements, ControllerFollows
  <2>1. \A r \in Announced(d) \cup Announced(k.queue) :
           r \in Responses /\ ~Unannounced(h, r) /\ q[r].player = "none"
    BY <1>2
  <2>2. ASSUME k.step \in {"storing", "reporting"}, Announces(k.event)
        PROVE  /\ k.event.r \in Responses
               /\ k.event.r \notin Announced(d)
               /\ k.event.r \notin Announced(k.queue)
               /\ ~Unannounced(h, k.event.r)
               /\ q[k.event.r].player = "none"
    <3>1. c.step \in {"storing", "reporting"} /\ k.event = c.event
      BY <2>2 DEF Quiet
    <3> QED BY <1>2, <2>2, <3>1
  <2> QED BY <1>2, <2>1, <2>2
<1>4. Voices(q, k)
  <2>1. ASSUME NEW r \in Responses, q[r].report = "storing" PROVE q[r].player = "stopped"
    BY <2>1 DEF PlaybackInv, Voices, FadeParts, Fades
  <2> QED BY <2>1 DEF Voices, ControllerFollows
<1>5. Counts(h, d, s, q, k)
  <2>1. ASSUME NEW r, NEW n, CountedAt(h, t, r, n) PROVE CountedAt(h, s, r, n)
    BY <2>1 DEF CountedAt, OverAt, Binds
  <2>2. ASSUME NEW r \in Responses PROVE Counted(h, d, s, q[r], r)
    <3>1. t \in TransportState /\ p[r] \in Players /\ Counted(h, d, t, p[r], r)
      BY DEF PlaybackInv, PlaybackTypes, Counts
    <3> QED BY <3>1, CountedFades DEF FadeParts
  <2>3. ASSUME NEW i \in 1..Len(k.queue), Ends(k.queue[i])
        PROVE  CountedAt(h, s, k.queue[i].r, k.queue[i].at)
    BY <2>1, <2>3 DEF PlaybackInv, Counts, ControllerFollows
  <2>4. ASSUME k.step = "storing", Ends(k.event) PROVE CountedAt(h, s, k.event.r, k.event.at)
    <3>1. c.step = "storing" /\ k.event = c.event
      BY <2>4 DEF ControllerFollows, Quiet
    <3> QED BY <2>1, <2>4, <3>1 DEF PlaybackInv, Counts
  <2>5. \A i \in 1..Len(d) : Ends(d[i]) => OverAt(h, d[i].r, d[i].at)
    BY DEF PlaybackInv, Counts
  <2> QED BY <2>2, <2>3, <2>4, <2>5 DEF Counts
<1> QED BY <1>1, <1>3, <1>4, <1>5 DEF PlaybackInv

\* a step of the controller or the user that only fades players
LEMMA ControllerKeeps ==
    ASSUME Playback, FadeParts(part, part'), ControllerFollows(ctl, ctl', part'),
           host' = host, down' = down, up' \in Seq(Reports), Binds(transport, transport')
    PROVE  Playback'
<1>1. PlaybackInv(host, down, up', transport', part', ctl')
  BY FadeKeeps DEF Playback
<1> QED BY <1>1 DEF Playback

LEMMA SameBindings ==
    ASSUME NEW t \in TransportState PROVE Binds(t, t)
  BY DEF Binds

\* the controller stays in its step with the player it has
LEMMA StaysFollows ==
    ASSUME Playback, NEW q, FadeParts(part, q), NEW k \in ControllerState,
           k.queue = ctl.queue, Quiet(k.deferred),
           k.step = ctl.step, k.event = ctl.event, k.active = ctl.active
    PROVE  ControllerFollows(ctl, k, q)
<1>1. \A r \in Responses : Live(q[r]) => Live(part[r])
  BY DEF FadeParts, Fades
<1>2. \A r \in Responses : Live(q[r]) => k.active = r
  BY <1>1 DEF Playback, PlaybackInv, Voices
<1>3. k.active \in Maybe
  BY DEF ControllerState
<1>4. k.step = "reporting" /\ k.active # None => ~Live(q[k.active])
  BY <1>1, <1>3 DEF Playback, PlaybackInv, Voices, Maybe
<1> QED BY <1>2, <1>4 DEF ControllerFollows, Playback, PlaybackInv, Announcements

\* the controller goes on, or waits for a report, with the player it has
LEMMA GoesFollows ==
    ASSUME Playback, NEW q, FadeParts(part, q), NEW k \in ControllerState,
           k.queue = ctl.queue, Quiet(k.deferred), k.active = ctl.active,
           \/ k.step = "idle"
           \/ /\ k.step = "reporting"
              /\ k.active # None => ~Live(q[k.active])
              /\ ~Announces(k.event) \/ (ctl.step = "storing" /\ k.event = ctl.event)
           \/ k.step \in {"pausing", "checkpointing"} /\ ~Announces(k.event)
           \/ k.step = "storing" /\ Quiet(k.event)
    PROVE  ControllerFollows(ctl, k, q)
<1>1. \A r \in Responses : Live(q[r]) => Live(part[r])
  BY DEF FadeParts, Fades
<1>2. \A r \in Responses : Live(q[r]) => k.active = r
  BY <1>1 DEF Playback, PlaybackInv, Voices
<1> QED BY <1>2 DEF ControllerFollows

LEMMA QuietIdle == Idle \in Events /\ Quiet(Idle)
  BY DEF Idle, Events, EventTypes, Maybe, Quiet, Announces, Ends

LEMMA NoPauseIs == NoPause \in Pauses
<1>1. PICK m \in Int : m = -1
  OBVIOUS
<1> QED BY <1>1 DEF NoPause, Pauses, Maybe

LEMMA CtlTyped ==
    ASSUME Playback
    PROVE  /\ ctl \in ControllerState /\ Quiet(ctl.deferred)
           /\ ctl.queue \in Seq(Events) /\ ctl.event \in Events /\ ctl.active \in Maybe
           /\ ctl.provisional \in Pauses /\ ctl.deferred \in Events
           /\ part \in [Responses -> Players]
           /\ ctl.active # None => ctl.active \in Responses /\ Playing \in Players
  BY DEF Playback, PlaybackInv, PlaybackTypes, Announcements, ControllerState, Maybe, Playing

LEMMA CancelKeeps ==
    ASSUME Playback, Cancel PROVE Playback'
<1> DEFINE quiet == [ctl EXCEPT !.speaking = FALSE, !.deferred = Idle]
           k == IF Live(part[ctl.active]) THEN [quiet EXCEPT !.cancelling = ctl.active]
                                          ELSE [quiet EXCEPT !.provisional = NoPause]
           m == [type |-> "turn.cancel", r |-> None, at |-> 0]
           q == Active(Stop(Playing, "cancelled"))
<1>1. /\ ctl' = k /\ part' = q /\ up' = Append(up, m)
      /\ host' = host /\ down' = down /\ transport' = transport
  BY DEF Cancel
<1>2. m \in Reports
  BY DEF Reports, Maybe
<1> HIDE DEF m
<1>3. up' \in Seq(Reports)
  BY <1>1, <1>2, HostTyped
<1>4. FadeParts(part, q)
  BY CtlTyped, StopFades, ActiveFades
<1>5. /\ k \in ControllerState /\ k.queue = ctl.queue /\ k.deferred = Idle
      /\ k.step = ctl.step /\ k.event = ctl.event /\ k.active = ctl.active
  <2>1. /\ quiet \in ControllerState /\ quiet.queue = ctl.queue /\ quiet.deferred = Idle
        /\ quiet.step = ctl.step /\ quiet.event = ctl.event /\ quiet.active = ctl.active
    BY CtlTyped, QuietIdle DEF ControllerState
  <2> HIDE DEF quiet
  <2> QED BY <2>1, CtlTyped, NoPauseIs DEF ControllerState
<1> HIDE DEF k, q
<1>6. ControllerFollows(ctl, k, q)
  BY <1>4, <1>5, QuietIdle, StaysFollows
<1> QED BY <1>1, <1>3, <1>4, <1>6, HostTyped, SameBindings, ControllerKeeps

LEMMA PauseKeeps ==
    ASSUME Playback, Pause PROVE Playback'
<1> DEFINE k == [ctl EXCEPT !.pausing =
                   IF ctl.active # None /\ Live(part[ctl.active]) THEN "muted" ELSE "silent"]
           q == Active(Mute(Playing))
<1>1. /\ ctl' = k /\ part' = q /\ up' = up
      /\ host' = host /\ down' = down /\ transport' = transport
  BY DEF Pause
<1>2. FadeParts(part, q)
  BY CtlTyped, PlayersFade, ActiveFades
<1>3. /\ k \in ControllerState /\ k.queue = ctl.queue /\ k.deferred = ctl.deferred
      /\ k.step = ctl.step /\ k.event = ctl.event /\ k.active = ctl.active
  BY CtlTyped DEF ControllerState
<1> HIDE DEF k, q
<1>4. ControllerFollows(ctl, k, q)
  BY <1>2, <1>3, CtlTyped, StaysFollows
<1> QED BY <1>1, <1>2, <1>4, HostTyped, SameBindings, ControllerKeeps

LEMMA PauseSettlesKeeps ==
    ASSUME Playback, PauseSettles PROVE Playback'
<1> DEFINE k == [ctl EXCEPT !.pausing = "no", !.stopped = TRUE]
           a == [ctl EXCEPT !.pausing = "no"]
           j == Degraded(a)
           q == Active(Stop(Playing, "stopped"))
           s == IF ctl.pausing = "muted" THEN Active(Unmute(Playing)) ELSE part
<1>1. /\ \/ ctl' = k /\ part' = q
         \/ ctl' = j /\ part' = s
      /\ up' = up /\ host' = host /\ down' = down /\ transport' = transport
  BY DEF PauseSettles
<1>2. FadeParts(part, q) /\ FadeParts(part, s)
  BY CtlTyped, StopFades, PlayersFade, ActiveFades, SameParts
<1>3. /\ k \in ControllerState /\ k.queue = ctl.queue /\ k.deferred = ctl.deferred
      /\ k.step = ctl.step /\ k.event = ctl.event /\ k.active = ctl.active
  BY CtlTyped DEF ControllerState
<1>4. /\ j \in ControllerState /\ j.queue = ctl.queue /\ j.deferred = ctl.deferred
      /\ j.step = ctl.step /\ j.event = ctl.event /\ j.active = ctl.active
  <2>1. /\ a \in ControllerState /\ a.queue = ctl.queue /\ a.deferred = ctl.deferred
        /\ a.step = ctl.step /\ a.event = ctl.event /\ a.active = ctl.active
    BY CtlTyped DEF ControllerState
  <2> HIDE DEF a
  <2> QED BY <2>1 DEF ControllerState, Degraded
<1> HIDE DEF k, j, q, s
<1>5. ControllerFollows(ctl, k, q)
  BY <1>2, <1>3, CtlTyped, StaysFollows
<1>6. ControllerFollows(ctl, j, s)
  BY <1>2, <1>4, CtlTyped, StaysFollows
<1> QED BY <1>1, <1>2, <1>5, <1>6, HostTyped, SameBindings, ControllerKeeps

LEMMA LeavesKeeps ==
    ASSUME Playback, Leaves PROVE Playback'
<1> DEFINE k == [ctl EXCEPT !.stopped = TRUE, !.speaking = FALSE, !.deferred = Idle]
           q == Active(Stop(Playing, "stopped"))
<1>1. /\ ctl' = k /\ part' = q /\ up' = up
      /\ host' = host /\ down' = down /\ transport' = transport
  BY DEF Leaves
<1>2. FadeParts(part, q)
  BY CtlTyped, StopFades, ActiveFades
<1>3. /\ k \in ControllerState /\ k.queue = ctl.queue /\ k.deferred = Idle
      /\ k.step = ctl.step /\ k.event = ctl.event /\ k.active = ctl.active
  BY CtlTyped, QuietIdle DEF ControllerState
<1> HIDE DEF k, q
<1>4. ControllerFollows(ctl, k, q)
  BY <1>2, <1>3, QuietIdle, StaysFollows
<1> QED BY <1>1, <1>2, <1>4, HostTyped, SameBindings, ControllerKeeps

\* the controller c that has not taken its step yet
Resembles(c) ==
    /\ c \in ControllerState
    /\ c.queue = ctl.queue
    /\ Quiet(c.deferred)
    /\ c.active = ctl.active
    /\ c.event = ctl.event

LEMMA ResemblesSelf ==
    ASSUME Playback PROVE Resembles(ctl)
  BY CtlTyped DEF Resembles

LEMMA StepResembles ==
    ASSUME NEW c, Resembles(c),
           NEW step \in {"idle", "storing", "pausing", "checkpointing", "reporting"}
    PROVE  Resembles([c EXCEPT !.step = step]) /\ [c EXCEPT !.step = step].step = step
  BY DEF Resembles, ControllerState

LEMMA BareResembles ==
    ASSUME NEW c, Resembles(c)
    PROVE  /\ Resembles([c EXCEPT !.provisional = NoPause])
           /\ Resembles([c EXCEPT !.deferred = Idle])
           /\ Resembles(Degraded(c))
           /\ \A n \in Int : Resembles([c EXCEPT !.epoch = n])
  BY NoPauseIs, QuietIdle DEF Resembles, ControllerState, Degraded

LEMMA TerminalizeFollows ==
    ASSUME Playback, NEW c, Resembles(c), ctl.step = "storing" \/ ~Announces(ctl.event),
           NEW why \in {"cancelled", "failed", "stopped"}, Terminalize(c, why)
    PROVE  FadeParts(part, part') /\ ControllerFollows(ctl, ctl', part')
<1> DEFINE q == Active(Stop(Playing, why))
           k == [c EXCEPT !.step = "reporting"]
<1>1. part' = q /\ ctl' = k
  BY DEF Terminalize
<1>2. /\ FadeParts(part, q)
      /\ ctl.active # None => ~Live(q[ctl.active])
  BY CtlTyped, StopFades, ActiveFades
<1>3. Resembles(k) /\ k.step = "reporting"
  BY StepResembles
<1> HIDE DEF q, k
<1>4. ControllerFollows(ctl, k, q)
  BY <1>2, <1>3, GoesFollows DEF Resembles
<1> QED BY <1>1, <1>2, <1>4

LEMMA LeaveFollows ==
    ASSUME Playback, NEW c, Resembles(c), Leave(c)
    PROVE  FadeParts(part, part') /\ ControllerFollows(ctl, ctl', part')
<1> DEFINE k == [c EXCEPT !.step = "idle"]
<1>1. part' = part /\ ctl' = k
  BY DEF Leave
<1>2. FadeParts(part, part)
  BY CtlTyped, SameParts
<1>3. Resembles(k) /\ k.step = "idle"
  BY StepResembles
<1> HIDE DEF k
<1>4. ControllerFollows(ctl, k, part)
  BY <1>2, <1>3, GoesFollows DEF Resembles
<1> QED BY <1>1, <1>2, <1>4

LEMMA ResumeFollows ==
    ASSUME Playback, NEW c, Resembles(c), ResumePlayer(c)
    PROVE  FadeParts(part, part') /\ ControllerFollows(ctl, ctl', part')
<1> DEFINE q == Active(Unmute(Playing))
           k == [c EXCEPT !.step = "idle"]
<1>1. part' = q /\ ctl' = k
  BY DEF ResumePlayer
<1>2. FadeParts(part, q)
  BY CtlTyped, PlayersFade, ActiveFades
<1>3. Resembles(k) /\ k.step = "idle"
  BY StepResembles
<1> HIDE DEF q, k
<1>4. ControllerFollows(ctl, k, q)
  BY <1>2, <1>3, GoesFollows DEF Resembles
<1> QED BY <1>1, <1>2, <1>4

LEMMA SilencedKeeps ==
    ASSUME Playback, Silenced PROVE Playback'
<1> DEFINE r == ctl.provisional.r
           n == IF ctl.provisional.at >= 0 THEN ctl.provisional.at ELSE part[r].played
           v == [ctl.provisional EXCEPT !.at = n]
           i == [ctl EXCEPT !.step = "idle"]
           k == [ctl EXCEPT !.step = "checkpointing", !.provisional = v]
<1>1. /\ ctl.step = "pausing" /\ part' = part /\ up' = up
      /\ host' = host /\ down' = down /\ transport' = transport
  BY DEF Silenced
<1>2. \/ ctl' = i
      \/ r # None /\ ctl' = k
  <2>1. ctl \in ControllerState /\ ctl.provisional \in Pauses
    BY CtlTyped
  <2>2. [ctl EXCEPT !.step = "checkpointing", !.provisional.at =
            IF @ >= 0 THEN @ ELSE part[r].played] = k
    BY <2>1 DEF ControllerState, Pauses
  <2> HIDE DEF k
  <2> QED BY <2>2 DEF Silenced
<1>3. ~Announces(ctl.event) /\ FadeParts(part, part)
  BY <1>1, CtlTyped, SameParts DEF Playback, PlaybackInv, Announcements
<1>4. CASE ctl' = i
  <2>1. Resembles(i) /\ i.step = "idle"
    BY ResemblesSelf, StepResembles
  <2> HIDE DEF i
  <2>2. ControllerFollows(ctl, i, part)
    BY <1>3, <2>1, GoesFollows DEF Resembles
  <2> QED BY <1>1, <1>3, <1>4, <2>2, HostTyped, SameBindings, ControllerKeeps
<1>5. CASE r # None /\ ctl' = k
  <2>1. r \in Responses
    BY <1>5, CtlTyped DEF Pauses, Maybe
  <2>2. part[r] \in Players
    BY <2>1, CtlTyped
  <2>3. part[r].played \in Nat /\ ctl.provisional.at \in Int
    BY <2>2, CtlTyped DEF Players, Pauses
  <2>4. n \in Int
    BY <2>3
  <2> HIDE DEF n
  <2>5. v \in Pauses
    BY <2>4, CtlTyped DEF Pauses
  <2> HIDE DEF v
  <2>6. /\ k \in ControllerState /\ k.queue = ctl.queue /\ k.deferred = ctl.deferred
        /\ k.step = "checkpointing" /\ k.event = ctl.event /\ k.active = ctl.active
    BY <2>5, CtlTyped DEF ControllerState
  <2> HIDE DEF k
  <2>7. ControllerFollows(ctl, k, part)
    BY <1>3, <2>6, CtlTyped, GoesFollows
  <2> QED BY <1>1, <1>3, <1>5, <2>7, HostTyped, SameBindings, ControllerKeeps
<1> QED BY <1>2, <1>4, <1>5

LEMMA CheckpointedKeeps ==
    ASSUME Playback, Checkpointed PROVE Playback'
<1> DEFINE pause == ctl.provisional
           m == [type |-> "playback.paused", r |-> ctl.event.r, at |-> pause.at]
           v == [ctl.provisional EXCEPT !.ready = (pause.r # None)]
           k == [ctl EXCEPT !.step = "idle", !.provisional = v]
           c == [ctl EXCEPT !.provisional = NoPause]
<1>1. ctl.step = "checkpointing" /\ host' = host /\ down' = down /\ transport' = transport
  BY DEF Checkpointed
<1>2. \/ /\ up' = IF transport.refused = "" THEN Append(up, m) ELSE up
         /\ ctl' = k /\ part' = part
      \/ Terminalize(Degraded(c), "failed") /\ up' = up
  <2>1. [ctl EXCEPT !.step = "idle", !.provisional.ready = (pause.r # None)] = k
    BY CtlTyped DEF ControllerState, Pauses
  <2> HIDE DEF k
  <2> QED BY <2>1 DEF Checkpointed
<1>3. ~Announces(ctl.event) /\ FadeParts(part, part)
  BY <1>1, CtlTyped, SameParts DEF Playback, PlaybackInv, Announcements
<1>4. CASE /\ up' = IF transport.refused = "" THEN Append(up, m) ELSE up
           /\ ctl' = k /\ part' = part
  <2>1. ctl.event.r \in Maybe /\ pause.at \in Int
    BY CtlTyped DEF Events, Pauses
  <2>2. m \in Reports
    BY <2>1 DEF Reports
  <2> HIDE DEF m
  <2>a. up \in Seq(Reports) /\ Append(up, m) \in Seq(Reports)
    BY <2>2, HostTyped
  <2>b. up' = up \/ up' = Append(up, m)
    BY <1>4 DEF m
  <2>3. up' \in Seq(Reports)
    BY <2>a, <2>b
  <2>4. v \in Pauses
    BY CtlTyped DEF Pauses
  <2> HIDE DEF v
  <2>5. /\ k \in ControllerState /\ k.queue = ctl.queue /\ k.deferred = ctl.deferred
        /\ k.step = "idle" /\ k.active = ctl.active
    BY <2>4, CtlTyped DEF ControllerState
  <2> HIDE DEF k
  <2>6. ControllerFollows(ctl, k, part)
    BY <1>3, <2>5, CtlTyped, GoesFollows
  <2> QED BY <1>1, <1>3, <1>4, <2>3, <2>6, HostTyped, SameBindings, ControllerKeeps
<1>5. CASE Terminalize(Degraded(c), "failed") /\ up' = up
  <2>1. Resembles(Degraded(c))
    BY ResemblesSelf, BareResembles
  <2> HIDE DEF c
  <2>2. FadeParts(part, part') /\ ControllerFollows(ctl, ctl', part')
    BY <1>3, <1>5, <2>1, TerminalizeFollows
  <2> QED BY <1>1, <1>5, <2>2, HostTyped, SameBindings, ControllerKeeps
<1> QED BY <1>2, <1>4, <1>5

LEMMA UnboundBinds ==
    ASSUME Playback, NEW S
    PROVE  /\ Binds(transport, [transport EXCEPT !.bound = Unbound(S)])
           /\ \A l \in Maybe : Binds(transport, [transport EXCEPT !.latest = l, !.bound = Unbound(S)])
           /\ \A r \in S \cap Responses : transport.bound[r] = "live" => Unbound(S)[r] = "terminal"
<1>1. transport \in TransportState
  BY HostTyped
<1>2. /\ Unbound(S) \in [Responses -> {"none", "live", "terminal"}]
      /\ \A r \in Responses :
            \/ Unbound(S)[r] = transport.bound[r]
            \/ transport.bound[r] = "live" /\ Unbound(S)[r] = "terminal"
      /\ \A r \in S \cap Responses : transport.bound[r] = "live" => Unbound(S)[r] = "terminal"
  BY <1>1 DEF Unbound, TransportState
<1> DEFINE b == Unbound(S)
<1> HIDE DEF b
<1>3. Binds(transport, [transport EXCEPT !.bound = b])
  BY <1>1, <1>2 DEF Binds, TransportState, b
<1>4. \A l \in Maybe : Binds(transport, [transport EXCEPT !.latest = l, !.bound = b])
  BY <1>1, <1>2 DEF Binds, TransportState, b
<1> QED BY <1>2, <1>3, <1>4 DEF b

LEMMA ReportStoredKeeps ==
    ASSUME Playback, NEW r \in Responses, ReportStored(r) PROVE Playback'
<1> DEFINE c == IF ctl.cancelling = r
                THEN [ctl EXCEPT !.provisional = NoPause, !.cancelling = None] ELSE ctl
           k == IF ctl.active = r THEN [c EXCEPT !.active = None] ELSE c
           j == Degraded(c)
           q == [part EXCEPT ![r] = [part[r] EXCEPT !.report = "done"]]
           t == [transport EXCEPT !.bound = Unbound({r})]
           m == [type |-> "playback.stopped", r |-> r, at |-> part[r].played]
<1>1. /\ part[r].report = "storing" /\ host' = host /\ down' = down
      /\ \/ /\ transport' = t /\ ctl' = k
            /\ up' = IF transport.refused # "" THEN up ELSE Append(up, m)
         \/ ctl' = j /\ transport' = transport /\ up' = up
  BY DEF ReportStored
<1>2. part' = q
  BY CtlTyped DEF ReportStored
<1>3. part \in [Responses -> Players] /\ part[r] \in Players /\ part[r].player = "stopped"
  BY <1>1, CtlTyped DEF Playback, PlaybackInv, Voices
<1>4. FadeParts(part, q)
  BY <1>3, PlayersFade, OneFades
<1>5. Binds(transport, t) /\ Binds(transport, transport)
  BY UnboundBinds, HostTyped, SameBindings
<1> HIDE DEF t
<1>6. up' \in Seq(Reports)
  <2>1. part[r].played \in Int
    <3>1. part[r].played \in Nat
      BY <1>3 DEF Players
    <3> QED BY <3>1
  <2>2. m \in Reports
    BY <2>1 DEF Reports, Maybe
  <2> HIDE DEF m
  <2>3. up \in Seq(Reports) /\ Append(up, m) \in Seq(Reports)
    BY <2>2, HostTyped
  <2>4. up' = up \/ up' = Append(up, m)
    BY <1>1 DEF m
  <2> QED BY <2>3, <2>4
<1>7. /\ c \in ControllerState /\ c.queue = ctl.queue /\ c.deferred = ctl.deferred
      /\ c.step = ctl.step /\ c.event = ctl.event /\ c.active = ctl.active
  BY CtlTyped, NoPauseIs DEF ControllerState, Maybe
<1> HIDE DEF c
<1>8. ControllerFollows(ctl, c, q)
  BY <1>4, <1>7, CtlTyped, StaysFollows
<1>9. ControllerFollows(ctl, j, q)
  <2>1. /\ j \in ControllerState /\ j.queue = ctl.queue /\ j.deferred = ctl.deferred
        /\ j.step = ctl.step /\ j.event = ctl.event /\ j.active = ctl.active
    BY <1>7 DEF ControllerState, Degraded
  <2> HIDE DEF j
  <2> QED BY <1>4, <2>1, CtlTyped, StaysFollows
<1>10. ControllerFollows(ctl, k, q)
  <2>1. CASE ctl.active # r
    BY <1>8, <2>1
  <2>2. CASE ctl.active = r
    <3>1. /\ k \in ControllerState /\ k.queue = ctl.queue /\ k.deferred = ctl.deferred
          /\ k.step = ctl.step /\ k.event = ctl.event /\ k.active = None
      BY <1>7, <2>2 DEF ControllerState, Maybe
    <3>2. ~Live(part[r])
      BY <1>3 DEF Live
    <3>3. \A s \in Responses : ~Live(part[s])
      BY <2>2, <3>2 DEF Playback, PlaybackInv, Voices
    <3>4. \A s \in Responses : ~Live(q[s])
      BY <1>4, <3>3 DEF FadeParts, Fades
    <3> HIDE DEF k, q
    <3> QED BY <3>1, <3>4 DEF ControllerFollows, Playback, PlaybackInv, Announcements
  <2> QED BY <2>1, <2>2
<1> HIDE DEF k, j, q
<1> QED BY <1>1, <1>2, <1>4, <1>5, <1>6, <1>9, <1>10, ControllerKeeps

\* one player goes on, with a count that is right
LEMMA ReplaceKeeps ==
    ASSUME Playback, NEW r \in Responses, NEW q \in Players,
           q.player # "none" /\ part[r].player # "none",
           Live(q) => Live(part[r]), q.report = "storing" => q.player = "stopped",
           Counted(host, down, transport, q, r),
           NEW k, ControllerFollows(ctl, k, [part EXCEPT ![r] = q])
    PROVE  PlaybackInv(host, down, up, transport, [part EXCEPT ![r] = q], k)
<1> DEFINE z == [part EXCEPT ![r] = q]
<1>1. /\ part \in [Responses -> Players]
      /\ PlaybackInv(host, down, up, transport, part, ctl)
  BY CtlTyped DEF Playback
<1>2. /\ z \in [Responses -> Players] /\ z[r] = q
      /\ \A s \in Responses \ {r} : z[s] = part[s]
  BY <1>1
<1> HIDE DEF z
<1>3. ControllerFollows(ctl, k, z)
  BY DEF z
<1>4. PlaybackTypes(host, down, up, transport, z, k)
  BY <1>1, <1>2, <1>3 DEF PlaybackInv, PlaybackTypes, ControllerFollows
<1>5. \A s \in Responses : z[s].player = "none" <=> part[s].player = "none"
  BY <1>2
<1>6. Announcements(host, down, z, k)
  <2> USE <1>1, <1>3 DEF PlaybackInv, Announcements, ControllerFollows
  <2>1. \A s \in Announced(down) \cup Announced(k.queue) :
           s \in Responses /\ ~Unannounced(host, s) /\ z[s].player = "none"
    BY <1>5
  <2>2. ASSUME k.step \in {"storing", "reporting"}, Announces(k.event)
        PROVE  /\ k.event.r \in Responses
               /\ k.event.r \notin Announced(down)
               /\ k.event.r \notin Announced(k.queue)
               /\ ~Unannounced(host, k.event.r)
               /\ z[k.event.r].player = "none"
    <3>1. ctl.step \in {"storing", "reporting"} /\ k.event = ctl.event
      BY <2>2 DEF Quiet
    <3> QED BY <1>5, <2>2, <3>1
  <2> QED BY <1>5, <2>1, <2>2
<1>7. Voices(z, k)
  BY <1>1, <1>2, <1>3 DEF PlaybackInv, Voices, ControllerFollows
<1>8. Counts(host, down, transport, z, k)
  <2>1. ASSUME NEW s \in Responses PROVE Counted(host, down, transport, z[s], s)
    BY <1>1, <1>2 DEF PlaybackInv, Counts
  <2>2. ASSUME k.step = "storing", Ends(k.event)
        PROVE  CountedAt(host, transport, k.event.r, k.event.at)
    <3>1. ctl.step = "storing" /\ k.event = ctl.event
      BY <1>3, <2>2 DEF ControllerFollows, Quiet
    <3> QED BY <1>1, <2>2, <3>1 DEF PlaybackInv, Counts
  <2> QED BY <1>1, <1>3, <2>1, <2>2 DEF PlaybackInv, Counts, ControllerFollows
<1> QED BY <1>4, <1>6, <1>7, <1>8 DEF PlaybackInv, z

\* what a player does when it has played all there is
LEMMA CompleteIs ==
    ASSUME NEW p \in Players, NEW h, NEW d, NEW t \in TransportState, NEW r \in Responses,
           Counted(h, d, t, p, r), Live(p), p.report = "storing" => p.player = "stopped"
    PROVE  /\ CompleteIfReady(p) \in Players
           /\ CompleteIfReady(p).player # "none"
           /\ CompleteIfReady(p).report = "storing" => CompleteIfReady(p).player = "stopped"
           /\ Counted(h, d, t, CompleteIfReady(p), r)
<1> DEFINE q == [p EXCEPT !.player = "stopped", !.report = "storing", !.reason = "completed"]
<1>1. /\ p.played \in Nat /\ p.total \in Int /\ t.got[r] \in Nat
      /\ p.player # "none" /\ p.player # "stopped"
  BY DEF Players, TransportState, Live
<1>2. CASE p.total >= 0 /\ p.played >= p.total
  <2>1. CompleteIfReady(p) = q
    BY <1>2 DEF CompleteIfReady, Stop
  <2>2. /\ q \in Players /\ q.player = "stopped" /\ q.reason = "completed"
        /\ q.played = p.played /\ q.total = p.total /\ q.buffer = p.buffer
    BY DEF Players
  <2> HIDE DEF q
  <2>3. p.total = t.got[r]
    BY <1>2 DEF Counted, CountedAt
  <2>a. p.played <= t.got[r]
    BY DEF Counted
  <2>4. p.played = p.total
    BY <1>1, <1>2, <2>3, <2>a
  <2>5. Counted(h, d, t, q, r)
    BY <1>2, <2>2, <2>4 DEF Counted
  <2> QED BY <2>1, <2>2, <2>5
<1>3. CASE ~(p.total >= 0 /\ p.played >= p.total)
  <2>1. CompleteIfReady(p) = p
    BY <1>3 DEF CompleteIfReady
  <2> QED BY <1>1, <2>1
<1> QED BY <1>2, <1>3

LEMMA CompleteLive ==
    ASSUME NEW p \in Players PROVE Live(CompleteIfReady(p)) => Live(p)
  BY DEF CompleteIfReady, Stop, Live, Players

\* no more than what has arrived can be scheduled
LEMMA ScheduledArrived ==
    ASSUME NEW p \in Players, NEW n \in Nat, \A k \in p.buffer : k < n
    PROVE  Scheduled(p) \in Nat /\ Scheduled(p) <= n
<1> DEFINE S == {k \in p.buffer : 0..k \subseteq p.buffer}
           N == 0..(n - 1)
<1>1. IsFiniteSet(N) /\ Cardinality(N) = n
  <2>1. n - 1 \in Int /\ 0 \in Int
    OBVIOUS
  <2>2. /\ IsFiniteSet(N)
        /\ Cardinality(N) = IF 0 > n - 1 THEN 0 ELSE (n - 1) - 0 + 1
    BY <2>1, FS_Interval
  <2> HIDE DEF N
  <2> QED BY <2>2, SMT
<1>2. S \subseteq N
  <2>1. p.buffer \subseteq Nat
    BY DEF Players
  <2> QED BY <2>1
<1> HIDE DEF S, N
<1>3. IsFiniteSet(S) /\ Cardinality(S) <= Cardinality(N)
  BY <1>1, <1>2, FS_Subset
<1>4. Cardinality(S) \in Nat
  BY <1>3, FS_CardinalityType
<1> QED BY <1>1, <1>3, <1>4 DEF Scheduled, S

LEMMA PlayKeeps ==
    ASSUME Playback, NEW r \in Responses, Play(r) PROVE Playback'
<1> DEFINE p == part[r]
<1>1. /\ part \in [Responses -> Players] /\ p \in Players /\ transport \in TransportState
      /\ p.played \in Nat /\ transport.got[r] \in Nat /\ p.player \in {"audible", "muted"}
      /\ Counted(host, down, transport, p, r) /\ p.report # "storing" /\ Live(p)
  <2>1. part \in [Responses -> Players] /\ p \in Players /\ transport \in TransportState
    BY HostTyped
  <2>2. p.player = "audible"
    BY DEF Play
  <2>3. Counted(host, down, transport, p, r) /\ p.report # "storing"
    BY <2>2 DEF Playback, PlaybackInv, Counts, Voices
  <2> QED BY <2>1, <2>2, <2>3 DEF Players, TransportState, Live
<1>2. PICK n \in Nat : n = p.played + 1
  BY <1>1
<1> DEFINE g == [p EXCEPT !.played = n]
<1>3. /\ part' = [part EXCEPT ![r] = CompleteIfReady(g)]
      /\ host' = host /\ down' = down /\ up' = up /\ transport' = transport /\ ctl' = ctl
  BY <1>2 DEF Play
<1>4. n <= transport.got[r]
  <2>1. Scheduled(p) \in Nat /\ Scheduled(p) <= transport.got[r]
    BY <1>1, ScheduledArrived DEF Counted
  <2>2. p.played < Scheduled(p)
    BY DEF Play
  <2> QED BY <1>1, <1>2, <2>1, <2>2
<1>5. /\ g \in Players /\ g.player = p.player /\ g.report = p.report /\ g.reason = p.reason
      /\ g.total = p.total /\ g.buffer = p.buffer /\ g.played = n
  BY <1>1 DEF Players
<1> HIDE DEF g
<1>6. Live(g)
  BY <1>1, <1>5 DEF Live
<1>7. Counted(host, down, transport, g, r)
  <2>1. p.reason # "completed"
    BY <1>1 DEF Counted
  <2> QED BY <1>1, <1>4, <1>5, <2>1 DEF Counted
<1> DEFINE q == CompleteIfReady(g)
<1>8. /\ q \in Players /\ q.player # "none"
      /\ q.report = "storing" => q.player = "stopped"
      /\ Live(q) => Live(g)
      /\ Counted(host, down, transport, q, r)
  BY <1>1, <1>5, <1>6, <1>7, CompleteIs, CompleteLive
<1> HIDE DEF q
<1> DEFINE z == [part EXCEPT ![r] = q]
<1>9. ControllerFollows(ctl, ctl, z)
  <2>1. \A s \in Responses : Live(z[s]) => Live(part[s])
    BY <1>1
  <2> HIDE DEF z
  <2>2. \A s \in Responses : Live(z[s]) => ctl.active = s
    BY <2>1 DEF Playback, PlaybackInv, Voices
  <2>3. ctl.step = "reporting" /\ ctl.active # None => ~Live(z[ctl.active])
    BY <2>1, CtlTyped DEF Playback, PlaybackInv, Voices
  <2> QED BY <2>2, <2>3, CtlTyped DEF ControllerFollows, Playback, PlaybackInv, Announcements
<1>10. PlaybackInv(host, down, up, transport, z, ctl)
  <2>1. part[r].player # "none" /\ Live(part[r])
    BY <1>1
  <2> HIDE DEF p, z
  <2> QED BY <1>8, <1>9, <2>1, ReplaceKeeps DEF z
<1> QED BY <1>3, <1>10 DEF Playback, q

LEMMA EndCounts ==
    ASSUME Playback, ctl.step = "storing", Ends(ctl.event), NEW c, Resembles(c),
           LET e == ctl.event IN
           part' = IF Live(part[e.r])
                   THEN [part EXCEPT ![e.r] = CompleteIfReady([@ EXCEPT !.total = e.at])]
                   ELSE part,
           ctl' = [c EXCEPT !.step = "idle"],
           host' = host, down' = down, up' = up, transport' = transport
    PROVE  Playback'
<1> DEFINE e == ctl.event
           r == e.r
           n == e.at
           p == part[r]
           g == [p EXCEPT !.total = n]
           k == [c EXCEPT !.step = "idle"]
<1>1. /\ CountedAt(host, transport, r, n) /\ r \in Responses /\ n \in Int
      /\ part \in [Responses -> Players] /\ p \in Players /\ transport \in TransportState
  <2>1. CountedAt(host, transport, r, n)
    BY DEF Playback, PlaybackInv, Counts
  <2>2. r \in Responses
    BY <2>1 DEF CountedAt, OverAt
  <2> QED BY <2>1, <2>2, HostTyped, CtlTyped DEF Events
<1> HIDE DEF n
<1>2. Resembles(k) /\ k.step = "idle"
  BY StepResembles
<1> HIDE DEF k
<1>3. ctl' = k
  BY DEF k
<1>4. CASE ~Live(p)
  <2>1. part' = part
    BY <1>4
  <2>2. ControllerFollows(ctl, k, part)
    BY <1>1, <1>2, SameParts, GoesFollows DEF Resembles
  <2> QED BY <1>1, <1>3, <2>1, <2>2, HostTyped, SameParts, SameBindings, ControllerKeeps
<1>5. CASE Live(p)
  <2>1. part' = [part EXCEPT ![r] = CompleteIfReady(g)]
    BY <1>5 DEF n
  <2>2. /\ p.player # "none" /\ p.player # "stopped" /\ p.report # "storing"
        /\ Counted(host, down, transport, p, r)
    BY <1>1, <1>5 DEF Live, Playback, PlaybackInv, Counts, Voices
  <2>3. /\ g \in Players /\ g.player = p.player /\ g.report = p.report /\ g.reason = p.reason
        /\ g.total = n /\ g.buffer = p.buffer /\ g.played = p.played
    BY <1>1 DEF Players
  <2> HIDE DEF g
  <2>4. Live(g)
    BY <1>5, <2>3 DEF Live
  <2>5. Counted(host, down, transport, g, r)
    <3>1. p.reason # "completed"
      BY <2>2 DEF Counted
    <3> QED BY <1>1, <2>2, <2>3, <3>1 DEF Counted
  <2> DEFINE q == CompleteIfReady(g)
  <2>6. /\ q \in Players /\ q.player # "none"
        /\ q.report = "storing" => q.player = "stopped"
        /\ Live(q) => Live(g)
        /\ Counted(host, down, transport, q, r)
    BY <1>1, <2>2, <2>3, <2>4, <2>5, CompleteIs, CompleteLive
  <2> HIDE DEF q
  <2> DEFINE z == [part EXCEPT ![r] = q]
  <2>7. ControllerFollows(ctl, k, z)
    <3>1. \A s \in Responses : Live(z[s]) => Live(part[s])
      BY <1>1, <1>5
    <3> HIDE DEF z
    <3>2. \A s \in Responses : Live(z[s]) => ctl.active = s
      BY <3>1 DEF Playback, PlaybackInv, Voices
    <3> QED BY <1>2, <3>2 DEF ControllerFollows, Resembles
  <2>8. PlaybackInv(host, down, up, transport, z, k)
    <3> HIDE DEF p, r
    <3> QED BY <1>1, <1>5, <2>2, <2>6, <2>7, ReplaceKeeps DEF p
  <2>9. part' = z
    BY <2>1 DEF q
  <2> HIDE DEF z
  <2> QED BY <1>3, <2>8, <2>9 DEF Playback
<1> QED BY <1>4, <1>5

LEMMA CreatedIs ==
    ASSUME NEW p \in Players, NEW speaking \in BOOLEAN,
           NEW q, q = IF speaking THEN MuteForSpeech([p EXCEPT !.player = "audible"])
                                  ELSE [p EXCEPT !.player = "audible"]
    PROVE  /\ q \in Players /\ q.player # "none"
           /\ q.total = p.total /\ q.buffer = p.buffer /\ q.played = p.played
           /\ q.report = "storing" => p.report = "storing" \/ q.player = "stopped"
           /\ q.reason = "completed" => p.reason = "completed"
<1> DEFINE f == [p EXCEPT !.player = "audible"]
<1>1. /\ f \in Players /\ f.player = "audible"
      /\ f.total = p.total /\ f.buffer = p.buffer /\ f.played = p.played
      /\ f.report = p.report /\ f.reason = p.reason
  BY DEF Players
<1> HIDE DEF f
<1>2. Fades(f, q)
  BY <1>1, PlayersFade DEF f
<1> QED BY <1>1, <1>2 DEF Fades

LEMMA CreateKeeps ==
    ASSUME Playback, ctl.step \in {"storing", "reporting"}, Announces(ctl.event),
           NEW c, Resembles(c), Create(c, ctl.event.r),
           ctl.active # None /\ ctl.active # ctl.event.r => ~Live(part[ctl.active]),
           host' = host, down' = down, up' = up, transport' = transport
    PROVE  Playback'
<1> DEFINE r == ctl.event.r
           p == part[r]
           f == [p EXCEPT !.player = "audible"]
           q == IF c.speaking THEN MuteForSpeech(f) ELSE f
           z == [part EXCEPT ![r] = q]
           k == [c EXCEPT !.active = r, !.step = "idle"]
<1>1. part' = z /\ ctl' = k
  BY DEF Create
<1>2. /\ part \in [Responses -> Players] /\ transport \in TransportState
      /\ r \in Responses /\ r \notin Announced(down) /\ r \notin Announced(ctl.queue)
      /\ ~Unannounced(host, r) /\ p.player = "none" /\ p \in Players
  BY HostTyped DEF Playback, PlaybackInv, Announcements
<1>3. c \in ControllerState /\ c.queue = ctl.queue /\ Quiet(c.deferred) /\ c.speaking \in BOOLEAN
  BY DEF Resembles, ControllerState
<1>4. /\ q \in Players /\ q.player # "none"
      /\ q.total = p.total /\ q.buffer = p.buffer /\ q.played = p.played
      /\ q.report = "storing" => p.report = "storing" \/ q.player = "stopped"
      /\ q.reason = "completed" => p.reason = "completed"
  BY <1>2, <1>3, CreatedIs
<1> HIDE DEF q
<1>5. /\ z \in [Responses -> Players] /\ z[r] = q
      /\ \A s \in Responses \ {r} : z[s] = part[s]
  BY <1>2, <1>4
<1> HIDE DEF z
<1>6. r \in Maybe
  BY <1>2 DEF Maybe
<1>7. /\ k \in ControllerState /\ k.queue = ctl.queue /\ Quiet(k.deferred)
      /\ k.step = "idle" /\ k.active = r
  BY <1>3, <1>6 DEF ControllerState
<1> HIDE DEF k
<1>8. PlaybackTypes(host, down, up, transport, z, k)
  BY <1>5, <1>7 DEF Playback, PlaybackInv, PlaybackTypes
<1>9. Announcements(host, down, z, k)
  <2>1. \A s \in Announced(down) \cup Announced(k.queue) :
           s \in Responses /\ ~Unannounced(host, s) /\ z[s].player = "none"
    BY <1>2, <1>5, <1>7 DEF Playback, PlaybackInv, Announcements
  <2>2. \A s \in Responses : Unannounced(host, s) => z[s].player = "none"
    BY <1>2, <1>5 DEF Playback, PlaybackInv, Announcements
  <2> QED BY <1>7, <2>1, <2>2 DEF Playback, PlaybackInv, Announcements
<1>10. Voices(z, k)
  <2>1. \A s \in Responses \ {r} : ~Live(z[s])
    <3>1. \A s \in Responses : Live(part[s]) => ctl.active = s
      BY DEF Playback, PlaybackInv, Voices
    <3>2. \A s \in Responses : s # None
      BY DEF Responses, None
    <3> QED BY <1>5, <3>1, <3>2
  <2>2. \A s \in Responses : z[s].report = "storing" => z[s].player = "stopped"
    BY <1>2, <1>4, <1>5 DEF Playback, PlaybackInv, Voices
  <2> QED BY <1>7, <2>1, <2>2 DEF Voices
<1>11. Counts(host, down, transport, z, k)
  <2>1. ASSUME NEW s \in Responses PROVE Counted(host, down, transport, z[s], s)
    <3>1. Counted(host, down, transport, part[s], s)
      BY DEF Playback, PlaybackInv, Counts
    <3>2. CASE s = r
      <4>1. q.reason # "completed"
        BY <1>2, <1>4, <3>1, <3>2 DEF Counted
      <4> QED BY <1>4, <1>5, <3>1, <3>2, <4>1 DEF Counted
    <3> QED BY <1>5, <3>1, <3>2
  <2> QED BY <1>7, <2>1 DEF Playback, PlaybackInv, Counts
<1>12. PlaybackInv(host, down, up, transport, z, k)
  BY <1>8, <1>9, <1>10, <1>11 DEF PlaybackInv
<1> QED BY <1>1, <1>12 DEF Playback

\* an event that has left the queues before it
Loose(h, d, t, p, c, e) ==
    /\ e \in Events
    /\ e.safe => Quiet(e)
    /\ Announces(e) =>
          /\ e.r \in Responses
          /\ e.r \notin Announced(d)
          /\ e.r \notin Announced(c.queue)
          /\ ~Unannounced(h, e.r)
          /\ p[e.r].player = "none"
    /\ Ends(e) => CountedAt(h, t, e.r, e.at)

LEMMA HandKeeps ==
    ASSUME NEW h, NEW d, NEW u, NEW t, NEW p, NEW c, PlaybackInv(h, d, u, t, p, c),
           NEW e, Loose(h, d, t, p, c, e)
    PROVE  PlaybackInv(h, d, u, t, p, [c EXCEPT !.step = "storing", !.event = e])
<1> DEFINE k == [c EXCEPT !.step = "storing", !.event = e]
<1>1. /\ k \in ControllerState /\ k.queue = c.queue /\ k.deferred = c.deferred
      /\ k.step = "storing" /\ k.event = e /\ k.active = c.active
  BY DEF PlaybackInv, PlaybackTypes, ControllerState, Loose
<1> HIDE DEF k
<1>2. PlaybackTypes(h, d, u, t, p, k)
  BY <1>1 DEF PlaybackInv, PlaybackTypes
<1>3. Announcements(h, d, p, k)
  BY <1>1 DEF PlaybackInv, Announcements, Loose
<1>4. Voices(p, k)
  BY <1>1 DEF PlaybackInv, Voices
<1>5. Counts(h, d, t, p, k)
  BY <1>1 DEF PlaybackInv, Counts, Loose
<1> QED BY <1>2, <1>3, <1>4, <1>5 DEF PlaybackInv, k

LEMMA IdleKeeps ==
    ASSUME NEW h, NEW d, NEW u, NEW t, NEW p, NEW c, PlaybackInv(h, d, u, t, p, c),
           NEW k \in ControllerState, k.queue = c.queue, Quiet(k.deferred),
           k.step = "idle", k.active = c.active
    PROVE  PlaybackInv(h, d, u, t, p, k)
<1>1. u \in Seq(Reports) /\ Binds(t, t) /\ FadeParts(p, p)
  BY SameBindings, SameParts DEF PlaybackInv, PlaybackTypes
<1>2. ControllerFollows(c, k, p)
  BY DEF ControllerFollows, PlaybackInv, Voices
<1> QED BY <1>1, <1>2, FadeKeeps

LEMMA DispatchKeeps ==
    ASSUME NEW h, NEW d, NEW u, NEW t, NEW p, NEW c, PlaybackInv(h, d, u, t, p, c),
           NEW e, Loose(h, d, t, p, c, e)
    PROVE  PlaybackInv(h, d, u, t, p, Dispatch(c, e))
<1> DEFINE i == [c EXCEPT !.step = "idle"]
           j == [c EXCEPT !.step = "idle", !.deferred = e]
<1>1. c \in ControllerState /\ Quiet(c.deferred)
  BY DEF PlaybackInv, PlaybackTypes, Announcements
<1>2. /\ i \in ControllerState /\ i.queue = c.queue /\ i.deferred = c.deferred
      /\ i.step = "idle" /\ i.active = c.active
  BY <1>1 DEF ControllerState
<1> HIDE DEF i
<1>3. PlaybackInv(h, d, u, t, p, i)
  BY <1>1, <1>2, IdleKeeps
<1>4. ASSUME e.safe PROVE PlaybackInv(h, d, u, t, p, j)
  <2>1. /\ j \in ControllerState /\ j.queue = c.queue /\ j.deferred = e
        /\ j.step = "idle" /\ j.active = c.active
    BY <1>1 DEF ControllerState, Loose
  <2> HIDE DEF j
  <2>2. Quiet(e)
    BY <1>4 DEF Loose
  <2> QED BY <2>1, <2>2, IdleKeeps
<1> HIDE DEF j
<1>5. PlaybackInv(h, d, u, t, p, [c EXCEPT !.step = "storing", !.event = e])
  BY HandKeeps
<1>6. \/ Dispatch(c, e) = i
      \/ e.safe /\ Dispatch(c, e) = j
      \/ Dispatch(c, e) = [c EXCEPT !.step = "storing", !.event = e]
  BY DEF Dispatch, i, j
<1> QED BY <1>3, <1>4, <1>5, <1>6

LEMMA TakeKeeps ==
    ASSUME Playback, Take PROVE Playback'
<1> DEFINE s == ctl.queue
           e == Head(s)
           c == [ctl EXCEPT !.queue = Tail(@)]
<1>1. /\ s # <<>> /\ ctl.step = "idle" /\ ctl' = Dispatch(c, e)
      /\ host' = host /\ down' = down /\ up' = up /\ transport' = transport /\ part' = part
  BY DEF Take
<1>2. ctl \in ControllerState /\ s \in Seq(Events)
  BY CtlTyped
<1>3. /\ e \in Events /\ Tail(s) \in Seq(Events)
      /\ \A i \in 1..Len(Tail(s)) : i + 1 \in 1..Len(s) /\ Tail(s)[i] = s[i + 1]
      /\ 1 \in 1..Len(s) /\ e = s[1]
      /\ Announced(Tail(s)) \subseteq Announced(s)
      /\ Announces(e) => e.r \in Announced(s)
      /\ Once(s) => Once(Tail(s))
      /\ Once(s) /\ Announces(e) => e.r \notin Announced(Tail(s))
  BY <1>1, <1>2, TailAnnounces
<1>4. /\ c \in ControllerState /\ c.queue = Tail(s) /\ c.deferred = ctl.deferred
      /\ c.step = "idle" /\ c.active = ctl.active
  BY <1>1, <1>2, <1>3 DEF ControllerState
<1> HIDE DEF c, s, e
<1>5. PlaybackInv(host, down, up, transport, part, c)
  <2> USE DEF Playback, PlaybackInv
  <2>1. PlaybackTypes(host, down, up, transport, part, c)
    BY <1>4 DEF PlaybackTypes
  <2>2. Announcements(host, down, part, c)
    <3>1. \A i \in 1..Len(c.queue) : c.queue[i].safe => Quiet(c.queue[i])
      BY <1>3, <1>4 DEF Announcements, s
    <3> QED BY <1>3, <1>4, <3>1 DEF Announcements, s
  <2>3. Voices(part, c)
    BY <1>4 DEF Voices
  <2>4. Counts(host, down, transport, part, c)
    <3>1. \A i \in 1..Len(c.queue) :
             Ends(c.queue[i]) => CountedAt(host, transport, c.queue[i].r, c.queue[i].at)
      BY <1>3, <1>4 DEF Counts, s
    <3> QED BY <1>4, <3>1 DEF Counts
  <2> QED BY <2>1, <2>2, <2>3, <2>4
<1>6. Loose(host, down, transport, part, c, e)
  <2> USE DEF Playback, PlaybackInv
  <2>1. e.safe => Quiet(e)
    BY <1>3 DEF Announcements, s
  <2>2. ASSUME Announces(e)
        PROVE  /\ e.r \in Responses
               /\ e.r \notin Announced(down)
               /\ e.r \notin Announced(c.queue)
               /\ ~Unannounced(host, e.r)
               /\ part[e.r].player = "none"
    BY <1>3, <1>4, <2>2 DEF Announcements, s
  <2>3. Ends(e) => CountedAt(host, transport, e.r, e.at)
    BY <1>3 DEF Counts, s
  <2> QED BY <1>3, <2>1, <2>2, <2>3 DEF Loose
<1>7. PlaybackInv(host, down, up, transport, part, Dispatch(c, e))
  BY <1>5, <1>6, DispatchKeeps
<1> QED BY <1>1, <1>7 DEF Playback, c, e, s

LEMMA ReportedKeeps ==
    ASSUME Playback, Reported PROVE Playback'
<1>1. /\ ctl.step = "reporting" /\ host' = host /\ down' = down /\ up' = up
      /\ transport' = transport
      /\ IF Announces(ctl.event) THEN Create(ctl, ctl.event.r) ELSE Leave(ctl)
  BY DEF Reported, Announces
<1>2. CASE Announces(ctl.event)
  <2>1. ctl.active # None => ~Live(part[ctl.active])
    BY <1>1 DEF Playback, PlaybackInv, Voices
  <2> QED BY <1>1, <1>2, <2>1, ResemblesSelf, CreateKeeps
<1>3. CASE ~Announces(ctl.event)
  <2>1. FadeParts(part, part') /\ ControllerFollows(ctl, ctl', part')
    BY <1>1, <1>3, ResemblesSelf, LeaveFollows
  <2> QED BY <1>1, <2>1, HostTyped, SameBindings, ControllerKeeps
<1> QED BY <1>2, <1>3

LEMMA EffectKeeps ==
    ASSUME Playback, ctl.step = "storing", NEW c, Resembles(c), c.step = "storing",
           Effect(c, ctl.event),
           host' = host, down' = down, up' = up, transport' = transport
    PROVE  Playback'
<1> DEFINE e == ctl.event
           bare == [c EXCEPT !.provisional = NoPause]
           other == c.active \notin {None, e.r} /\ Live(part[c.active])
<1>1. /\ up' \in Seq(Reports) /\ Binds(transport, transport')
      /\ e \in Events /\ c.active = ctl.active
  BY HostTyped, CtlTyped, SameBindings DEF Resembles
<1>2. ASSUME FadeParts(part, part'), ControllerFollows(ctl, ctl', part') PROVE Playback'
  BY <1>1, <1>2, ControllerKeeps
<1>3. ASSUME NEW k, Resembles(k), Leave(k) PROVE Playback'
  BY <1>2, <1>3, LeaveFollows
<1>4. ASSUME NEW k, Resembles(k), NEW why \in {"cancelled", "failed", "stopped"},
             Terminalize(k, why)
      PROVE  Playback'
  BY <1>2, <1>4, TerminalizeFollows
<1>5. ASSUME NEW k, Resembles(k), ResumePlayer(k) PROVE Playback'
  BY <1>2, <1>5, ResumeFollows
<1>6. Resembles(bare) /\ Resembles([bare EXCEPT !.deferred = Idle])
  <2>1. Resembles(bare)
    BY BareResembles
  <2> HIDE DEF bare
  <2> QED BY <2>1, BareResembles
<1>7. CASE e.type = "vad.speech_end"
  <2> DEFINE k == [c EXCEPT !.deferred = Idle]
  <2>1. CASE c.deferred = Idle
    <3>1. Leave(c)
      BY <1>7, <2>1 DEF Effect, Leave, Resolutions
    <3> QED BY <1>3, <3>1
  <2>2. CASE c.deferred # Idle
    <3>1. part' = part /\ ctl' = Dispatch(k, c.deferred)
      BY <1>7, <2>2 DEF Effect, Resolutions
    <3>a. Resembles(k)
      BY BareResembles
    <3>b. k.step = c.step
      BY DEF Resembles, ControllerState
    <3>2. Resembles(k) /\ k.step = ctl.step
      BY <3>a, <3>b
    <3>3. c.deferred \in Events /\ Quiet(c.deferred)
      BY DEF Resembles, ControllerState
    <3> HIDE DEF k
    <3>4. ControllerFollows(ctl, k, part) /\ FadeParts(part, part)
      BY <3>2, CtlTyped, SameParts, StaysFollows DEF Resembles
    <3>5. PlaybackInv(host, down, up, transport, part, k)
      BY <3>4, HostTyped, SameBindings, FadeKeeps DEF Playback
    <3>6. Loose(host, down, transport, part, k, c.deferred)
      BY <3>3 DEF Loose, Quiet
    <3>7. PlaybackInv(host, down, up, transport, part, Dispatch(k, c.deferred))
      BY <3>5, <3>6, DispatchKeeps
    <3> QED BY <3>1, <3>7 DEF Playback
  <2> QED BY <2>1, <2>2
<1>8. CASE e.type = "reasoning.started"
  <2>1. Terminalize(c, "cancelled") \/ Leave(c)
    BY <1>8 DEF Effect, Resolutions
  <2> QED BY <1>3, <1>4, <2>1
<1>9. CASE e.type = "tts.started"
  <2>1. IF other THEN Terminalize(c, "cancelled") ELSE Create(c, e.r)
    BY <1>9 DEF Effect, Resolutions
  <2>2. CASE other
    BY <1>4, <2>1, <2>2
  <2>3. CASE ~other
    <3>1. Create(c, e.r)
      BY <2>1, <2>3
    <3>2. ctl.active # None /\ ctl.active # e.r => ~Live(part[ctl.active])
      BY <1>1, <2>3
    <3> QED BY <1>9, <3>1, <3>2, CreateKeeps DEF Announces
  <2> QED BY <2>2, <2>3
<1>10. CASE e.type = "tts.ended"
  <2>1. /\ part' = IF Live(part[e.r])
                   THEN [part EXCEPT ![e.r] = CompleteIfReady([@ EXCEPT !.total = e.at])]
                   ELSE part
        /\ ctl' = [c EXCEPT !.step = "idle"]
    BY <1>10 DEF Effect, Resolutions
  <2> QED BY <1>10, <2>1, EndCounts DEF Ends
<1>11. CASE e.type \in {"response.failed", "response.cancelled"}
  <2>1. \/ \E why \in {"cancelled", "failed"} : Terminalize(bare, why)
        \/ Leave(bare)
    BY <1>11 DEF Effect, Resolutions
  <2> QED BY <1>3, <1>4, <1>6, <2>1
<1>12. CASE e.type = "barge_in.provisional" /\ c.active = e.r /\ e.r # None
  <2> DEFINE r == e.r
             held == part[r].speechPause
             v == [r |-> r, at |-> held, ready |-> FALSE]
             k == [c EXCEPT !.provisional = v, !.step = "pausing"]
             q == IF held >= 0 THEN [part[r] EXCEPT !.speechPause = -1] ELSE Mute(part[r])
             z == [part EXCEPT ![r] = q]
  <2>1. r \in Responses /\ part[r] \in Players /\ part \in [Responses -> Players]
    BY <1>12, CtlTyped DEF Events, Maybe
  <2>2. part' = z /\ ctl' = k
    BY <1>12, <2>1 DEF Effect, Resolutions
  <2>3. held \in Int /\ r \in Maybe
    BY <2>1 DEF Players, Maybe
  <2>4. Fades(part[r], q)
    BY <2>1, PlayersFade
  <2> HIDE DEF q, held
  <2>5. FadeParts(part, z)
    BY <2>1, <2>4, OneFades
  <2>6. v \in Pauses
    BY <2>3 DEF Pauses
  <2> HIDE DEF v, z
  <2>7. /\ k \in ControllerState /\ k.queue = ctl.queue /\ Quiet(k.deferred)
        /\ k.step = "pausing" /\ k.active = ctl.active /\ k.event = e
    BY <2>6 DEF Resembles, ControllerState
  <2> HIDE DEF k
  <2>8. ControllerFollows(ctl, k, z)
    BY <1>12, <2>5, <2>7, GoesFollows DEF Announces
  <2> QED BY <1>2, <2>2, <2>5, <2>8
<1>13. CASE e.type \in Resolutions /\ Matches(e)
  <2>1. \/ Terminalize(bare, "cancelled") \/ ResumePlayer(bare)
        \/ Leave([bare EXCEPT !.deferred = Idle])
    BY <1>13 DEF Effect, Resolutions
  <2> QED BY <1>3, <1>4, <1>5, <1>6, <2>1
<1>14. CASE /\ e.type \notin {"vad.speech_end", "reasoning.started", "tts.started", "tts.ended",
                              "response.failed", "response.cancelled"}
            /\ ~(e.type = "barge_in.provisional" /\ c.active = e.r /\ e.r # None)
            /\ ~(e.type \in Resolutions /\ Matches(e))
  <2>1. Leave(c)
    BY <1>14 DEF Effect, Resolutions
  <2> QED BY <1>3, <2>1
<1> QED BY <1>7, <1>8, <1>9, <1>10, <1>11, <1>12, <1>13, <1>14

LEMMA StoredKeeps ==
    ASSUME Playback, Stored PROVE Playback'
<1> DEFINE c == [ctl EXCEPT !.epoch = ctl.event.epoch]
<1>1. /\ ctl.step = "storing" /\ host' = host /\ down' = down /\ up' = up
      /\ transport' = transport
      /\ Effect(c, ctl.event) \/ Leave(Degraded(ctl))
  BY DEF Stored
<1>2. ctl.event.epoch \in Int
  BY CtlTyped DEF Events
<1>3. Resembles(c) /\ c.step = "storing" /\ Resembles(Degraded(ctl))
  BY <1>1, <1>2, CtlTyped, ResemblesSelf, BareResembles DEF ControllerState
<1> HIDE DEF c
<1>4. CASE Effect(c, ctl.event)
  BY <1>1, <1>3, <1>4, EffectKeeps
<1>5. CASE Leave(Degraded(ctl))
  <2>1. FadeParts(part, part') /\ ControllerFollows(ctl, ctl', part')
    BY <1>3, <1>5, LeaveFollows
  <2> QED BY <1>1, <2>1, HostTyped, SameBindings, ControllerKeeps
<1> QED BY <1>1, <1>4, <1>5

-----------------------------------------------------------------------------
(* Arrival.                                                                *)

\* e, which no event is announced twice for, may join the queue
Joins(h, d, t, p, c, e) ==
    /\ Loose(h, d, t, p, c, e)
    /\ c.step \in {"storing", "reporting"} /\ Announces(c.event) /\ Announces(e) =>
          c.event.r # e.r

LEMMA QueueKeeps ==
    ASSUME NEW h, NEW d, NEW u, NEW t, NEW p, NEW c, PlaybackInv(h, d, u, t, p, c),
           NEW e, Joins(h, d, t, p, c, e)
    PROVE  PlaybackInv(h, d, u, t, p, [c EXCEPT !.queue = Append(@, e)])
<1> DEFINE s == c.queue
           b == Append(s, e)
           k == [c EXCEPT !.queue = b]
<1>1. c \in ControllerState /\ s \in Seq(Events) /\ e \in Events
  BY DEF PlaybackInv, PlaybackTypes, ControllerState, Joins, Loose
<1>2. /\ b \in Seq(Events)
      /\ Announces(e) => Announced(b) = Announced(s) \cup {e.r}
      /\ ~Announces(e) => Announced(b) = Announced(s)
      /\ Once(s) /\ (Announces(e) => e.r \notin Announced(s)) => Once(b)
      /\ \A i \in 1..Len(b) : (i \in 1..Len(s) /\ b[i] = s[i]) \/ b[i] = e
  BY <1>1, AppendAnnounces
<1> HIDE DEF b
<1>3. /\ k \in ControllerState /\ k.queue = b /\ k.deferred = c.deferred
      /\ k.step = c.step /\ k.event = c.event /\ k.active = c.active
  BY <1>1, <1>2 DEF ControllerState
<1>4. k = [c EXCEPT !.queue = Append(@, e)]
  BY <1>1 DEF b, ControllerState
<1> HIDE DEF k, s
<1>5. PlaybackTypes(h, d, u, t, p, k)
  BY <1>3 DEF PlaybackInv, PlaybackTypes
<1>6. Announcements(h, d, p, k)
  <2> USE DEF PlaybackInv, Announcements, s
  <2>1. Once(b)
    BY <1>2 DEF Joins, Loose
  <2>2. Announced(d) \cap Announced(b) = {}
    BY <1>2 DEF Joins, Loose
  <2>3. \A r \in Announced(d) \cup Announced(b) :
           r \in Responses /\ ~Unannounced(h, r) /\ p[r].player = "none"
    BY <1>2 DEF Joins, Loose
  <2>4. \A i \in 1..Len(b) : b[i].safe => Quiet(b[i])
    BY <1>2 DEF Joins, Loose
  <2>5. ASSUME k.step \in {"storing", "reporting"}, Announces(k.event)
        PROVE  k.event.r \notin Announced(b)
    BY <1>2, <1>3, <2>5 DEF Joins
  <2> QED BY <1>3, <2>1, <2>2, <2>3, <2>4, <2>5
<1>7. Voices(p, k)
  BY <1>3 DEF PlaybackInv, Voices
<1>8. Counts(h, d, t, p, k)
  <2>1. ASSUME NEW i \in 1..Len(b), Ends(b[i]) PROVE CountedAt(h, t, b[i].r, b[i].at)
    <3>1. CASE i \in 1..Len(s) /\ b[i] = s[i]
      BY <2>1, <3>1 DEF PlaybackInv, Counts, s
    <3>2. CASE b[i] = e
      BY <2>1, <3>2 DEF Joins, Loose
    <3> QED BY <1>2, <3>1, <3>2
  <2> QED BY <1>3, <2>1 DEF PlaybackInv, Counts
<1> QED BY <1>4, <1>5, <1>6, <1>7, <1>8 DEF PlaybackInv

\* the head of what is on its way leaves it
LEMMA HeadLeaves ==
    ASSUME Playback, down # <<>>
    PROVE  LET e == Head(down)
               d == Tail(down)
           IN  /\ PlaybackInv(host, d, up, transport, part, ctl)
               /\ e \in Events
               /\ e.safe => Quiet(e)
               /\ Announces(e) =>
                     /\ e.r \in Responses
                     /\ e.r \notin Announced(d)
                     /\ e.r \notin Announced(ctl.queue)
                     /\ ~Unannounced(host, e.r)
                     /\ part[e.r].player = "none"
                     /\ transport.bound[e.r] = "none"
               /\ ctl.step \in {"storing", "reporting"} /\ Announces(ctl.event) /\ Announces(e) =>
                     ctl.event.r # e.r
               /\ Ends(e) => OverAt(host, e.r, e.at)
<1> DEFINE e == Head(down)
           d == Tail(down)
<1>1. down \in Seq(Events)
  BY HostTyped
<1>2. /\ e \in Events /\ d \in Seq(Events)
      /\ \A i \in 1..Len(d) : i + 1 \in 1..Len(down) /\ d[i] = down[i + 1]
      /\ 1 \in 1..Len(down) /\ e = down[1]
      /\ Announced(d) \subseteq Announced(down)
      /\ Announces(e) => e.r \in Announced(down)
      /\ Once(down) => Once(d)
      /\ Once(down) /\ Announces(e) => e.r \notin Announced(d)
  BY <1>1, TailAnnounces
<1> HIDE DEF e, d
<1> USE DEF Playback, PlaybackInv
<1>3. PlaybackTypes(host, d, up, transport, part, ctl)
  BY <1>2 DEF PlaybackTypes
<1>4. Announcements(host, d, part, ctl)
  <2>1. \A i \in 1..Len(d) : d[i].safe => Quiet(d[i])
    BY <1>2 DEF Announcements
  <2> QED BY <1>2, <2>1 DEF Announcements
<1>5. Counts(host, d, transport, part, ctl)
  <2>1. \A i \in 1..Len(d) : Ends(d[i]) => OverAt(host, d[i].r, d[i].at)
    BY <1>2 DEF Counts
  <2>2. ASSUME NEW r \in Responses PROVE Counted(host, d, transport, part[r], r)
    BY <1>2 DEF Counts, Counted
  <2> QED BY <2>1, <2>2 DEF Counts
<1>6. PlaybackInv(host, d, up, transport, part, ctl)
  BY <1>3, <1>4, <1>5
<1>7. e.safe => Quiet(e)
  BY <1>2 DEF Announcements
<1>8. ASSUME Announces(e)
      PROVE  /\ e.r \in Responses
             /\ e.r \notin Announced(d)
             /\ e.r \notin Announced(ctl.queue)
             /\ ~Unannounced(host, e.r)
             /\ part[e.r].player = "none"
             /\ transport.bound[e.r] = "none"
  <2>1. /\ e.r \in Responses
        /\ e.r \notin Announced(d)
        /\ e.r \notin Announced(ctl.queue)
        /\ ~Unannounced(host, e.r)
        /\ part[e.r].player = "none"
    BY <1>2, <1>8 DEF Announcements
  <2>2. Counted(host, down, transport, part[e.r], e.r)
    BY <2>1 DEF Counts
  <2> QED BY <1>2, <1>8, <2>1, <2>2 DEF Counted
<1>9. ctl.step \in {"storing", "reporting"} /\ Announces(ctl.event) /\ Announces(e) =>
         ctl.event.r # e.r
  BY <1>2 DEF Announcements
<1>10. Ends(e) => OverAt(host, e.r, e.at)
  BY <1>2 DEF Counts
<1> QED BY <1>2, <1>6, <1>7, <1>8, <1>9, <1>10 DEF e, d

\* an announced response gets its binding
LEMMA BindKeeps ==
    ASSUME NEW h, NEW d, NEW u, NEW t, NEW p, NEW c, PlaybackInv(h, d, u, t, p, c),
           NEW r \in Responses, t.bound[r] = "none", r \notin Announced(d), ~Unannounced(h, r)
    PROVE  PlaybackInv(h, d, u, [t EXCEPT !.bound[r] = "live"], p, c)
<1> DEFINE b == [t.bound EXCEPT ![r] = "live"]
           s == [t EXCEPT !.bound = b]
<1>1. t \in TransportState
  BY DEF PlaybackInv, PlaybackTypes
<1>2. /\ b \in [Responses -> {"none", "live", "terminal"}] /\ b[r] = "live"
      /\ \A q \in Responses \ {r} : b[q] = t.bound[q]
  BY <1>1 DEF TransportState
<1> HIDE DEF b
<1>3. s \in TransportState /\ s.bound = b /\ s.got = t.got
  BY <1>1, <1>2 DEF TransportState
<1>4. s = [t EXCEPT !.bound[r] = "live"]
  BY DEF b
<1> HIDE DEF s
<1>5. ASSUME NEW q, NEW n, CountedAt(h, t, q, n) PROVE CountedAt(h, s, q, n)
  <2>1. q # r /\ q \in Responses
    BY <1>5 DEF CountedAt, OverAt
  <2> QED BY <1>2, <1>3, <1>5, <2>1 DEF CountedAt
<1>6. PlaybackTypes(h, d, u, s, p, c)
  BY <1>3 DEF PlaybackInv, PlaybackTypes
<1>7. Counts(h, d, s, p, c)
  <2>1. ASSUME NEW q \in Responses PROVE Counted(h, d, s, p[q], q)
    <3>1. Counted(h, d, t, p[q], q)
      BY DEF PlaybackInv, Counts
    <3> QED BY <1>2, <1>3, <1>5, <3>1 DEF Counted
  <2> QED BY <1>5, <2>1 DEF PlaybackInv, Counts
<1> QED BY <1>4, <1>6, <1>7 DEF PlaybackInv

\* a chunk arrives, and its player has it or misses it
LEMMA ChunkKeeps ==
    ASSUME NEW h, NEW d, NEW u, NEW t, NEW p, NEW c, PlaybackInv(h, d, u, t, p, c),
           NEW r \in Responses, t.bound[r] = "live", NEW n \in Nat, n = t.got[r] + 1,
           NEW q, q = p \/ q = [p EXCEPT ![r].buffer = @ \cup {t.got[r]}]
    PROVE  PlaybackInv(h, d, u, [t EXCEPT !.got[r] = n], q, c)
<1> DEFINE g == [t.got EXCEPT ![r] = n]
           s == [t EXCEPT !.got = g]
<1>1. /\ t \in TransportState /\ p \in [Responses -> Players] /\ p[r] \in Players
      /\ t.got[r] \in Nat
  BY DEF PlaybackInv, PlaybackTypes, TransportState
<1>2. /\ g \in [Responses -> Nat] /\ g[r] = n
      /\ \A o \in Responses \ {r} : g[o] = t.got[o]
  BY <1>1 DEF TransportState
<1> HIDE DEF g
<1>3. s \in TransportState /\ s.got = g /\ s.bound = t.bound
  BY <1>1, <1>2 DEF TransportState
<1>4. s = [t EXCEPT !.got[r] = n]
  BY DEF g
<1> HIDE DEF s
<1>5. /\ q \in [Responses -> Players]
      /\ \A o \in Responses \ {r} : q[o] = p[o]
      /\ q[r].buffer \subseteq p[r].buffer \cup {t.got[r]}
      /\ q[r].player = p[r].player /\ q[r].report = p[r].report /\ q[r].reason = p[r].reason
      /\ q[r].total = p[r].total /\ q[r].played = p[r].played
  <2>1. CASE q = p
    BY <1>1, <2>1
  <2>2. CASE q = [p EXCEPT ![r].buffer = @ \cup {t.got[r]}]
    <3> DEFINE b == p[r].buffer \cup {t.got[r]}
               x == [p[r] EXCEPT !.buffer = b]
    <3>1. q = [p EXCEPT ![r] = x]
      BY <2>2
    <3>2. p[r].buffer \subseteq Nat
      BY <1>1 DEF Players
    <3>3. b \in SUBSET Nat
      BY <1>1, <3>2
    <3> HIDE DEF b
    <3>4. /\ x \in Players /\ x.buffer = b
          /\ x.player = p[r].player /\ x.report = p[r].report /\ x.reason = p[r].reason
          /\ x.total = p[r].total /\ x.played = p[r].played
      BY <1>1, <3>3 DEF Players
    <3> HIDE DEF x
    <3>5. q \in [Responses -> Players] /\ q[r] = x /\ \A o \in Responses \ {r} : q[o] = p[o]
      BY <1>1, <3>1, <3>4
    <3> QED BY <3>4, <3>5 DEF b
  <2> QED BY <2>1, <2>2
<1>6. \A o \in Responses : /\ q[o].player = p[o].player
                           /\ q[o].report = p[o].report
                           /\ Live(q[o]) <=> Live(p[o])
  BY <1>5 DEF Live
<1>7. ASSUME NEW o, NEW m, CountedAt(h, t, o, m) PROVE CountedAt(h, s, o, m)
  <2>1. o # r /\ o \in Responses
    BY <1>7 DEF CountedAt, OverAt
  <2> QED BY <1>2, <1>3, <1>7, <2>1 DEF CountedAt
<1>8. PlaybackTypes(h, d, u, s, q, c)
  BY <1>3, <1>5 DEF PlaybackInv, PlaybackTypes
<1>9. Announcements(h, d, q, c)
  BY <1>6 DEF PlaybackInv, Announcements
<1>10. Voices(q, c)
  <2>1. c.active # None => c.active \in Responses
    BY DEF PlaybackInv, PlaybackTypes, ControllerState, Maybe
  <2> QED BY <1>6, <2>1 DEF PlaybackInv, Voices
<1>11. Counts(h, d, s, q, c)
  <2>1. ASSUME NEW o \in Responses \ {r} PROVE Counted(h, d, s, q[o], o)
    <3>1. Counted(h, d, t, p[o], o)
      BY DEF PlaybackInv, Counts
    <3> QED BY <1>2, <1>3, <1>5, <1>7, <3>1 DEF Counted
  <2>2. Counted(h, d, s, q[r], r)
    <3>1. Counted(h, d, t, p[r], r)
      BY DEF PlaybackInv, Counts
    <3>2. ~(p[r].total >= 0)
      BY <3>1 DEF Counted, CountedAt
    <3>3. p[r].played \in Nat /\ p[r].buffer \subseteq Nat
      BY <1>1 DEF Players
    <3>4. q[r].played <= s.got[r]
      <4>1. p[r].played <= t.got[r]
        BY <3>1 DEF Counted
      <4> QED BY <1>1, <1>2, <1>3, <1>5, <3>3, <4>1
    <3>5. \A k \in q[r].buffer : k < s.got[r]
      <4>1. \A k \in p[r].buffer : k \in Nat /\ k < t.got[r]
        BY <3>1, <3>3 DEF Counted
      <4>2. s.got[r] = t.got[r] + 1
        BY <1>2, <1>3
      <4> QED BY <1>1, <1>5, <4>1, <4>2
    <3>6. q[r].reason # "completed"
      BY <1>5, <3>1, <3>2 DEF Counted
    <3> QED BY <1>3, <1>5, <3>1, <3>2, <3>4, <3>5, <3>6 DEF Counted
  <2> QED BY <1>7, <2>1, <2>2 DEF PlaybackInv, Counts
<1> QED BY <1>4, <1>8, <1>9, <1>10, <1>11 DEF PlaybackInv

LEMMA RefusalIs ==
    ASSUME NEW e \in Events
    PROVE  /\ Refusal(e) \in {"", "started", "failed", "cancelled", "ended", "audio"}
           /\ Refusal(e) = "" /\ e.type = "audio" => transport.bound[e.r] = "live"
           /\ Refusal(e) = "" /\ Ends(e) =>
                 transport.bound[e.r] # "none" /\ e.at = transport.got[e.r]
  BY DEF Refusal, Ends

LEMMA RefuseKeeps ==
    ASSUME Playback, NEW d, PlaybackInv(host, d, up, transport, part, ctl),
           NEW why \in {"started", "failed", "cancelled", "ended", "audio"}, Refuse(why)
    PROVE  PlaybackInv(host, d, up, transport', part', ctl')
<1> DEFINE s == [transport EXCEPT !.refused = why]
           q == Active(Stop(Playing, "failed"))
           k == [ctl EXCEPT !.provisional = NoPause, !.degraded = TRUE]
<1>1. /\ transport' = s
      /\ (part' = q /\ ctl' = k) \/ (part' = part /\ ctl' = ctl)
  BY DEF Refuse
<1>2. Binds(transport, s)
  BY HostTyped DEF Binds, TransportState
<1> HIDE DEF s
<1>3. FadeParts(part, q) /\ FadeParts(part, part)
  BY CtlTyped, StopFades, ActiveFades, SameParts
<1>4. /\ k \in ControllerState /\ k.queue = ctl.queue /\ k.deferred = ctl.deferred
      /\ k.step = ctl.step /\ k.event = ctl.event /\ k.active = ctl.active
  BY CtlTyped, NoPauseIs DEF ControllerState
<1> HIDE DEF k, q
<1>5. ControllerFollows(ctl, k, q) /\ ControllerFollows(ctl, ctl, part)
  BY <1>3, <1>4, CtlTyped, StaysFollows
<1> QED BY <1>1, <1>2, <1>3, <1>5, HostTyped, FadeKeeps

LEMMA OneMore ==
    ASSUME NEW m \in Nat PROVE \E n \in Nat : n = m + 1
  OBVIOUS

LEMMA HearKeeps ==
    ASSUME Playback, NEW d, PlaybackInv(host, d, up, transport, part, ctl),
           NEW e \in Events, e.type = "audio", Refusal(e) = "",
           transport' = Checked(e), HearAudio(e)
    PROVE  PlaybackInv(host, d, up, transport', part', ctl')
<1> DEFINE r == e.r
           q == [part EXCEPT ![r].buffer = @ \cup {transport.got[r]}]
<1>1. /\ transport' = [transport EXCEPT !.got[r] = @ + 1]
      /\ part' = part \/ part' = q
      /\ ctl' = ctl
  BY DEF Checked, HearAudio
<1>2. /\ transport \in TransportState /\ part \in [Responses -> Players]
      /\ transport.bound[r] = "live"
  BY HostTyped, RefusalIs
<1>3. CASE r \in Responses
  <2>1. transport.got[r] \in Nat
    BY <1>2, <1>3 DEF TransportState
  <2>2. PICK n \in Nat : n = transport.got[r] + 1
    BY <2>1, OneMore
  <2>3. transport' = [transport EXCEPT !.got[r] = n]
    BY <1>1, <2>2
  <2>4. \/ part' = part
        \/ part' = [part EXCEPT ![r].buffer = @ \cup {transport.got[r]}]
    BY <1>1
  <2> HIDE DEF r
  <2>5. PlaybackInv(host, d, up, [transport EXCEPT !.got[r] = n], part', ctl)
    BY <1>2, <1>3, <2>2, <2>4, ChunkKeeps
  <2> QED BY <1>1, <2>3, <2>5
<1>4. CASE r \notin Responses
  <2>1. part' = part
    BY <1>1, <1>2, <1>4
  <2> DEFINE g == [transport.got EXCEPT ![r] = transport.got[r] + 1]
  <2>2. g = transport.got
    BY <1>2, <1>4 DEF TransportState
  <2>3. transport' = [transport EXCEPT !.got = g]
    BY <1>1
  <2> HIDE DEF g
  <2>4. transport' = transport
    BY <1>2, <2>2, <2>3 DEF TransportState
  <2> QED BY <1>1, <2>1, <2>4
<1> QED BY <1>3, <1>4

\* the checks of an event leave the bindings of the other responses alone
LEMMA CheckedKeeps ==
    ASSUME Playback, NEW d, PlaybackInv(host, d, up, transport, part, ctl),
           NEW e \in Events, e.type # "audio", Refusal(e) = "",
           transport' = Checked(e),
           Announces(e) => /\ e.r \in Responses
                           /\ e.r \notin Announced(d)
                           /\ ~Unannounced(host, e.r)
                           /\ transport.bound[e.r] = "none",
           Ends(e) => OverAt(host, e.r, e.at)
    PROVE  /\ PlaybackInv(host, d, up, transport', part, ctl)
           /\ Ends(e) => CountedAt(host, transport', e.r, e.at)
<1> DEFINE r == e.r
<1>1. transport \in TransportState /\ r \in Maybe /\ transport.latest \in Maybe
  BY HostTyped DEF Events, TransportState
<1>2. ASSUME Binds(transport, transport') PROVE PlaybackInv(host, d, up, transport', part, ctl)
  <2>1. FadeParts(part, part) /\ ControllerFollows(ctl, ctl, part)
    BY CtlTyped, SameParts, StaysFollows
  <2> QED BY <1>2, <2>1, HostTyped, FadeKeeps
<1>3. CASE Announces(e)
  <2>1. transport' = [transport EXCEPT !.bound[r] = "live"]
    BY <1>3 DEF Checked, Announces
  <2>2. /\ r \in Responses /\ r \notin Announced(d)
        /\ ~Unannounced(host, r) /\ transport.bound[r] = "none"
    BY <1>3
  <2>3. PlaybackInv(host, d, up, [transport EXCEPT !.bound[r] = "live"], part, ctl)
    <3> HIDE DEF r
    <3> QED BY <2>2, BindKeeps
  <2>4. ~Ends(e)
    BY <1>3 DEF Announces, Ends
  <2> QED BY <2>1, <2>3, <2>4
<1>4. CASE e.type = "reasoning.started"
  <2>1. transport' = [transport EXCEPT !.latest = r, !.bound =
                IF transport.latest = None THEN @ ELSE Unbound(Responses)]
    BY <1>4 DEF Checked
  <2>2. Binds(transport, [transport EXCEPT !.latest = r])
    BY <1>1 DEF Binds, TransportState
  <2>3. Binds(transport, [transport EXCEPT !.latest = r, !.bound = Unbound(Responses)])
    BY <1>1, UnboundBinds
  <2>4. \/ transport' = [transport EXCEPT !.latest = r]
        \/ transport' = [transport EXCEPT !.latest = r, !.bound = Unbound(Responses)]
    BY <1>1, <2>1 DEF TransportState
  <2>5. Binds(transport, transport')
    BY <2>2, <2>3, <2>4
  <2> QED BY <1>2, <1>4, <2>5 DEF Ends
<1>5. CASE Ends(e)
  <2>1. transport' = [transport EXCEPT !.latest = None, !.bound = Unbound({r})]
    BY <1>5 DEF Checked, Ends
  <2>2. None \in Maybe
    BY DEF Maybe
  <2>a. \A m \in Maybe : Binds(transport, [transport EXCEPT !.latest = m, !.bound = Unbound({r})])
    BY UnboundBinds
  <2>3. Binds(transport, transport')
    BY <2>1, <2>2, <2>a
  <2>4. /\ OverAt(host, r, e.at) /\ r \in Responses
        /\ transport.bound[r] # "none" /\ e.at = transport.got[r]
    BY <1>5, RefusalIs DEF OverAt
  <2>5. transport'.bound[r] = "terminal"
    <3>1. transport'.bound = Unbound({r})
      BY <1>1, <2>1 DEF TransportState
    <3>2. transport.bound[r] \in {"none", "live", "terminal"}
      BY <1>1, <2>4 DEF TransportState
    <3> QED BY <2>4, <3>1, <3>2 DEF Unbound
  <2>6. CountedAt(host, transport', r, e.at)
    BY <2>3, <2>4, <2>5 DEF CountedAt, Binds
  <2> QED BY <1>2, <2>3, <2>6
<1>6. CASE e.type \in {"response.failed", "response.cancelled"}
  <2> DEFINE l == IF transport.latest = r THEN None ELSE transport.latest
  <2>1. transport' = [transport EXCEPT !.latest = l, !.bound = Unbound({r})]
    <3>1. transport' = [transport EXCEPT !.bound = Unbound({r}),
                                         !.latest = IF @ = r THEN None ELSE @]
      BY <1>6 DEF Checked
    <3> QED BY <1>1, <3>1 DEF TransportState
  <2>2. l \in Maybe
    BY <1>1 DEF Maybe
  <2>a. \A m \in Maybe : Binds(transport, [transport EXCEPT !.latest = m, !.bound = Unbound({r})])
    BY UnboundBinds
  <2> HIDE DEF l
  <2>3. Binds(transport, transport')
    BY <2>1, <2>2, <2>a
  <2> QED BY <1>2, <1>6, <2>3 DEF Ends
<1>7. CASE e.type \notin {"reasoning.started", "tts.started", "audio", "tts.ended",
                         "response.failed", "response.cancelled"}
  <2>1. transport' = transport
    BY <1>7 DEF Checked
  <2> QED BY <1>1, <1>2, <1>7, <2>1, SameBindings DEF Ends
<1> QED BY <1>3, <1>4, <1>5, <1>6, <1>7 DEF Announces, Ends

LEMMA ObserveKeeps ==
    ASSUME Playback, NEW d, NEW t, PlaybackInv(host, d, up, t, part, ctl),
           NEW e \in Events, Joins(host, d, t, part, ctl, e), Observe(e)
    PROVE  PlaybackInv(host, d, up, t, part', ctl')
<1> DEFINE c == [ctl EXCEPT !.queue = Append(@, e)]
           j == [c EXCEPT !.speaking = TRUE]
           k == [c EXCEPT !.speaking = FALSE]
           q == Active(MuteForSpeech(Playing))
<1>1. PlaybackInv(host, d, up, t, part, c)
  BY QueueKeeps
<1>2. \/ ctl' = j /\ part' = q
      \/ ctl' = k /\ part' = part
      \/ ctl' = c /\ part' = part
  BY DEF Observe
<1> HIDE DEF c
<1>3. c \in ControllerState /\ up \in Seq(Reports) /\ t \in TransportState
  BY <1>1 DEF PlaybackInv, PlaybackTypes
<1>4. FadeParts(part, q) /\ FadeParts(part, part)
  BY CtlTyped, PlayersFade, ActiveFades, SameParts
<1> HIDE DEF q
<1>5. ASSUME NEW z, FadeParts(part, z), NEW i \in ControllerState,
             i.queue = c.queue, i.deferred = c.deferred, i.step = c.step, i.event = c.event,
             i.active = c.active
      PROVE  PlaybackInv(host, d, up, t, z, i)
  <2>1. \A r \in Responses : Live(z[r]) => Live(part[r])
    BY <1>5 DEF FadeParts, Fades
  <2>2. \A r \in Responses : Live(z[r]) => i.active = r
    BY <1>1, <1>5, <2>1 DEF PlaybackInv, Voices
  <2>3. i.active \in Maybe
    BY <1>5 DEF ControllerState
  <2>4. i.step = "reporting" /\ i.active # None => ~Live(z[i.active])
    BY <1>1, <1>5, <2>1, <2>3 DEF PlaybackInv, Voices, Maybe
  <2>5. ControllerFollows(c, i, z)
    BY <1>1, <1>5, <2>2, <2>4 DEF ControllerFollows, PlaybackInv, Announcements
  <2> QED BY <1>1, <1>3, <1>5, <2>5, SameBindings, FadeKeeps
<1>6. /\ j \in ControllerState /\ j.queue = c.queue /\ j.deferred = c.deferred
      /\ j.step = c.step /\ j.event = c.event /\ j.active = c.active
  BY <1>3 DEF ControllerState
<1>7. /\ k \in ControllerState /\ k.queue = c.queue /\ k.deferred = c.deferred
      /\ k.step = c.step /\ k.event = c.event /\ k.active = c.active
  BY <1>3 DEF ControllerState
<1> HIDE DEF j, k
<1>8. PlaybackInv(host, d, up, t, q, j)
  BY <1>4, <1>5, <1>6
<1>9. PlaybackInv(host, d, up, t, part, k)
  BY <1>4, <1>5, <1>7
<1> QED BY <1>1, <1>2, <1>8, <1>9

LEMMA ArriveKeeps ==
    ASSUME Playback, Arrive PROVE Playback'
<1> DEFINE e == Head(down)
           d == Tail(down)
<1>1. /\ down # <<>> /\ host' = host /\ up' = up /\ down' = d
      /\ IF Refusal(e) # "" THEN Refuse(Refusal(e))
         ELSE /\ transport' = Checked(e)
              /\ IF e.type = "audio" THEN HearAudio(e) ELSE Observe(e)
  BY DEF Arrive
<1>2. /\ PlaybackInv(host, d, up, transport, part, ctl)
      /\ e \in Events
      /\ e.safe => Quiet(e)
      /\ Announces(e) =>
            /\ e.r \in Responses
            /\ e.r \notin Announced(d)
            /\ e.r \notin Announced(ctl.queue)
            /\ ~Unannounced(host, e.r)
            /\ part[e.r].player = "none"
            /\ transport.bound[e.r] = "none"
      /\ ctl.step \in {"storing", "reporting"} /\ Announces(ctl.event) /\ Announces(e) =>
            ctl.event.r # e.r
      /\ Ends(e) => OverAt(host, e.r, e.at)
  BY <1>1, HeadLeaves
<1> HIDE DEF e, d
<1>3. CASE Refusal(e) # ""
  <2>1. Refusal(e) \in {"started", "failed", "cancelled", "ended", "audio"}
    BY <1>2, <1>3, RefusalIs
  <2>2. PlaybackInv(host, d, up, transport', part', ctl')
    BY <1>1, <1>2, <1>3, <2>1, RefuseKeeps
  <2> QED BY <1>1, <2>2 DEF Playback
<1>4. CASE Refusal(e) = "" /\ e.type = "audio"
  <2>1. PlaybackInv(host, d, up, transport', part', ctl')
    BY <1>1, <1>2, <1>4, HearKeeps
  <2> QED BY <1>1, <2>1 DEF Playback
<1>5. CASE Refusal(e) = "" /\ e.type # "audio"
  <2>1. transport' = Checked(e) /\ Observe(e)
    BY <1>1, <1>5
  <2>2. /\ PlaybackInv(host, d, up, transport', part, ctl)
        /\ Ends(e) => CountedAt(host, transport', e.r, e.at)
    BY <1>2, <1>5, <2>1, CheckedKeeps
  <2>3. Joins(host, d, transport', part, ctl, e)
    BY <1>2, <2>2 DEF Joins, Loose
  <2>4. PlaybackInv(host, d, up, transport', part', ctl')
    BY <1>2, <2>1, <2>2, <2>3, ObserveKeeps
  <2> QED BY <1>1, <2>4 DEF Playback
<1> QED BY <1>3, <1>4, <1>5

LEMMA PlaybackKept ==
    ASSUME Playback, vars' = vars \/ Next PROVE Playback'
<1>1. CASE vars' = vars
  BY <1>1 DEF vars, Playback
<1>2. CASE Next
  BY <1>2, HostStepKeeps, ArriveKeeps, TakeKeeps, StoredKeeps, SilencedKeeps,
     CheckpointedKeeps, ReportedKeeps, CancelKeeps, PauseKeeps, PauseSettlesKeeps,
     LeavesKeeps, PlayKeeps, ReportStoredKeeps DEF Next, ControllerStep
<1> QED BY <1>1, <1>2

LEMMA PlaybackInit ==
    ASSUME Init PROVE Playback
<1>1. PICK m \in Int : m = -1
  OBVIOUS
<1>2. MaxResponses \in Nat
  BY PlaybackConstantsOK
<1>3. host \in HostState /\ HostOk(host)
  <2>1. /\ None \in Maybe /\ 0 \in 0..MaxResponses /\ 0 <= 0 /\ None <= 0
        /\ [r \in Responses |-> 0] \in [Responses -> Int]
        /\ [r \in Responses |-> 0] \in [Responses -> Nat]
        /\ [r \in Responses |-> FALSE] \in [Responses -> BOOLEAN]
    BY <1>2 DEF Maybe, None
  <2>2. host = [epoch |-> 0, active |-> None, made |-> 0, stage |-> "none",
               stream |-> None, epochOf |-> [r \in Responses |-> 0],
               sent |-> [r \in Responses |-> 0],
               closed |-> [r \in Responses |-> FALSE],
               pause |-> "none", at |-> 0, pending |-> FALSE,
               speaking |-> FALSE, utterances |-> 0]
    BY DEF Init
  <2>3. host \in HostState
    BY <2>1, <2>2 DEF HostState
  <2>4. HostOk(host)
    BY <2>1, <2>2 DEF HostOk
  <2> QED BY <2>3, <2>4
<1>4. transport \in TransportState
  BY DEF Init, TransportState, Maybe
<1>5. part \in [Responses -> Players]
  <2>1. part = [r \in Responses |->
                 [player |-> "none", buffer |-> {}, played |-> 0, total |-> m,
                  speechPause |-> m, report |-> "none", reason |-> ""]]
    BY <1>1 DEF Init
  <2> QED BY <2>1 DEF Players
<1>6. /\ down \in Seq(Events) /\ down = <<>> /\ Len(down) = 0
      /\ ctl.queue \in Seq(Events) /\ ctl.queue = <<>> /\ Len(ctl.queue) = 0
      /\ up \in Seq(Reports)
  <2>1. down = <<>> /\ ctl.queue = <<>> /\ up = <<>>
    BY DEF Init
  <2>2. <<>> \in Seq(Events) /\ Len(<<>>) = 0 /\ <<>> \in Seq(Reports)
    <3>1. \A S : <<>> \in Seq(S)
      OBVIOUS
    <3> QED BY <3>1
  <2> QED BY <2>1, <2>2
<1>7. ctl \in ControllerState
  <2> DEFINE s == <<>>
  <2>1. ctl = [epoch |-> 0, active |-> None, queue |-> s, event |-> Idle,
              step |-> "idle", provisional |-> NoPause, deferred |-> Idle,
              speaking |-> FALSE, cancelling |-> None, pausing |-> "no",
              stopped |-> FALSE, degraded |-> FALSE]
    BY DEF Init
  <2>2. None \in Maybe /\ Idle \in Events /\ NoPause \in Pauses
    BY QuietIdle, NoPauseIs DEF Maybe
  <2>3. s \in Seq(Events)
    BY <1>6
  <2> HIDE DEF s
  <2> QED BY <2>1, <2>2, <2>3 DEF ControllerState
<1>8. Announced(<<>>) = {} /\ Once(<<>>)
  BY DEF Announced, Once
<1>9. \A r \in Responses : part[r].player = "none"
  BY DEF Init
<1>10. ctl.step = "idle" /\ ctl.deferred = Idle /\ ctl.active = None
  BY DEF Init
<1>11. Announcements(host, down, part, ctl)
  BY <1>3, <1>6, <1>8, <1>9, <1>10, QuietIdle DEF Announcements
<1>12. Voices(part, ctl)
  BY <1>10 DEF Voices, Init, Live
<1>13. Counts(host, down, transport, part, ctl)
  <2>1. ASSUME NEW r \in Responses PROVE Counted(host, down, transport, part[r], r)
    <3>1. /\ part[r].player = "none" /\ part[r].reason = "" /\ part[r].played = 0
          /\ part[r].buffer = {} /\ part[r].total = -1
          /\ transport.bound[r] = "none" /\ transport.got[r] = 0
      BY <2>1 DEF Init
    <3>2. ~(part[r].total >= 0) /\ part[r].played <= transport.got[r]
      <4>1. ~(-1 >= 0) /\ 0 <= 0
        OBVIOUS
      <4> QED BY <3>1, <4>1
    <3>3. \A k \in part[r].buffer : k < transport.got[r]
      BY <3>1
    <3> QED BY <3>1, <3>2, <3>3 DEF Counted
  <2> QED BY <1>6, <1>10, <2>1 DEF Counts
<1> QED BY <1>3, <1>4, <1>5, <1>6, <1>7, <1>11, <1>12, <1>13 DEF Playback, PlaybackInv, PlaybackTypes

LEMMA PlaybackAlways == Spec => []Playback
<1>1. Playback /\ [Next]_vars => Playback'
  BY PlaybackKept
<1> QED BY <1>1, PlaybackInit, PTL DEF Spec

(* At most one response is audible: a new part is created only when the    *)
(* report of the one before it is stored (controller.ts, terminalize, then *)
(* createPlayback), however cancellations, pauses and the user interleave. *)
THEOREM OneIsAudible == Spec => []OneVoice
<1>1. Playback => OneVoice
  BY DEF Playback, PlaybackInv, Voices, OneVoice, Live
<1> QED BY <1>1, PlaybackAlways, PTL

(* A player reports "completed" only when the host sent nothing that was   *)
(* not heard, however the end of a stream, lost chunks, cancellations and  *)
(* the ends of buffer sources interleave (playback.ts, completeIfReady).   *)
THEOREM CompletedHeard == Spec => []CompletedWasHeard
<1>1. Playback => CompletedWasHeard
  <2> SUFFICES ASSUME Playback, NEW r \in Responses, part[r].reason = "completed"
               PROVE  part[r].played = host.sent[r] /\ host.stream # r
    BY DEF CompletedWasHeard
  <2>1. Counted(host, down, transport, part[r], r)
    BY DEF Playback, PlaybackInv, Counts
  <2>2. CountedAt(host, transport, r, part[r].played)
    BY <2>1 DEF Counted
  <2> QED BY <2>2 DEF CountedAt, OverAt
<1> QED BY <1>1, PlaybackAlways, PTL
=============================================================================
