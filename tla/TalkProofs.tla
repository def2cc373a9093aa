----------------------------- MODULE TalkProofs -----------------------------
(***************************************************************************)
(* Proofs about Talk, for any number of sessions and lookups of each user: *)
(* the types, that two users are not in two calls with each other until    *)
(* both have been called during a call, and that a caller is not heard     *)
(* before the user at the other end has answered.                          *)
(*                                                                         *)
(* Each user is an instance of Call, and what a step makes of it is known  *)
(* from the lemmas of CallProofs, instantiated for either.  The inductive  *)
(* invariant adds what is between them: how requests, confirmations and    *)
(* calls are paired, and that media is heard only from who has sent it.    *)
(***************************************************************************)
EXTENDS Talk, TLAPS

CA == INSTANCE CallProofs WITH
        EnableVideo <- FALSE, session <- a_session, sessions <- a_sessions,
        dialogs <- a_dialogs,
        call_dialog <- a_call_dialog, idle <- a_idle, lookups <- a_lookups,
        button_start <- a_button_start, button_stop <- a_button_stop,
        listen <- a_listen, overlapped <- a_overlapped

CB == INSTANCE CallProofs WITH
        EnableVideo <- FALSE, session <- b_session, sessions <- b_sessions,
        dialogs <- b_dialogs,
        call_dialog <- b_call_dialog, idle <- b_idle, lookups <- b_lookups,
        button_start <- b_button_start, button_stop <- b_button_stop,
        listen <- b_listen, overlapped <- b_overlapped

\* The counterparts of Current and RtpSession.
Lookups(u) == IF u = "a" THEN a_lookups ELSE b_lookups
Overlapped(u) == IF u = "a" THEN a_overlapped ELSE b_overlapped
Born(end) == RtpSession(end).phase # "unborn"

\* Who waits for a lookup has a request or a response on its way.
Waiting ==
    /\ requested \in [User -> Nat] /\ offered \in [User -> Nat]
    /\ \A u \in User : requested[u] + offered[u] = Lookups(u)

\* A call has an end of each user, no end is in two calls, and the end that
\* waits for its confirmation is in none.
Paired ==
    /\ confirming \subseteq dialled /\ dialled \subseteq End
    /\ \A end \in dialled : Born(end)
    /\ \A call \in joined : \E e, f \in End : call = {e, f} /\ e[1] # f[1] /\ Born(e) /\ Born(f)
    /\ \A call \in joined : call \cap confirming = {}
    /\ \A call1, call2 \in joined : call1 \cap call2 # {} => call1 = call2

\* Who has sent media is not on hold, and who has received media has received
\* it from the other end of the call.
Heard ==
    /\ spoken \subseteq End
    /\ \A end \in spoken : Born(end) /\ ~RtpSession(end).on_hold
    /\ \A end \in End : RtpSession(end).linked => Others(end) \cap spoken # {}

IInv == /\ CA!IInv /\ CB!IInv
        /\ Waiting /\ Paired /\ Heard /\ silenced \subseteq End
-----------------------------------------------------------------------------
\* The steps of the first user in Talk are those its lemmas are about,
LEMMA SameA ==
    /\ A!CallStart <=> CA!CallStart
    /\ A!StopButton <=> CA!StopButton
    /\ A!LookupFailed <=> CA!LookupFailed
    /\ A!DialogRun <=> CA!DialogRun
    /\ A!DialogReturn <=> CA!DialogReturn
    /\ A!Dismiss <=> CA!Dismiss
    /\ \A r : A!Respond(r) <=> CA!Respond(r)
    /\ \A s : /\ A!LookupFinished(s) <=> CA!LookupFinished(s)
              /\ A!Incoming(s) <=> CA!Incoming(s)
              /\ A!NewPayloadType(s) <=> CA!NewPayloadType(s)
              /\ A!Hangup(s) <=> CA!Hangup(s)
              /\ A!AcceptCb(s) <=> CA!AcceptCb(s)
  <1> USE DEF A!widgets, CA!widgets
  <1>1. A!CallStop <=> CA!CallStop
    BY Zenon DEF A!CallStop, CA!CallStop, A!EndCall, CA!EndCall, A!Destroy, CA!Destroy
  <1>2. A!CallStart <=> CA!CallStart
    BY Zenon DEF A!CallStart, CA!CallStart
  <1>3. A!StopButton <=> CA!StopButton
    BY Zenon, <1>1 DEF A!StopButton, CA!StopButton
  <1>4. A!LookupFailed <=> CA!LookupFailed
    BY Zenon DEF A!LookupFailed, CA!LookupFailed
  <1>5. A!DialogRun <=> CA!DialogRun
    BY Zenon DEF A!DialogRun, CA!DialogRun, A!Looping, CA!Looping, A!Last, CA!Last
  <1>6. A!DialogReturn <=> CA!DialogReturn
    BY Zenon DEF A!DialogReturn, CA!DialogReturn, A!EndCall, CA!EndCall, A!Destroy, CA!Destroy,
                 A!Looping, CA!Looping, A!Live, CA!Live, A!Accept, CA!Accept,
                 A!Last, CA!Last, A!Front, CA!Front, A!DestroyDialog, CA!DestroyDialog
  <1>7. ASSUME NEW r PROVE A!Respond(r) <=> CA!Respond(r)
    BY Zenon DEF A!Respond, CA!Respond, A!Last, CA!Last
  <1>8. ASSUME NEW s
        PROVE  /\ A!LookupFinished(s) <=> CA!LookupFinished(s)
               /\ A!Incoming(s) <=> CA!Incoming(s)
    BY Zenon DEF A!LookupFinished, CA!LookupFinished, A!Launch, CA!Launch,
                 A!Incoming, CA!Incoming, A!NewConnection, CA!NewConnection
  <1>9. ASSUME NEW s
        PROVE  /\ A!NewPayloadType(s) <=> CA!NewPayloadType(s)
               /\ A!Hangup(s) <=> CA!Hangup(s)
    BY Zenon, <1>1 DEF A!NewPayloadType, CA!NewPayloadType, A!Hangup, CA!Hangup, A!Live, CA!Live
  <1>10. ASSUME NEW s PROVE A!AcceptCb(s) <=> CA!AcceptCb(s)
    BY Zenon DEF A!AcceptCb, CA!AcceptCb, A!Looping, CA!Looping, A!Live, CA!Live,
                 A!Accept, CA!Accept, A!Last, CA!Last
  <1>11. A!Dismiss <=> CA!Dismiss
    BY Zenon DEF A!Dismiss, CA!Dismiss, A!Last, CA!Last, A!Front, CA!Front
  <1> QED BY Zenon, <1>2, <1>3, <1>4, <1>5, <1>6, <1>7, <1>8, <1>9, <1>10, <1>11

\* and so are those of the second one.
LEMMA SameB ==
    /\ B!CallStart <=> CB!CallStart
    /\ B!StopButton <=> CB!StopButton
    /\ B!LookupFailed <=> CB!LookupFailed
    /\ B!DialogRun <=> CB!DialogRun
    /\ B!DialogReturn <=> CB!DialogReturn
    /\ B!Dismiss <=> CB!Dismiss
    /\ \A r : B!Respond(r) <=> CB!Respond(r)
    /\ \A s : /\ B!LookupFinished(s) <=> CB!LookupFinished(s)
              /\ B!Incoming(s) <=> CB!Incoming(s)
              /\ B!NewPayloadType(s) <=> CB!NewPayloadType(s)
              /\ B!Hangup(s) <=> CB!Hangup(s)
              /\ B!AcceptCb(s) <=> CB!AcceptCb(s)
  <1> USE DEF B!widgets, CB!widgets
  <1>1. B!CallStop <=> CB!CallStop
    BY Zenon DEF B!CallStop, CB!CallStop, B!EndCall, CB!EndCall, B!Destroy, CB!Destroy
  <1>2. B!CallStart <=> CB!CallStart
    BY Zenon DEF B!CallStart, CB!CallStart
  <1>3. B!StopButton <=> CB!StopButton
    BY Zenon, <1>1 DEF B!StopButton, CB!StopButton
  <1>4. B!LookupFailed <=> CB!LookupFailed
    BY Zenon DEF B!LookupFailed, CB!LookupFailed
  <1>5. B!DialogRun <=> CB!DialogRun
    BY Zenon DEF B!DialogRun, CB!DialogRun, B!Looping, CB!Looping, B!Last, CB!Last
  <1>6. B!DialogReturn <=> CB!DialogReturn
    BY Zenon DEF B!DialogReturn, CB!DialogReturn, B!EndCall, CB!EndCall, B!Destroy, CB!Destroy,
                 B!Looping, CB!Looping, B!Live, CB!Live, B!Accept, CB!Accept,
                 B!Last, CB!Last, B!Front, CB!Front, B!DestroyDialog, CB!DestroyDialog
  <1>7. ASSUME NEW r PROVE B!Respond(r) <=> CB!Respond(r)
    BY Zenon DEF B!Respond, CB!Respond, B!Last, CB!Last
  <1>8. ASSUME NEW s
        PROVE  /\ B!LookupFinished(s) <=> CB!LookupFinished(s)
               /\ B!Incoming(s) <=> CB!Incoming(s)
    BY Zenon DEF B!LookupFinished, CB!LookupFinished, B!Launch, CB!Launch,
                 B!Incoming, CB!Incoming, B!NewConnection, CB!NewConnection
  <1>9. ASSUME NEW s
        PROVE  /\ B!NewPayloadType(s) <=> CB!NewPayloadType(s)
               /\ B!Hangup(s) <=> CB!Hangup(s)
    BY Zenon, <1>1 DEF B!NewPayloadType, CB!NewPayloadType, B!Hangup, CB!Hangup, B!Live, CB!Live
  <1>10. ASSUME NEW s PROVE B!AcceptCb(s) <=> CB!AcceptCb(s)
    BY Zenon DEF B!AcceptCb, CB!AcceptCb, B!Looping, CB!Looping, B!Live, CB!Live,
                 B!Accept, CB!Accept, B!Last, CB!Last
  <1>11. B!Dismiss <=> CB!Dismiss
    BY Zenon DEF B!Dismiss, CB!Dismiss, B!Last, CB!Last, B!Front, CB!Front
  <1> QED BY Zenon, <1>2, <1>3, <1>4, <1>5, <1>6, <1>7, <1>8, <1>9, <1>10, <1>11

-----------------------------------------------------------------------------
\* What a step is to the first user,
LEMMA StepOfA ==
    ASSUME Next
    PROVE  \/ CA!Quiet
           \/ DialogReturn("a") /\ CA!DialogReturn
           \/ \E s \in Session : AcceptCb("a", s) /\ CA!AcceptCb(s)
           \/ \E s \in Session : Hear("a", s) /\ CA!NewPayloadType(s)
  <1> USE DEF By
  <1>1. UNCHANGED a_vars => CA!Quiet
    BY DEF CA!Quiet, CA!vars, CA!widgets, a_vars
  <1>2. ASSUME NEW u \in User, Dial(u) \/ Offer(u) \/ Fail(u) \/ StopButton(u) \/ DialogRun(u)
        PROVE  CA!Quiet
    BY <1>1, <1>2, SameA DEF Dial, Offer, Fail, StopButton, DialogRun, CA!Quiet
  <1>3. ASSUME NEW u \in User, Respond(u) \/ Dismiss(u) PROVE CA!Quiet
    BY <1>1, <1>3, SameA DEF Respond, Dismiss, CA!Quiet
  <1>4. ASSUME NEW u \in User, NEW s \in Session, Open(u, s) \/ Silence(u, s) \/ Break(u, s)
        PROVE  CA!Quiet
    BY <1>1, <1>4, SameA DEF Open, Silence, Break, CA!Quiet
  <1>5. ASSUME NEW u \in User, NEW s \in Session, NEW end \in End, Join(u, s, end) PROVE CA!Quiet
    BY <1>1, <1>5, SameA DEF Join, CA!Quiet
  <1>6. ASSUME NEW end \in End, Drop(end) PROVE CA!Quiet
    BY <1>1, <1>6 DEF Drop
  <1>7. ASSUME NEW u \in User, DialogReturn(u)
        PROVE  CA!Quiet \/ (DialogReturn("a") /\ CA!DialogReturn)
    <2>1. CASE u = "a"
      <3>1. DialogReturn("a")
        BY <1>7, <2>1
      <3>2. CA!DialogReturn
        BY <3>1, SameA DEF DialogReturn
      <3> QED BY <3>1, <3>2
    <2>2. CASE u # "a"
      BY <1>1, <1>7, <2>2 DEF DialogReturn
    <2> QED BY <2>1, <2>2
  <1>8. ASSUME NEW u \in User, NEW s \in Session, AcceptCb(u, s)
        PROVE  CA!Quiet \/ (AcceptCb("a", s) /\ CA!AcceptCb(s))
    <2>1. CASE u = "a"
      <3>1. AcceptCb("a", s)
        BY <1>8, <2>1
      <3>2. CA!AcceptCb(s)
        BY <3>1, SameA DEF AcceptCb
      <3> QED BY <3>1, <3>2
    <2>2. CASE u # "a"
      BY <1>1, <1>8, <2>2 DEF AcceptCb
    <2> QED BY <2>1, <2>2
  <1>9. ASSUME NEW u \in User, NEW s \in Session, Hear(u, s)
        PROVE  CA!Quiet \/ (Hear("a", s) /\ CA!NewPayloadType(s))
    <2>1. CASE u = "a"
      <3>1. Hear("a", s)
        BY <1>9, <2>1
      <3>2. CA!NewPayloadType(s)
        BY <3>1, SameA DEF Hear
      <3> QED BY <3>1, <3>2
    <2>2. CASE u # "a"
      BY <1>1, <1>9, <2>2 DEF Hear
    <2> QED BY <2>1, <2>2
  <1> QED BY <1>2, <1>3, <1>4, <1>5, <1>6, <1>7, <1>8, <1>9 DEF Next

\* So each step keeps what CallProofs says of the first user.
LEMMA InvariantOfA == ASSUME CA!IInv, Next PROVE CA!IInv'
  BY StepOfA, CA!QuietOrNot, CA!Consecution, TalkAssumption

\* And what it leaves of a session.
LEMMA SessionStepOfA ==
    ASSUME CA!IInv, Next, NEW s \in Session
    PROVE  /\ CA!Lasts(s)
           /\ a_sessions'[s].linked => a_sessions[s].linked \/ Hear("a", s)
           /\ a_sessions'[s].tx_pipeline = "PLAYING" =>
                 \/ a_sessions[s].tx_pipeline = "PLAYING" \/ a_sessions[s].linked
                 \/ DialogReturn("a")
                 \/ \E t \in Session : a_sessions[t].phase # "live" /\ AcceptCb("a", t)
  <1> USE TalkAssumption
  <1>1. CASE CA!Quiet
    BY <1>1, CA!QuietStep DEF CA!Unmoved
  <1>2. CASE DialogReturn("a") /\ CA!DialogReturn
    BY <1>2, CA!AnswerStep
  <1>3. ASSUME NEW t \in Session, AcceptCb("a", t), CA!AcceptCb(t)
        PROVE  /\ CA!Lasts(s)
               /\ a_sessions'[s].linked => a_sessions[s].linked
               /\ a_sessions'[s].tx_pipeline = "PLAYING" =>
                     \/ a_sessions[s].tx_pipeline = "PLAYING" \/ a_sessions[s].linked
                     \/ a_sessions[t].phase # "live"
    BY <1>3, CA!AcceptStep DEF CA!Live
  <1>4. ASSUME NEW t \in Session, Hear("a", t), CA!NewPayloadType(t)
        PROVE  /\ CA!Lasts(s)
               /\ a_sessions'[s].linked => a_sessions[s].linked \/ s = t
               /\ a_sessions'[s].tx_pipeline = a_sessions[s].tx_pipeline
    BY <1>4, CA!SessionHeard
  <1> QED BY <1>1, <1>2, <1>3, <1>4, StepOfA

\* and to the second one.
LEMMA StepOfB ==
    ASSUME Next
    PROVE  \/ CB!Quiet
           \/ DialogReturn("b") /\ CB!DialogReturn
           \/ \E s \in Session : AcceptCb("b", s) /\ CB!AcceptCb(s)
           \/ \E s \in Session : Hear("b", s) /\ CB!NewPayloadType(s)
  <1> USE DEF By
  <1>1. UNCHANGED b_vars => CB!Quiet
    BY DEF CB!Quiet, CB!vars, CB!widgets, b_vars
  <1>2. ASSUME NEW u \in User, Dial(u) \/ Offer(u) \/ Fail(u) \/ StopButton(u) \/ DialogRun(u)
        PROVE  CB!Quiet
    BY <1>1, <1>2, SameB DEF Dial, Offer, Fail, StopButton, DialogRun, CB!Quiet
  <1>3. ASSUME NEW u \in User, Respond(u) \/ Dismiss(u) PROVE CB!Quiet
    BY <1>1, <1>3, SameB DEF Respond, Dismiss, CB!Quiet
  <1>4. ASSUME NEW u \in User, NEW s \in Session, Open(u, s) \/ Silence(u, s) \/ Break(u, s)
        PROVE  CB!Quiet
    BY <1>1, <1>4, SameB DEF Open, Silence, Break, CB!Quiet
  <1>5. ASSUME NEW u \in User, NEW s \in Session, NEW end \in End, Join(u, s, end) PROVE CB!Quiet
    BY <1>1, <1>5, SameB DEF Join, CB!Quiet
  <1>6. ASSUME NEW end \in End, Drop(end) PROVE CB!Quiet
    BY <1>1, <1>6 DEF Drop
  <1>7. ASSUME NEW u \in User, DialogReturn(u)
        PROVE  CB!Quiet \/ (DialogReturn("b") /\ CB!DialogReturn)
    <2>1. CASE u = "b"
      <3>1. DialogReturn("b")
        BY <1>7, <2>1
      <3>2. CB!DialogReturn
        BY <3>1, SameB DEF DialogReturn
      <3> QED BY <3>1, <3>2
    <2>2. CASE u # "b"
      BY <1>1, <1>7, <2>2 DEF DialogReturn
    <2> QED BY <2>1, <2>2
  <1>8. ASSUME NEW u \in User, NEW s \in Session, AcceptCb(u, s)
        PROVE  CB!Quiet \/ (AcceptCb("b", s) /\ CB!AcceptCb(s))
    <2>1. CASE u = "b"
      <3>1. AcceptCb("b", s)
        BY <1>8, <2>1
      <3>2. CB!AcceptCb(s)
        BY <3>1, SameB DEF AcceptCb
      <3> QED BY <3>1, <3>2
    <2>2. CASE u # "b"
      BY <1>1, <1>8, <2>2 DEF AcceptCb
    <2> QED BY <2>1, <2>2
  <1>9. ASSUME NEW u \in User, NEW s \in Session, Hear(u, s)
        PROVE  CB!Quiet \/ (Hear("b", s) /\ CB!NewPayloadType(s))
    <2>1. CASE u = "b"
      <3>1. Hear("b", s)
        BY <1>9, <2>1
      <3>2. CB!NewPayloadType(s)
        BY <3>1, SameB DEF Hear
      <3> QED BY <3>1, <3>2
    <2>2. CASE u # "b"
      BY <1>1, <1>9, <2>2 DEF Hear
    <2> QED BY <2>1, <2>2
  <1> QED BY <1>2, <1>3, <1>4, <1>5, <1>6, <1>7, <1>8, <1>9 DEF Next

\* So each step keeps what CallProofs says of the second user.
LEMMA InvariantOfB == ASSUME CB!IInv, Next PROVE CB!IInv'
  BY StepOfB, CB!QuietOrNot, CB!Consecution, TalkAssumption

\* And what it leaves of a session.
LEMMA SessionStepOfB ==
    ASSUME CB!IInv, Next, NEW s \in Session
    PROVE  /\ CB!Lasts(s)
           /\ b_sessions'[s].linked => b_sessions[s].linked \/ Hear("b", s)
           /\ b_sessions'[s].tx_pipeline = "PLAYING" =>
                 \/ b_sessions[s].tx_pipeline = "PLAYING" \/ b_sessions[s].linked
                 \/ DialogReturn("b")
                 \/ \E t \in Session : b_sessions[t].phase # "live" /\ AcceptCb("b", t)
  <1> USE TalkAssumption
  <1>1. CASE CB!Quiet
    BY <1>1, CB!QuietStep DEF CB!Unmoved
  <1>2. CASE DialogReturn("b") /\ CB!DialogReturn
    BY <1>2, CB!AnswerStep
  <1>3. ASSUME NEW t \in Session, AcceptCb("b", t), CB!AcceptCb(t)
        PROVE  /\ CB!Lasts(s)
               /\ b_sessions'[s].linked => b_sessions[s].linked
               /\ b_sessions'[s].tx_pipeline = "PLAYING" =>
                     \/ b_sessions[s].tx_pipeline = "PLAYING" \/ b_sessions[s].linked
                     \/ b_sessions[t].phase # "live"
    BY <1>3, CB!AcceptStep DEF CB!Live
  <1>4. ASSUME NEW t \in Session, Hear("b", t), CB!NewPayloadType(t)
        PROVE  /\ CB!Lasts(s)
               /\ b_sessions'[s].linked => b_sessions[s].linked \/ s = t
               /\ b_sessions'[s].tx_pipeline = b_sessions[s].tx_pipeline
    BY <1>4, CB!SessionHeard
  <1> QED BY <1>1, <1>2, <1>3, <1>4, StepOfB

-----------------------------------------------------------------------------
\* What a step is to an end.
EndStep(end) ==
    /\ Born(end) => Born(end)' /\ (RtpSession(end)'.on_hold => RtpSession(end).on_hold)
    /\ RtpSession(end)'.linked => RtpSession(end).linked \/ Hear(end[1], end[2])
    /\ Speaks(end)' => \/ Speaks(end) \/ RtpSession(end).linked
                       \/ DialogReturn(end[1])
                       \/ \E s \in Session : ~IsLive(<<end[1], s>>) /\ AcceptCb(end[1], s)

\* What a step may do to either end of a call.
LEMMA EndSteps == ASSUME IInv, Next, NEW end \in End PROVE EndStep(end)
  <1>1. PICK u \in User, s \in Session : end = <<u, s>>
    BY DEF End
  <1>2. CASE u = "a"
    <2>1. end[1] = "a" /\ end[2] = s
      BY <1>1, <1>2
    <2> QED BY <2>1, SessionStepOfA
            DEF IInv, EndStep, Born, Speaks, IsLive, RtpSession, CA!Lasts
  <1>3. CASE u = "b"
    <2>1. end[1] = "b" /\ end[2] = s
      BY <1>1, <1>3
    <2> QED BY <2>1, SessionStepOfB
            DEF IInv, EndStep, Born, Speaks, IsLive, RtpSession, CB!Lasts
  <1> QED BY <1>2, <1>3 DEF User

\* An end that a call of either direction gives a session.
LEMMA EndBorn ==
    ASSUME IInv, NEW u \in User, NEW s \in Session,
           \/ By(u, A!LookupFinished(s), B!LookupFinished(s))
           \/ By(u, A!Incoming(s), B!Incoming(s))
    PROVE  ~Born(<<u, s>>) /\ Born(<<u, s>>)'
  <1> USE TalkAssumption
  <1>1. CASE u = "a"
    <2>1. CA!LookupFinished(s) \/ CA!Incoming(s)
      BY <1>1, SameA DEF By
    <2>2. a_sessions[s].phase = "unborn" /\ a_sessions'[s].phase = "live"
      BY <2>1, CA!SessionLaunched DEF IInv
    <2> QED BY <1>1, <2>2 DEF Born, RtpSession
  <1>2. CASE u = "b"
    <2>1. CB!LookupFinished(s) \/ CB!Incoming(s)
      BY <1>2, SameB DEF By
    <2>2. b_sessions[s].phase = "unborn" /\ b_sessions'[s].phase = "live"
      BY <2>1, CB!SessionLaunched DEF IInv
    <2> QED BY <1>2, <2>2 DEF Born, RtpSession
  <1> QED BY <1>1, <1>2 DEF User

-----------------------------------------------------------------------------
\* Every lookup that waits is a request or a response.
LEMMA WaitingInvariant == ASSUME IInv, Next PROVE Waiting'
  <1> USE DEF By
  <1>1. /\ requested \in [User -> Nat] /\ offered \in [User -> Nat]
        /\ \A u \in User : requested[u] + offered[u] = Lookups(u)
    BY DEF IInv, Waiting
  <1>2. ASSUME UNCHANGED <<requested, offered>>, \A v \in User : Lookups(v)' = Lookups(v)
        PROVE  Waiting'
    BY <1>1, <1>2 DEF Waiting
  <1>3. ASSUME NEW u \in User, Dial(u) PROVE Waiting'
    <2>1. \A v \in User : Lookups(v)' = IF v = u THEN Lookups(v) + 1 ELSE Lookups(v)
      BY <1>3 DEF Dial, A!CallStart, B!CallStart, a_vars, b_vars, Lookups, User
    <2>2. \A v \in User : requested'[v] = IF v = u THEN requested[v] + 1 ELSE requested[v]
      BY <1>1, <1>3 DEF Dial
    <2>3. requested' \in [User -> Nat] /\ offered' = offered
      BY <1>1, <1>3 DEF Dial
    <2> QED BY <1>1, <2>1, <2>2, <2>3 DEF Waiting
  <1>4. ASSUME NEW u \in User, Offer(u) PROVE Waiting'
    <2>1. \A v \in User : Lookups(v)' = Lookups(v)
      BY <1>4 DEF Offer, a_vars, b_vars, Lookups
    <2>2. /\ requested' \in [User -> Nat] /\ offered' \in [User -> Nat]
          /\ \A v \in User : /\ requested'[v] = IF v = u THEN requested[v] - 1 ELSE requested[v]
                            /\ offered'[v] = IF v = u THEN offered[v] + 1 ELSE offered[v]
      BY <1>1, <1>4 DEF Offer
    <2> QED BY <1>1, <2>1, <2>2 DEF Waiting
  <1>5. ASSUME NEW u \in User, NEW s \in Session, Open(u, s) PROVE Waiting'
    <2>1. \A v \in User : Lookups(v)' = IF v = u THEN Lookups(v) - 1 ELSE Lookups(v)
      BY <1>5 DEF Open, A!LookupFinished, B!LookupFinished, a_vars, b_vars, Lookups, User
    <2>2. \A v \in User : offered'[v] = IF v = u THEN offered[v] - 1 ELSE offered[v]
      BY <1>1, <1>5 DEF Open
    <2>3. offered' \in [User -> Nat] /\ requested' = requested
      BY <1>1, <1>5 DEF Open
    <2> QED BY <1>1, <2>1, <2>2, <2>3 DEF Waiting
  <1>6. ASSUME NEW u \in User, Fail(u) PROVE Waiting'
    <2>1. \A v \in User : Lookups(v)' = IF v = u THEN Lookups(v) - 1 ELSE Lookups(v)
      BY <1>6 DEF Fail, A!LookupFailed, B!LookupFailed, a_vars, b_vars, Lookups, User
    <2>2. /\ requested' \in [User -> Nat] /\ offered' \in [User -> Nat]
          /\ \A v \in User : requested'[v] + offered'[v] =
                IF v = u THEN requested[v] + offered[v] - 1 ELSE requested[v] + offered[v]
      BY <1>1, <1>6 DEF Fail
    <2> QED BY <1>1, <2>1, <2>2 DEF Waiting
  <1>7. ASSUME NEW u \in User, NEW s \in Session, NEW end \in End, Join(u, s, end) PROVE Waiting'
    BY <1>2, <1>7 DEF Join, A!Incoming, B!Incoming, A!NewConnection, B!NewConnection,
                      a_vars, b_vars, Lookups, User
  <1>8. ASSUME NEW end \in End, Drop(end) PROVE Waiting'
    BY <1>2, <1>8 DEF Drop, a_vars, b_vars, Lookups
  <1>9. ASSUME NEW u \in User, NEW s \in Session,
               Hear(u, s) \/ AcceptCb(u, s) \/ Silence(u, s) \/ Break(u, s)
        PROVE  Waiting'
    BY <1>2, <1>9 DEF Hear, AcceptCb, Silence, Break, A!NewPayloadType, B!NewPayloadType,
                      A!AcceptCb, B!AcceptCb, A!Hangup, B!Hangup,
                      a_vars, b_vars, between, Lookups, User
  <1>10. ASSUME NEW u \in User, StopButton(u) \/ Respond(u) \/ DialogRun(u) \/ DialogReturn(u)
         PROVE  Waiting'
    BY <1>2, <1>10 DEF StopButton, Respond, DialogRun, DialogReturn, A!StopButton, B!StopButton,
                       A!Respond, B!Respond, A!DialogRun, B!DialogRun, A!DialogReturn, B!DialogReturn,
                       a_vars, b_vars, between, Lookups, User
  <1>11. ASSUME NEW u \in User, Dismiss(u) PROVE Waiting'
    BY <1>2, <1>11 DEF Dismiss, A!Dismiss, B!Dismiss, a_vars, b_vars, between, Lookups, User
  <1> QED BY <1>3, <1>4, <1>5, <1>6, <1>7, <1>8, <1>9, <1>10, <1>11 DEF Next

\* A response opens an end that is in no call, and a confirmation joins it to
\* another that is in none.
LEMMA PairedInvariant == ASSUME IInv, Next PROVE Paired'
  <1>1. /\ confirming \subseteq dialled /\ dialled \subseteq End
        /\ \A end \in dialled : Born(end)
        /\ \A call \in joined : \E e, f \in End : call = {e, f} /\ e[1] # f[1] /\ Born(e) /\ Born(f)
        /\ \A call \in joined : call \cap confirming = {}
        /\ \A call1, call2 \in joined : call1 \cap call2 # {} => call1 = call2
    BY DEF IInv, Paired
  <1>2. \A end \in End : Born(end) => Born(end)'
    BY EndSteps DEF EndStep
  <1>3. \A call \in joined : \E e, f \in End : call = {e, f} /\ e[1] # f[1] /\ Born(e)' /\ Born(f)'
    BY <1>1, <1>2
  <1>4. ASSUME confirming' \subseteq confirming, UNCHANGED <<dialled, joined>> PROVE Paired'
    BY <1>1, <1>2, <1>3, <1>4 DEF Paired
  <1>5. ASSUME NEW u \in User, NEW s \in Session, Open(u, s) PROVE Paired'
    <2> DEFINE new == <<u, s>>
    <2>1. /\ new \in End /\ ~Born(new) /\ Born(new)'
          /\ dialled' = dialled \cup {new} /\ confirming' = confirming \cup {new} /\ joined' = joined
      BY <1>5, EndBorn DEF Open, End
    <2> HIDE DEF new
    <2>2. \A call \in joined : new \notin call
      BY <1>1, <2>1
    <2> QED BY <1>1, <1>2, <1>3, <2>1, <2>2 DEF Paired
  <1>6. ASSUME NEW u \in User, NEW s \in Session, NEW end \in End, Join(u, s, end) PROVE Paired'
    <2> DEFINE new == <<u, s>>
    <2>1. /\ new \in End /\ ~Born(new) /\ Born(new)' /\ end[1] # new[1]
          /\ end \in confirming /\ confirming' = confirming \ {end}
          /\ joined' = joined \cup {{end, new}} /\ dialled' = dialled
      BY <1>6, EndBorn DEF Join, End, Peer, User
    <2> HIDE DEF new
    <2>2. \A call \in joined : new \notin call /\ end \notin call
      BY <1>1, <2>1
    <2>3. new \notin confirming /\ Born(end)'
      BY <1>1, <1>2, <2>1
    <2>4. \A call \in joined' : call \in joined \/ call = {end, new}
      BY <2>1
    <2>5. \A call \in joined' : \E e, f \in End : call = {e, f} /\ e[1] # f[1] /\ Born(e)' /\ Born(f)'
      <3>1. end \in End
        BY <1>1, <2>1
      <3> QED BY <1>3, <2>1, <2>3, <2>4, <3>1
    <2>6. \A call \in joined' : call \cap confirming' = {}
      BY <1>1, <2>1, <2>3, <2>4
    <2>7. \A call1, call2 \in joined' : call1 \cap call2 # {} => call1 = call2
      <3>1. \A call \in joined : call \cap {end, new} = {} /\ {end, new} \cap call = {}
        BY <2>2
      <3> QED BY <1>1, <2>4, <3>1
    <2> QED BY <1>1, <1>2, <2>1, <2>5, <2>6, <2>7 DEF Paired
  <1> QED BY <1>4, <1>5, <1>6
          DEF Next, Dial, Offer, Fail, StopButton, Respond, Dismiss, DialogRun, DialogReturn,
              Hear, AcceptCb, Silence, Break, Drop, between

\* Media comes from who is not on hold, and goes to the other end.
LEMMA HeardInvariant == ASSUME IInv, Next PROVE Heard' /\ silenced' \subseteq End
  <1>1. /\ spoken \subseteq End /\ silenced \subseteq End
        /\ \A end \in spoken : Born(end) /\ ~RtpSession(end).on_hold
        /\ \A end \in End : RtpSession(end).linked => Others(end) \cap spoken # {}
    BY DEF IInv, Heard
  <1>2. \A end \in End : EndStep(end)
    BY EndSteps
  <1>3. CA!IInv' /\ CB!IInv'
    BY InvariantOfA, InvariantOfB DEF IInv
  <1>4. /\ spoken' = spoken \/ spoken' = spoken \cup {end \in End : Speaks(end)'}
        /\ joined \subseteq joined'
    <2> DEFINE goal == /\ spoken' = spoken \/ spoken' = spoken \cup {end \in End : Speaks(end)'}
                       /\ joined \subseteq joined'
    <2>1. ASSUME NEW u \in User, Dial(u) \/ Offer(u) \/ Fail(u) PROVE goal
      BY <2>1 DEF By, Dial, Offer, Fail
    <2>2. ASSUME NEW u \in User,
                 StopButton(u) \/ Respond(u) \/ Dismiss(u) \/ DialogRun(u) \/ DialogReturn(u)
          PROVE  goal
      BY <2>2 DEF By, StopButton, Respond, Dismiss, DialogRun, DialogReturn, between
    <2>3. ASSUME NEW u \in User, NEW s \in Session, Open(u, s) \/ Hear(u, s) \/ AcceptCb(u, s)
          PROVE  goal
      BY <2>3 DEF By, Open, Hear, AcceptCb, between
    <2>4. ASSUME NEW u \in User, NEW s \in Session, Silence(u, s) \/ Break(u, s) PROVE goal
      BY <2>4 DEF By, Silence, Break, between
    <2>5. ASSUME NEW u \in User, NEW s \in Session, NEW end \in End, Join(u, s, end) PROVE goal
      BY <2>5 DEF By, Join
    <2>6. ASSUME NEW end \in End, Drop(end) PROVE goal
      BY <2>6 DEF Drop
    <2> HIDE DEF goal
    <2>7. goal
      BY <2>1, <2>2, <2>3, <2>4, <2>5, <2>6 DEF Next
    <2> QED BY <2>7 DEF goal
  <1>5. silenced' \subseteq End
    <2>1. ASSUME NEW u \in User, NEW s \in Session, Silence(u, s) PROVE silenced' \subseteq End
      BY <1>1, <2>1 DEF Silence, End
    <2>2. CASE silenced' = silenced
      BY <1>1, <2>2
    <2> QED BY <2>1, <2>2 DEF Next, Dial, Offer, Open, Fail, Join, Drop, Hear, Break, StopButton,
                              Respond, Dismiss, DialogRun, DialogReturn, AcceptCb, between
  <1>6. ASSUME NEW end \in End, Speaks(end)' PROVE Born(end)' /\ ~RtpSession(end)'.on_hold
    <2>1. PICK u \in User, s \in Session : end = <<u, s>>
      BY DEF End
    <2>2. CASE u = "a"
      <3>1. a_sessions'[s].phase # "unborn" /\ ~a_sessions'[s].on_hold
        BY <1>3, <1>6, <2>1, <2>2 DEF Speaks, RtpSession, CA!IInv, CA!HeldIsDeaf, CA!Unborn
      <3> QED BY <2>1, <2>2, <3>1 DEF Born, RtpSession
    <2>3. CASE u = "b"
      <3>1. b_sessions'[s].phase # "unborn" /\ ~b_sessions'[s].on_hold
        BY <1>3, <1>6, <2>1, <2>3 DEF Speaks, RtpSession, CB!IInv, CB!HeldIsDeaf, CB!Unborn
      <3> QED BY <2>1, <2>3, <3>1 DEF Born, RtpSession
    <2> QED BY <2>2, <2>3 DEF User
  <1>7. \A end \in spoken' : Born(end)' /\ ~RtpSession(end)'.on_hold
    BY <1>1, <1>2, <1>4, <1>6 DEF EndStep
  <1>8. ASSUME NEW end \in End, RtpSession(end)'.linked PROVE (Others(end) \cap spoken # {})'
    <2>1. CASE RtpSession(end).linked
      BY <1>1, <1>4, <2>1 DEF Others
    <2>2. CASE Hear(end[1], end[2])
      <3>1. end = <<end[1], end[2]>>
        BY DEF End
      <3>2. Others(end) \cap spoken # {}
        BY <2>2, <3>1 DEF Hear
      <3> QED BY <1>4, <3>2 DEF Others
    <2> QED BY <1>2, <1>8, <2>1, <2>2 DEF EndStep
  <1> QED BY <1>1, <1>4, <1>5, <1>7, <1>8 DEF Heard

-----------------------------------------------------------------------------
\* The invariant is true at the start,
LEMMA Initially == Init => IInv
  <1> SUFFICES ASSUME Init PROVE IInv
    OBVIOUS
  <1>1. CA!Init /\ CB!Init
    BY DEF Init, A!Init, CA!Init, A!Unborn, CA!Unborn, B!Init, CB!Init, B!Unborn, CB!Unborn
  <1>2. CA!IInv /\ CB!IInv
    BY <1>1, CA!Initially, CB!Initially, TalkAssumption
  <1>3. Waiting
    BY DEF Init, A!Init, B!Init, Waiting, Lookups
  <1>4. Paired
    BY DEF Init, Paired
  <1>5. \A end \in End : ~RtpSession(end).linked
    BY <1>1 DEF CA!Init, CB!Init, CA!Unborn, CB!Unborn, RtpSession, End, User
  <1> QED BY <1>2, <1>3, <1>4, <1>5 DEF Init, IInv, Heard

\* and every step keeps it.
LEMMA Consecution == IInv /\ [Next]_vars => IInv'
  <1> SUFFICES ASSUME IInv, [Next]_vars PROVE IInv'
    OBVIOUS
  <1>1. CASE Next
    <2>1. CA!IInv' /\ CB!IInv'
      BY <1>1, InvariantOfA, InvariantOfB DEF IInv
    <2> QED BY <1>1, <2>1, WaitingInvariant, PairedInvariant, HeardInvariant DEF IInv
  <1>2. CASE UNCHANGED vars
    <2>1. [CA!Next]_(CA!vars) /\ [CB!Next]_(CB!vars)
      BY <1>2 DEF vars, a_vars, b_vars, CA!vars, CB!vars, CA!widgets, CB!widgets
    <2>2. CA!IInv' /\ CB!IInv'
      BY <2>1, CA!Consecution, CB!Consecution, TalkAssumption DEF IInv
    <2>3. Waiting' /\ silenced' \subseteq End
      BY <1>2 DEF IInv, vars, a_vars, b_vars, between, Waiting, Lookups
    <2>4. /\ UNCHANGED <<confirming, dialled, joined, spoken>>
          /\ \A end : RtpSession(end)' = RtpSession(end)
      BY <1>2 DEF vars, a_vars, b_vars, between, RtpSession
    <2>5. /\ \A end : Born(end)' = Born(end)
          /\ \A end : Others(end)' = Others(end)
      BY <2>4 DEF Born, Others
    <2>6. Paired'
      BY <2>4, <2>5 DEF IInv, Paired
    <2>7. Heard'
      BY <2>4, <2>5 DEF IInv, Heard
    <2> QED BY <2>2, <2>3, <2>6, <2>7 DEF IInv
  <1> QED BY <1>1, <1>2

\* What is between the users stays as Waiting, Paired and Heard have it.
THEOREM Invariant == Spec => []IInv
  BY Initially, Consecution, PTL DEF Spec

\* Each user is well-typed as in Call, nobody awaits more than the lookups that
\* are waiting, and ends, calls and confirmations are what they are said to be.
THEOREM TypeCorrect == Spec => []TypeOK
  <1>1. IInv => TypeOK
    <2> SUFFICES ASSUME IInv PROVE TypeOK
      OBVIOUS
    <2>1. A!TypeOK
      <3>1. CA!TypeOK
        BY DEF IInv, CA!IInv
      <3> QED BY Zenon, <3>1 DEF A!TypeOK, CA!TypeOK, A!Live, CA!Live, A!RtpSession, CA!RtpSession,
                 A!Dialog, CA!Dialog, A!Stacked, CA!Stacked, A!Last, CA!Last,
                 A!Callback, CA!Callback, A!widgets, CA!widgets
    <2>2. B!TypeOK
      <3>1. CB!TypeOK
        BY DEF IInv, CB!IInv
      <3> QED BY Zenon, <3>1 DEF B!TypeOK, CB!TypeOK, B!Live, CB!Live, B!RtpSession, CB!RtpSession,
                 B!Dialog, CB!Dialog, B!Stacked, CB!Stacked, B!Last, CB!Last,
                 B!Callback, CB!Callback, B!widgets, CB!widgets
    <2>3. \A u \in User : Lookups(u) \in 0 .. MaxLookups
      BY DEF IInv, CA!IInv, CA!TypeOK, CB!IInv, CB!TypeOK, Lookups
    <2>4. requested \in [User -> 0 .. MaxLookups] /\ offered \in [User -> 0 .. MaxLookups]
      <3>1. /\ requested \in [User -> Nat] /\ offered \in [User -> Nat]
            /\ \A u \in User : requested[u] + offered[u] = Lookups(u)
        BY DEF IInv, Waiting
      <3>2. \A u \in User : requested[u] \in 0 .. MaxLookups /\ offered[u] \in 0 .. MaxLookups
        BY <2>3, <3>1, TalkAssumption
      <3> QED BY <3>1, <3>2
    <2>5. joined \subseteq SUBSET End
      BY DEF IInv, Paired
    <2> QED BY <2>1, <2>2, <2>4, <2>5 DEF TypeOK, IInv, Paired, Heard
  <1> QED BY <1>1, Invariant, PTL

\* Who has not been called during a call has one session at most.
LEMMA OneLiveEnd ==
    ASSUME IInv, NEW u \in User, ~Overlapped(u),
           NEW end1 \in End, NEW end2 \in End, end1[1] = u, end2[1] = u, IsLive(end1), IsLive(end2)
    PROVE  end1 = end2
  <1>1. /\ end1 = <<u, end1[2]>> /\ end1[2] \in Session
        /\ end2 = <<u, end2[2]>> /\ end2[2] \in Session
    BY DEF End
  <1>2. CASE u = "a"
    <2>1. CA!Live \subseteq {a_session}
      BY <1>2 DEF IInv, CA!IInv, CA!OneCall, Overlapped
    <2> QED BY <1>1, <1>2, <2>1 DEF CA!Live, IsLive, RtpSession
  <1>3. CASE u = "b"
    <2>1. CB!Live \subseteq {b_session}
      BY <1>3 DEF IInv, CB!IInv, CB!OneCall, Overlapped
    <2> QED BY <1>1, <1>3, <2>1 DEF CB!Live, IsLive, RtpSession
  <1> QED BY <1>2, <1>3 DEF User

\* Until both have been called during a call, two users who dial each other at
\* the same time do not end up with two calls: an undisturbed user has one
\* live end, and an end is in one call.
THEOREM NeverCrossed == Spec => []NoCrossedCalls
  <1>1. IInv => NoCrossedCalls
    <2> SUFFICES ASSUME IInv, NEW call1 \in joined, NEW call2 \in joined,
                        \A end \in call1 \cup call2 : IsLive(end), ~(a_overlapped /\ b_overlapped)
                 PROVE  call1 = call2
      BY DEF NoCrossedCalls
    <2>1. PICK u \in User : ~Overlapped(u)
      BY DEF Overlapped, User
    <2>2. ASSUME NEW call \in joined PROVE \E end \in End : end \in call /\ end[1] = u
      <3>1. PICK e \in End, f \in End : call = {e, f} /\ e[1] # f[1]
        BY DEF IInv, Paired
      <3>2. e[1] \in User /\ f[1] \in User
        BY DEF End
      <3> QED BY <3>1, <3>2 DEF User
    <2>3. PICK end1 \in End : end1 \in call1 /\ end1[1] = u
      BY <2>2
    <2>4. PICK end2 \in End : end2 \in call2 /\ end2[1] = u
      BY <2>2
    <2>5. end1 = end2
      BY <2>1, <2>3, <2>4, OneLiveEnd
    <2> QED BY <2>3, <2>4, <2>5 DEF IInv, Paired
  <1> QED BY <1>1, Invariant, PTL

\* The microphone of a caller opens after the user at the other end has
\* answered: media is sent by who is not on hold, and never on hold again.
THEOREM AnswerFirst == Spec => SpeaksAfterAnswer
  <1>1. ASSUME IInv, IInv', [Next]_vars, NEW end \in dialled', ~Speaks(end), Speaks(end)'
        PROVE  \/ \E e \in Others(end) : ~RtpSession(e).on_hold
               \/ DialogReturn(end[1])
               \/ \E s \in Session : ~IsLive(<<end[1], s>>) /\ AcceptCb(end[1], s)
    <2>1. end \in End
      BY <1>1 DEF IInv, Paired
    <2>2. Next
      BY <1>1 DEF vars, a_vars, b_vars, Speaks, RtpSession
    <2>3. EndStep(end)
      BY <1>1, <2>1, <2>2, EndSteps
    <2>4. RtpSession(end).linked => \E e \in Others(end) : ~RtpSession(e).on_hold
      BY <1>1, <2>1 DEF IInv, Heard
    <2> QED BY <1>1, <2>3, <2>4 DEF EndStep
  <1>2. IInv /\ IInv' /\ [Next]_vars =>
            [\A end \in dialled' :
                ~Speaks(end) /\ Speaks(end)' =>
                    \/ \E e \in Others(end) : ~RtpSession(e).on_hold
                    \/ DialogReturn(end[1])
                    \/ \E s \in Session : ~IsLive(<<end[1], s>>) /\ AcceptCb(end[1], s)]_vars
    BY <1>1
  <1> QED BY <1>2, Invariant, PTL DEF Spec, SpeaksAfterAnswer
=============================================================================
