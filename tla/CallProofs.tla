----------------------------- MODULE CallProofs -----------------------------
(***************************************************************************)
(* Proofs about Call, for any number of sessions and lookups: the types,   *)
(* that the user can always call and be called, that sessions are never    *)
(* silent, that there is one call at a time unless a peer calls during a   *)
(* call, and that no session leaves hold unanswered.                       *)
(***************************************************************************)
EXTENDS Call, SequenceTheorems, TLAPS

\* A session on hold has heard nothing and sends no media, and what waits in the
\* idle queue to accept a session was queued because that session has.
HeldIsDeaf ==
    /\ \A s \in Session : sessions[s].phase = "unborn" => sessions[s] = Unborn
    /\ \A s \in Session : sessions[s].on_hold =>
          ~sessions[s].enable /\ ~sessions[s].linked /\ sessions[s].tx_pipeline # "PLAYING"
    /\ \A i \in DOMAIN idle : idle[i].cb = "accept_cb" => sessions[idle[i].arg].linked

\* There is nothing to stop without a session, neither call nor dialog.
NothingToStop == session = NoSession => ~button_stop /\ ~call_dialog

\* Until somebody calls during a call: who can start a call is in none and
\* waits for none, and who waits is deaf and undisturbed.
OneAtATime ==
    ~overlapped =>
        /\ button_start => session = NoSession /\ lookups = 0
        /\ lookups > 0 => session = NoSession /\ dialogs = <<>> /\ ~listen /\ lookups = 1

IInv == /\ TypeOK
        /\ HeldIsDeaf
        /\ KeptAlive
        /\ Reachable /\ NothingToStop
        /\ OneCall /\ OneAtATime
-----------------------------------------------------------------------------
\* What the operations of a session make of it.
LEMMA LaunchedSession ==
    ASSUME NEW on_hold \in BOOLEAN
    PROVE  /\ Launch(on_hold) \in RtpSession
           /\ Launch(on_hold).phase = "live" /\ Launch(on_hold).on_hold = on_hold
           /\ Launch(on_hold).enable = ~on_hold /\ Launch(on_hold).linked = FALSE
           /\ Launch(on_hold).io_timeout_source = TRUE /\ Launch(on_hold).tx_pipeline = "READY"
  BY CallAssumption DEF Launch, RtpSession

\* rtp_session_accept takes a session off hold and leaves its pipelines as they are.
LEMMA AcceptedSession ==
    ASSUME NEW x \in RtpSession
    PROVE  /\ Accept(x) \in RtpSession
           /\ Accept(x).phase = x.phase /\ Accept(x).linked = x.linked
           /\ Accept(x).on_hold = FALSE
           /\ x.io_timeout_source \/ x.tx_pipeline = "PLAYING" => Accept(x).tx_pipeline = "PLAYING"
  BY DEF Accept, RtpSession

\* rtp_session_destroy frees it.
LEMMA DestroyedSession ==
    ASSUME NEW x \in RtpSession
    PROVE  /\ Destroy(x) \in RtpSession
           /\ Destroy(x).phase = "freed" /\ Destroy(x).linked = x.linked
           /\ Destroy(x).tx_pipeline = "NULL"
           /\ Destroy(x).on_hold = x.on_hold /\ Destroy(x).enable = x.enable
  BY DEF Destroy, RtpSession

\* The stack of dialogs.
LEMMA DialogStack ==
    ASSUME TypeOK
    PROVE  /\ Len(dialogs) \in Nat /\ DOMAIN dialogs = 1 .. Len(dialogs)
           /\ \A d \in 1 .. Len(dialogs) : dialogs[d] \in Dialog
           /\ dialogs # <<>> <=> Len(dialogs) > 0
           /\ Last(dialogs) = dialogs[Len(dialogs)]
  BY EmptySeq, LenProperties, ElementOfSeq DEF TypeOK, Last

\* Without a dialog that call_stop can cancel, each has been covered by another.
LEMMA AllCovered ==
    ASSUME TypeOK, ~call_dialog
    PROVE  \A d \in DOMAIN dialogs : dialogs[d].covered
  <1>1. dialogs # <<>> => Last(dialogs).covered
    BY DEF TypeOK
  <1>2. SUFFICES ASSUME NEW d \in DOMAIN dialogs, ~dialogs[d].covered PROVE FALSE
    OBVIOUS
  <1>3. d = Len(dialogs)
    BY <1>2 DEF TypeOK, Stacked
  <1>4. dialogs # <<>>
    BY DialogStack
  <1> QED BY <1>1, <1>2, <1>3, <1>4, DialogStack

\* The stack of dialogs without the newest: all of them have been covered.
LEMMA DialogsPopped ==
    ASSUME TypeOK, dialogs # <<>>, dialogs' = Front(dialogs)
    PROVE  /\ dialogs' \in Seq(Dialog) /\ Stacked(dialogs')
           /\ \A d \in DOMAIN dialogs' : dialogs'[d].covered
           /\ ~(dialogs' # <<>> /\ ~Last(dialogs').covered)
  <1>1. /\ Len(dialogs) \in Nat /\ Len(dialogs) > 0 /\ DOMAIN dialogs = 1 .. Len(dialogs)
        /\ \A d \in 1 .. Len(dialogs) : dialogs[d] \in Dialog
    BY DialogStack
  <1>2. /\ Front(dialogs) \in Seq(Dialog)
        /\ Len(Front(dialogs)) = Len(dialogs) - 1
        /\ \A d \in 1 .. Len(dialogs) - 1 : Front(dialogs)[d] = dialogs[d]
    <2> DEFINE n == Len(dialogs) - 1
    <2>1. n \in Nat /\ 1 \in Int /\ \A d \in 1 .. n : dialogs[d] \in Dialog
      BY <1>1
    <2>2. /\ SubSeq(dialogs, 1, n) \in Seq(Dialog)
          /\ Len(SubSeq(dialogs, 1, n)) = IF 1 <= n THEN n - 1 + 1 ELSE 0
          /\ \A d \in 1 .. n - 1 + 1 : SubSeq(dialogs, 1, n)[d] = dialogs[1 + d - 1]
      <3> HIDE DEF n
      <3> QED BY <2>1, SubSeqProperties
    <2>3. n - 1 + 1 = n /\ \A d \in 1 .. n : 1 + d - 1 = d
      BY <1>1
    <2>4. 1 <= n \/ n = 0
      BY <1>1
    <2> HIDE DEF n
    <2>5. Front(dialogs) = SubSeq(dialogs, 1, n)
      BY DEF Front, n
    <2>6. n = Len(dialogs) - 1
      BY DEF n
    <2> QED BY <2>1, <2>2, <2>3, <2>4, <2>5, <2>6
  <1>3. \A d \in 1 .. Len(dialogs) - 1 :
           dialogs[d].covered /\ dialogs[d].response \notin {"yes", "no"}
    BY <1>1 DEF TypeOK, Stacked
  <1>4. DOMAIN dialogs' = 1 .. Len(dialogs) - 1 /\ Len(dialogs') = Len(dialogs) - 1
    BY <1>2, LenProperties
  <1>5. \A d \in DOMAIN dialogs' :
           dialogs'[d].covered /\ dialogs'[d].response \notin {"yes", "no"}
    BY <1>2, <1>3, <1>4
  <1>6. dialogs' # <<>> => Last(dialogs').covered
    <2>1. dialogs' # <<>> => Len(dialogs') \in DOMAIN dialogs'
      BY <1>1, <1>2, <1>4, EmptySeq
    <2> QED BY <1>5, <2>1 DEF Last
  <1> QED BY <1>2, <1>5, <1>6 DEF Stacked

\* The newest dialog is answered, or has been covered and returns.
LEMMA DialogAnswered ==
    ASSUME TypeOK, dialogs # <<>>, NEW response \in {"yes", "no", "returned"},
           response = "returned" => Last(dialogs).covered,
           dialogs' = [dialogs EXCEPT ![Len(dialogs)].response = response]
    PROVE  /\ dialogs' \in Seq(Dialog) /\ Stacked(dialogs')
           /\ dialogs' # <<>> /\ Last(dialogs').covered = Last(dialogs).covered
           /\ DOMAIN dialogs' = DOMAIN dialogs
           /\ \A d \in DOMAIN dialogs' : dialogs'[d].covered = dialogs[d].covered
  <1> DEFINE n == Len(dialogs)
             last == [dialogs[n] EXCEPT !.response = response]
  <1>1. /\ n \in Nat /\ n > 0 /\ DOMAIN dialogs = 1 .. n
        /\ \A d \in 1 .. n : dialogs[d] \in Dialog
    BY DialogStack
  <1>2. /\ last \in Dialog /\ last.covered = dialogs[n].covered /\ last.response = response
        /\ dialogs' = [dialogs EXCEPT ![n] = last]
    BY <1>1 DEF Dialog
  <1>3. /\ dialogs' \in Seq(Dialog) /\ Len(dialogs') = n
        /\ \A d \in 1 .. n : dialogs'[d] = IF d = n THEN last ELSE dialogs[d]
    <2> HIDE DEF last
    <2>1. dialogs \in Seq(Dialog) /\ n \in 1 .. Len(dialogs)
      BY <1>1 DEF TypeOK
    <2> QED BY <1>2, <2>1, ExceptSeq
  <1>4. DOMAIN dialogs' = 1 .. n /\ dialogs' # <<>>
    BY <1>1, <1>3, LenProperties, EmptySeq
  <1> HIDE DEF last
  <1>5. \A d \in 1 .. n : dialogs'[d].covered = dialogs[d].covered
    BY <1>2, <1>3
  <1>6. Last(dialogs').covered = Last(dialogs).covered
    BY <1>1, <1>3, <1>5 DEF Last
  <1>7. Stacked(dialogs')
    BY <1>1, <1>2, <1>3, <1>4, <1>5 DEF TypeOK, Stacked, Last
  <1> QED BY <1>1, <1>3, <1>4, <1>5, <1>6, <1>7

\* A new dialog is shown over the others.
LEMMA DialogShown ==
    ASSUME TypeOK, Looping, session # NoSession,
           dialogs' = Append([d \in DOMAIN dialogs |-> [dialogs[d] EXCEPT !.covered = TRUE]],
                             [shown |-> session, covered |-> FALSE, response |-> "none"])
    PROVE  /\ dialogs' \in Seq(Dialog) /\ Stacked(dialogs')
           /\ dialogs' # <<>> /\ ~Last(dialogs').covered
  <1> DEFINE n == Len(dialogs)
             dialog == [shown |-> session, covered |-> FALSE, response |-> "none"]
             below == [d \in DOMAIN dialogs |-> [dialogs[d] EXCEPT !.covered = TRUE]]
  <1>1. /\ n \in Nat /\ DOMAIN dialogs = 1 .. n
        /\ \A d \in 1 .. n : dialogs[d] \in Dialog
    BY DialogStack
  <1>2. dialog \in Dialog /\ ~dialog.covered /\ dialog.response = "none"
    BY DEF TypeOK, Live, Dialog
  <1>3. \A d \in 1 .. n : dialogs[d].response \in {"none", "returned"}
    <2>1. n # 0 => dialogs[n].response \in {"none", "returned"}
      BY <1>1, DialogStack DEF Looping
    <2>2. \A d \in 1 .. n : dialogs[d].response \in {"yes", "no"} => d = n
      BY <1>1 DEF TypeOK, Stacked
    <2>3. \A d \in 1 .. n : dialogs[d].response \in {"none", "yes", "no", "returned"}
      BY <1>1 DEF Dialog
    <2>4. SUFFICES ASSUME NEW d \in 1 .. n, dialogs[d].response \in {"yes", "no"} PROVE FALSE
      BY <2>3
    <2>5. d = n /\ n # 0
      <3> HIDE DEF n
      <3>1. d = n
        BY <2>2, <2>4
      <3>2. d # 0
        BY <1>1, <2>4
      <3> QED BY <3>1, <3>2
    <2>6. dialogs[d].response \in {"none", "returned"}
      BY <2>1, <2>5
    <2> QED BY <2>4, <2>6
  <1>4. /\ below \in Seq(Dialog) /\ Len(below) = n
        /\ \A d \in 1 .. n : below[d].covered /\ below[d].response = dialogs[d].response
    <2>1. \A d \in 1 .. n : /\ [dialogs[d] EXCEPT !.covered = TRUE] \in Dialog
                            /\ [dialogs[d] EXCEPT !.covered = TRUE].covered
                            /\ [dialogs[d] EXCEPT !.covered = TRUE].response = dialogs[d].response
      BY <1>1 DEF Dialog
    <2>2. below = [d \in 1 .. n |-> [dialogs[d] EXCEPT !.covered = TRUE]]
      BY <1>1
    <2>3. below \in [1 .. n -> Dialog]
      BY <2>1, <2>2
    <2>4. below \in Seq(Dialog) /\ Len(below) = n
      <3> HIDE DEF below
      <3> QED BY <1>1, <2>3, IsASeq, LenProperties
    <2> QED BY <2>1, <2>2, <2>4
  <1>5. /\ dialogs' \in Seq(Dialog) /\ Len(dialogs') = n + 1
        /\ \A d \in 1 .. n : dialogs'[d] = below[d]
        /\ dialogs'[n + 1] = dialog
        /\ DOMAIN dialogs' = 1 .. n + 1
    <2>1. dialogs' = Append(below, dialog)
      OBVIOUS
    <2> HIDE DEF dialog, below, n
    <2>2. /\ dialogs' \in Seq(Dialog) /\ Len(dialogs') = n + 1
          /\ \A d \in 1 .. n : dialogs'[d] = below[d]
          /\ dialogs'[n + 1] = dialog
      <3>1. below \in Seq(Dialog) /\ dialog \in Dialog /\ Len(below) = n
        BY <1>2, <1>4
      <3>2. /\ Append(below, dialog) \in Seq(Dialog)
            /\ Len(Append(below, dialog)) = Len(below) + 1
            /\ \A d \in 1 .. Len(below) : Append(below, dialog)[d] = below[d]
            /\ Append(below, dialog)[Len(below) + 1] = dialog
        BY <3>1, AppendProperties
      <3> QED BY <2>1, <3>1, <3>2
    <2>3. DOMAIN dialogs' = 1 .. n + 1
      BY <2>2, LenProperties
    <2> QED BY <2>2, <2>3
  <1> HIDE DEF dialog, below
  <1>6. dialogs' # <<>> /\ Last(dialogs') = dialog
    BY <1>1, <1>5, EmptySeq DEF Last
  <1>7. Stacked(dialogs')
    <2>1. \A d \in 1 .. n : dialogs'[d].covered /\ dialogs'[d].response \notin {"yes", "no"}
      BY <1>3, <1>4, <1>5
    <2>2. \A d \in DOMAIN dialogs' : d \in 1 .. n \/ d = n + 1
      BY <1>1, <1>5
    <2> QED BY <1>2, <1>5, <2>1, <2>2 DEF Stacked
  <1> QED BY <1>2, <1>5, <1>6, <1>7

\* The end of the current session, without a dialog.
LEMMA EndCallInvariant ==
    ASSUME IInv, EndCall, UNCHANGED <<idle, lookups, overlapped>>, lookups = 0 \/ overlapped,
           ~call_dialog', \A d \in DOMAIN dialogs' : dialogs'[d].covered
    PROVE  /\ session' \in Live' \cup {NoSession}
           /\ sessions' \in [Session -> RtpSession]
           /\ widgets' \in BOOLEAN \X BOOLEAN \X BOOLEAN
           /\ HeldIsDeaf' /\ KeptAlive' /\ Reachable' /\ NothingToStop' /\ OneCall' /\ OneAtATime'
  <1>1. /\ sessions \in [Session -> RtpSession] /\ lookups \in Nat
        /\ session \in Live \cup {NoSession} /\ Live \subseteq Session
    BY CallAssumption DEF IInv, TypeOK, Live
  <1>2. /\ session' = NoSession /\ button_start' = TRUE /\ button_stop' = FALSE /\ listen' = TRUE
    BY DEF EndCall
  <1>3. /\ sessions' \in [Session -> RtpSession]
        /\ \A s \in Session : sessions'[s] = IF s = session THEN Destroy(sessions[s]) ELSE sessions[s]
    BY <1>1, DestroyedSession, CallAssumption DEF EndCall
  <1>4. HeldIsDeaf'
    <2>1. \A s \in Session : /\ sessions'[s].linked = sessions[s].linked
                             /\ sessions'[s].on_hold = sessions[s].on_hold
                             /\ sessions'[s].enable = sessions[s].enable
                             /\ sessions'[s].tx_pipeline \in {sessions[s].tx_pipeline, "NULL"}
                             /\ sessions'[s].phase = "unborn" => sessions'[s] = sessions[s]
      BY <1>1, <1>3, DestroyedSession
    <2>2. \A i \in DOMAIN idle : idle[i].cb = "accept_cb" => idle[i].arg \in Session
      BY ElementOfSeq, LenProperties DEF IInv, TypeOK, Callback
    <2> QED BY <2>1, <2>2 DEF IInv, HeldIsDeaf
  <1>5. KeptAlive'
    BY <1>1, <1>3, DestroyedSession DEF IInv, KeptAlive, Live
  <1>6. OneCall'
    BY <1>1, <1>3, DestroyedSession DEF IInv, OneCall, Live
  <1>7. Reachable' /\ NothingToStop' /\ OneAtATime'
    BY <1>1, <1>2 DEF IInv, Reachable, NothingToStop, OneAtATime
  <1> QED BY <1>1, <1>2, <1>3, <1>4, <1>5, <1>6, <1>7 DEF widgets

\* Neither who waits for a lookup nor an undisturbed user has anything to end.
LEMMA NothingElseWaits ==
    ASSUME IInv, session # NoSession \/ dialogs # <<>> \/ Live # {}
    PROVE  lookups = 0 \/ overlapped
  BY CallAssumption DEF IInv, TypeOK, OneCall, OneAtATime, Live

\* call_stop keeps the invariant if there is a call or a dialog to stop.
LEMMA CallStopInvariant ==
    ASSUME IInv, CallStop, UNCHANGED <<call_dialog, idle, lookups, overlapped>>,
           session # NoSession \/ dialogs # <<>> \/ Live # {}
    PROVE  IInv'
  <1>1. lookups = 0 \/ overlapped
    BY NothingElseWaits
  <1>2. CASE /\ call_dialog
             /\ dialogs' = [dialogs EXCEPT ![Len(dialogs)].response = "no"]
             /\ UNCHANGED <<session, sessions, widgets>>
    <2>1. /\ dialogs # <<>> /\ ~Last(dialogs).covered /\ call_dialog' = call_dialog
          /\ session # NoSession
      BY <1>2 DEF IInv, TypeOK, NothingToStop
    <2>2. /\ dialogs' \in Seq(Dialog) /\ Stacked(dialogs')
          /\ dialogs' # <<>> /\ ~Last(dialogs').covered
      BY <1>2, <2>1, DialogAnswered DEF IInv
    <2>3. TypeOK'
      BY <1>2, <2>1, <2>2 DEF IInv, TypeOK, Live, widgets
    <2>4. OneAtATime'
      BY <1>1, <1>2 DEF IInv, OneAtATime, widgets
    <2> QED BY <1>2, <2>1, <2>3, <2>4
            DEF IInv, HeldIsDeaf, KeptAlive, Live, Reachable, NothingToStop, OneCall, widgets
  <1>3. CASE ~call_dialog /\ EndCall /\ UNCHANGED dialogs
    <2>1. ~call_dialog' /\ \A d \in DOMAIN dialogs' : dialogs'[d].covered
      BY <1>3, AllCovered DEF IInv
    <2>2. /\ session' \in Live' \cup {NoSession}
          /\ sessions' \in [Session -> RtpSession]
          /\ widgets' \in BOOLEAN \X BOOLEAN \X BOOLEAN
          /\ HeldIsDeaf' /\ KeptAlive' /\ Reachable' /\ NothingToStop' /\ OneCall' /\ OneAtATime'
      BY <1>1, <1>3, <2>1, EndCallInvariant
    <2> QED BY <1>3, <2>2 DEF IInv, TypeOK
  <1> QED BY <1>2, <1>3 DEF CallStop

\* One lemma per action.  The user dials,
LEMMA CallStartInvariant == ASSUME IInv, CallStart PROVE IInv'
  <1>1. lookups' \in 0 .. MaxLookups
    BY CallAssumption DEF IInv, TypeOK, CallStart
  <1>2. TypeOK'
    BY <1>1 DEF IInv, TypeOK, CallStart, Live, widgets
  <1>3. OneAtATime' /\ NothingToStop' /\ Reachable'
    BY CallAssumption DEF IInv, TypeOK, CallStart, OneAtATime, NothingToStop, Reachable
  <1> QED BY <1>2, <1>3 DEF IInv, CallStart, HeldIsDeaf, KeptAlive, OneCall, Live

\* or presses the stop button;
LEMMA StopButtonInvariant == ASSUME IInv, StopButton PROVE IInv'
  <1>1. session # NoSession
    BY DEF IInv, StopButton, NothingToStop
  <1> QED BY <1>1, CallStopInvariant DEF StopButton

\* a session reports that its peer is gone;
LEMMA HangupInvariant == ASSUME IInv, NEW s \in Session, Hangup(s) PROVE IInv'
  <1>1. Live # {}
    BY DEF Hangup
  <1> QED BY <1>1, CallStopInvariant DEF Hangup

\* A session is born, by a call in either direction.
LEMMA SessionBorn ==
    ASSUME IInv, NEW s \in Session, NEW on_hold \in BOOLEAN,
           sessions[s].phase = "unborn", sessions' = [sessions EXCEPT ![s] = Launch(on_hold)],
           session' = s
    PROVE  /\ sessions' \in [Session -> RtpSession]
           /\ Live' = Live \cup {s} /\ KeptAlive'
           /\ \A t \in Session : sessions'[t].phase = "unborn" => sessions'[t] = Unborn
           /\ \A t \in Session : sessions'[t].on_hold =>
                 ~sessions'[t].enable /\ ~sessions'[t].linked /\ sessions'[t].tx_pipeline # "PLAYING"
           /\ \A t \in Session : sessions[t].linked => sessions'[t].linked
  <1>1. /\ sessions' \in [Session -> RtpSession]
        /\ \A t \in Session : sessions'[t] = IF t = s THEN Launch(on_hold) ELSE sessions[t]
    BY LaunchedSession DEF IInv, TypeOK
  <1>2. sessions[s].linked = FALSE
    BY DEF IInv, HeldIsDeaf, Unborn
  <1> QED BY <1>1, <1>2, LaunchedSession DEF IInv, HeldIsDeaf, KeptAlive, Live

\* a lookup has found who was looked for,
LEMMA LookupFinishedInvariant == ASSUME IInv, NEW s \in Session, LookupFinished(s) PROVE IInv'
  <1>1. /\ sessions' \in [Session -> RtpSession]
        /\ Live' = Live \cup {s} /\ KeptAlive'
        /\ \A t \in Session : sessions'[t].phase = "unborn" => sessions'[t] = Unborn
        /\ \A t \in Session : sessions'[t].on_hold =>
              ~sessions'[t].enable /\ ~sessions'[t].linked /\ sessions'[t].tx_pipeline # "PLAYING"
        /\ \A t \in Session : sessions[t].linked => sessions'[t].linked
    BY SessionBorn DEF LookupFinished
  <1>2. TypeOK'
    <2>1. lookups' \in 0 .. MaxLookups
      BY CallAssumption DEF IInv, TypeOK, LookupFinished
    <2> QED BY <1>1, <2>1 DEF IInv, TypeOK, LookupFinished, widgets
  <1>3. \A i \in DOMAIN idle : idle[i].cb = "accept_cb" => idle[i].arg \in Session
    BY ElementOfSeq, LenProperties DEF IInv, TypeOK, Callback
  <1>4. HeldIsDeaf'
    BY <1>1, <1>3 DEF IInv, HeldIsDeaf, LookupFinished
  <1>5. OneCall' /\ OneAtATime'
    <2>1. lookups \in Nat /\ lookups > 0 /\ lookups' = lookups - 1
      BY CallAssumption DEF IInv, TypeOK, LookupFinished
    <2>2. ~overlapped => lookups' = 0 /\ session = NoSession /\ ~button_start
      BY <2>1 DEF IInv, OneAtATime
    <2>3. ~overlapped => Live = {}
      BY <2>2, CallAssumption DEF IInv, OneCall, Live
    <2> QED BY <1>1, <2>2, <2>3 DEF OneCall, OneAtATime, LookupFinished
  <1> QED BY <1>1, <1>2, <1>4, <1>5, CallAssumption DEF IInv, LookupFinished, Reachable, NothingToStop

\* or has not;
LEMMA LookupFailedInvariant == ASSUME IInv, LookupFailed PROVE IInv'
  <1>1. lookups' \in 0 .. MaxLookups
    BY CallAssumption DEF IInv, TypeOK, LookupFailed
  <1>2. TypeOK'
    BY <1>1 DEF IInv, TypeOK, LookupFailed, Live, widgets
  <1>3. OneAtATime' /\ NothingToStop'
    BY CallAssumption DEF IInv, TypeOK, LookupFailed, OneAtATime, NothingToStop
  <1>4. Reachable'
    BY AllCovered DEF IInv, LookupFailed, NothingToStop, Reachable
  <1> QED BY <1>2, <1>3, <1>4 DEF IInv, LookupFailed, HeldIsDeaf, KeptAlive, OneCall, Live

\* A callback is queued.
LEMMA CallbackQueued ==
    ASSUME IInv, NEW callback \in Callback, idle' = Append(idle, callback)
    PROVE  /\ idle' \in Seq(Callback)
           /\ \A i \in DOMAIN idle' : /\ idle'[i] \in Callback
                                      /\ (i \in DOMAIN idle /\ idle'[i] = idle[i]) \/ idle'[i] = callback
  <1>1. idle \in Seq(Callback)
    BY DEF IInv, TypeOK
  <1>2. /\ idle' \in Seq(Callback) /\ Len(idle') = Len(idle) + 1 /\ Len(idle) \in Nat
        /\ \A i \in 1 .. Len(idle) : idle'[i] = idle[i]
        /\ idle'[Len(idle) + 1] = callback
    BY <1>1, AppendProperties, LenProperties
  <1>3. DOMAIN idle' = 1 .. Len(idle) + 1 /\ DOMAIN idle = 1 .. Len(idle)
    BY <1>1, <1>2, LenProperties
  <1>4. \A i \in DOMAIN idle' : i \in DOMAIN idle \/ i = Len(idle) + 1
    BY <1>2, <1>3
  <1> QED BY <1>1, <1>2, <1>3, <1>4, ElementOfSeq

\* A caller is let in by a client that listens, or once a call has overlapped
\* another.
LEMMA NewConnectionInvariant ==
    ASSUME IInv, NEW s \in Session, NewConnection(s), listen \/ overlapped PROVE IInv'
  <1>1. /\ sessions' \in [Session -> RtpSession]
        /\ Live' = Live \cup {s} /\ KeptAlive'
        /\ \A t \in Session : sessions'[t].phase = "unborn" => sessions'[t] = Unborn
        /\ \A t \in Session : sessions'[t].on_hold =>
              ~sessions'[t].enable /\ ~sessions'[t].linked /\ sessions'[t].tx_pipeline # "PLAYING"
        /\ \A t \in Session : sessions[t].linked => sessions'[t].linked
    BY SessionBorn DEF NewConnection
  <1> DEFINE callback == [cb |-> "dialog_run"]
  <1>2. /\ idle' \in Seq(Callback)
        /\ \A i \in DOMAIN idle' : (i \in DOMAIN idle /\ idle'[i] = idle[i]) \/ idle'[i] = callback
    <2>1. callback \in Callback /\ idle' = Append(idle, callback)
      BY DEF Callback, NewConnection
    <2> HIDE DEF callback
    <2> QED BY <2>1, CallbackQueued
  <1>3. TypeOK'
    BY <1>1, <1>2 DEF IInv, TypeOK, NewConnection, widgets
  <1>4. \A i \in DOMAIN idle : idle[i].cb = "accept_cb" => idle[i].arg \in Session
    BY ElementOfSeq, LenProperties DEF IInv, TypeOK, Callback
  <1>5. HeldIsDeaf'
    <2>1. callback.cb # "accept_cb"
      OBVIOUS
    <2> HIDE DEF callback
    <2> QED BY <1>1, <1>2, <1>4, <2>1 DEF IInv, HeldIsDeaf, NewConnection
  <1>6. ~overlapped' => session = NoSession /\ ~overlapped
    BY DEF NewConnection
  <1>7. OneCall' /\ OneAtATime'
    <2>1. session' = s /\ ~button_start' /\ lookups' = lookups
      BY DEF NewConnection, widgets
    <2>2. ~overlapped' => Live = {}
      BY <1>6, CallAssumption DEF IInv, OneCall, Live
    <2>3. ~overlapped' => ~(lookups > 0)
      BY <1>6 DEF IInv, OneAtATime
    <2>4. OneCall'
      BY <1>1, <2>1, <2>2 DEF OneCall
    <2>5. OneAtATime'
      BY <2>1, <2>3 DEF OneAtATime
    <2> QED BY <2>4, <2>5
  <1> QED BY <1>1, <1>3, <1>5, <1>7, CallAssumption DEF IInv, NewConnection, Reachable, NothingToStop

\* the first media of a peer arrives;
LEMMA NewPayloadTypeInvariant == ASSUME IInv, NEW s \in Session, NewPayloadType(s) PROVE IInv'
  <1> DEFINE callback == [cb |-> "accept_cb", arg |-> s]
  <1>1. /\ sessions' \in [Session -> RtpSession]
        /\ \A t \in Session : /\ sessions'[t].phase = sessions[t].phase
                              /\ sessions'[t].on_hold = sessions[t].on_hold
                              /\ sessions'[t].enable = sessions[t].enable
                              /\ sessions'[t].io_timeout_source = sessions[t].io_timeout_source
                              /\ sessions'[t].tx_pipeline = sessions[t].tx_pipeline
                              /\ sessions[t].linked \/ t = s => sessions'[t].linked
                              /\ t # s => sessions'[t] = sessions[t]
    <2> DEFINE x == [sessions[s] EXCEPT !.linked = TRUE]
    <2>1. sessions \in [Session -> RtpSession] /\ sessions' = [sessions EXCEPT ![s] = x]
      BY DEF IInv, TypeOK, NewPayloadType
    <2>2. sessions[s] \in RtpSession
      BY <2>1
    <2>3. /\ x \in RtpSession
          /\ x.phase = sessions[s].phase /\ x.on_hold = sessions[s].on_hold
          /\ x.enable = sessions[s].enable
          /\ x.io_timeout_source = sessions[s].io_timeout_source
          /\ x.tx_pipeline = sessions[s].tx_pipeline /\ x.linked
      BY <2>2 DEF RtpSession
    <2> HIDE DEF x
    <2> QED BY <2>1, <2>3
  <1>2. Live' = Live
    BY <1>1 DEF Live
  <1>3. /\ idle' \in Seq(Callback)
        /\ \A i \in DOMAIN idle' : (i \in DOMAIN idle /\ idle'[i] = idle[i]) \/ idle'[i] = callback
    <2>1. callback \in Callback /\ idle' = Append(idle, callback)
      BY DEF Callback, NewPayloadType
    <2> HIDE DEF callback
    <2> QED BY <2>1, CallbackQueued
  <1>4. TypeOK'
    BY <1>1, <1>2, <1>3 DEF IInv, TypeOK, NewPayloadType, widgets
  <1>5. \A i \in DOMAIN idle : idle[i].cb = "accept_cb" => idle[i].arg \in Session
    BY ElementOfSeq, LenProperties DEF IInv, TypeOK, Callback
  <1>6. HeldIsDeaf'
    <2>1. s \in Live /\ sessions[s].phase # "unborn" /\ sessions[s].enable
      BY DEF NewPayloadType, Live
    <2>2. callback.arg = s
      OBVIOUS
    <2> HIDE DEF callback
    <2>3. \A i \in DOMAIN idle' : idle'[i].cb = "accept_cb" => sessions'[idle'[i].arg].linked
      BY <1>1, <1>3, <1>5, <2>2 DEF IInv, HeldIsDeaf
    <2>4. \A t \in Session : sessions'[t].phase = "unborn" => sessions'[t] = Unborn
      BY <1>1, <2>1 DEF IInv, HeldIsDeaf
    <2>5. \A t \in Session : sessions'[t].on_hold =>
            ~sessions'[t].enable /\ ~sessions'[t].linked /\ sessions'[t].tx_pipeline # "PLAYING"
      BY <1>1, <2>1 DEF IInv, HeldIsDeaf
    <2> QED BY <2>3, <2>4, <2>5 DEF HeldIsDeaf
  <1>7. KeptAlive'
    BY <1>1, <1>2 DEF IInv, KeptAlive, Live
  <1> QED BY <1>2, <1>4, <1>6, <1>7
          DEF IInv, NewPayloadType, Reachable, NothingToStop, OneCall, OneAtATime, widgets

\* the video branch fails;
LEMMA VideoErrorInvariant == ASSUME IInv, NEW s \in Session, VideoError(s) PROVE IInv'
  <1>1. /\ sessions' \in [Session -> RtpSession]
        /\ \A t \in Session : /\ sessions'[t].phase = sessions[t].phase
                              /\ sessions'[t].on_hold = sessions[t].on_hold
                              /\ sessions'[t].enable = sessions[t].enable
                              /\ sessions'[t].linked = sessions[t].linked
                              /\ sessions'[t].io_timeout_source = sessions[t].io_timeout_source
                              /\ sessions'[t].tx_pipeline \in {sessions[t].tx_pipeline, "READY"}
                              /\ t # s => sessions'[t] = sessions[t]
    <2> DEFINE x == [sessions[s] EXCEPT !.enable_video = FALSE, !.tx_pipeline = "READY"]
    <2>1. sessions \in [Session -> RtpSession] /\ sessions' = [sessions EXCEPT ![s] = x]
      BY DEF IInv, TypeOK, VideoError
    <2>2. sessions[s] \in RtpSession
      BY <2>1
    <2>3. /\ x \in RtpSession
          /\ x.phase = sessions[s].phase /\ x.on_hold = sessions[s].on_hold
          /\ x.enable = sessions[s].enable /\ x.linked = sessions[s].linked
          /\ x.io_timeout_source = sessions[s].io_timeout_source
          /\ x.tx_pipeline = "READY"
      BY <2>2 DEF RtpSession
    <2> HIDE DEF x
    <2> QED BY <2>1, <2>3
  <1>2. Live' = Live /\ s \in Live /\ sessions[s].io_timeout_source
    BY <1>1 DEF Live, VideoError
  <1>3. TypeOK'
    BY <1>1, <1>2 DEF IInv, TypeOK, VideoError, widgets
  <1>4. \A i \in DOMAIN idle : idle[i].cb = "accept_cb" => idle[i].arg \in Session
    BY ElementOfSeq, LenProperties DEF IInv, TypeOK, Callback
  <1>5. HeldIsDeaf'
    BY <1>1, <1>2, <1>4 DEF IInv, HeldIsDeaf, VideoError, Live
  <1>6. KeptAlive'
    BY <1>1, <1>2 DEF IInv, KeptAlive, Live
  <1> QED BY <1>2, <1>3, <1>5, <1>6
          DEF IInv, VideoError, Reachable, NothingToStop, OneCall, OneAtATime, widgets

\* A live session is accepted, by whoever.
LEMMA SessionAccepted ==
    ASSUME IInv, NEW s \in Live, sessions' = [sessions EXCEPT ![s] = Accept(@)]
    PROVE  /\ sessions' \in [Session -> RtpSession]
           /\ Live' = Live /\ KeptAlive'
           /\ \A t \in Session : sessions'[t].phase = "unborn" => sessions'[t] = Unborn
           /\ \A t \in Session : sessions'[t].on_hold =>
                 ~sessions'[t].enable /\ ~sessions'[t].linked /\ sessions'[t].tx_pipeline # "PLAYING"
           /\ \A t \in Session : sessions'[t].linked = sessions[t].linked
  <1>1. /\ s \in Session /\ sessions[s] \in RtpSession /\ sessions[s].phase = "live"
        /\ sessions' \in [Session -> RtpSession]
        /\ \A t \in Session : sessions'[t] = IF t = s THEN Accept(sessions[t]) ELSE sessions[t]
    BY AcceptedSession DEF IInv, TypeOK, Live
  <1>2. /\ Accept(sessions[s]).phase = "live" /\ ~Accept(sessions[s]).on_hold
        /\ Accept(sessions[s]).linked = sessions[s].linked
        /\ Accept(sessions[s]).tx_pipeline = "PLAYING"
    BY <1>1, AcceptedSession DEF IInv, KeptAlive, Live
  <1> QED BY <1>1, <1>2 DEF IInv, HeldIsDeaf, KeptAlive, Live

\* What is left in the idle queue when its first callback runs.
LEMMA CallbackTaken ==
    ASSUME IInv, idle # <<>>, idle' = Tail(idle)
    PROVE  /\ idle' \in Seq(Callback)
           /\ \A i \in DOMAIN idle' : i + 1 \in DOMAIN idle /\ idle'[i] = idle[i + 1]
  <1>1. idle \in Seq(Callback)
    BY DEF IInv, TypeOK
  <1>2. /\ idle' \in Seq(Callback) /\ Len(idle') = Len(idle) - 1 /\ Len(idle) \in Nat
        /\ \A i \in 1 .. Len(idle') : idle'[i] = idle[i + 1]
    BY <1>1, HeadTailProperties, LenProperties
  <1>3. DOMAIN idle' = 1 .. Len(idle') /\ DOMAIN idle = 1 .. Len(idle)
    BY <1>1, <1>2, LenProperties
  <1> QED BY <1>2, <1>3

\* accept_cb runs, maybe for a session that is gone;
LEMMA AcceptCbInvariant == ASSUME IInv, NEW s \in Session, AcceptCb(s) PROVE IInv'
  <1>1. /\ idle' \in Seq(Callback)
        /\ \A i \in DOMAIN idle' : i + 1 \in DOMAIN idle /\ idle'[i] = idle[i + 1]
    BY CallbackTaken DEF AcceptCb
  <1>2. \A i \in DOMAIN idle : idle[i].cb = "accept_cb" => idle[i].arg \in Session
    BY ElementOfSeq, LenProperties DEF IInv, TypeOK, Callback
  <1>3. /\ sessions' \in [Session -> RtpSession]
        /\ Live' = Live /\ KeptAlive'
        /\ \A t \in Session : sessions'[t].phase = "unborn" => sessions'[t] = Unborn
        /\ \A t \in Session : sessions'[t].on_hold =>
              ~sessions'[t].enable /\ ~sessions'[t].linked /\ sessions'[t].tx_pipeline # "PLAYING"
        /\ \A t \in Session : sessions'[t].linked = sessions[t].linked
    <2>1. CASE UNCHANGED sessions
      BY <2>1 DEF IInv, TypeOK, HeldIsDeaf, KeptAlive, Live
    <2>2. CASE \E t \in Live : sessions' = [sessions EXCEPT ![t] = Accept(@)]
      BY <2>2, SessionAccepted
    <2> QED BY <2>1, <2>2 DEF AcceptCb
  <1>4. TypeOK'
    BY <1>1, <1>3 DEF IInv, TypeOK, AcceptCb, widgets
  <1>5. HeldIsDeaf'
    BY <1>1, <1>2, <1>3 DEF IInv, HeldIsDeaf
  <1> QED BY <1>3, <1>4, <1>5
          DEF IInv, AcceptCb, Reachable, NothingToStop, OneCall, OneAtATime, widgets

\* dialog_run opens a dialog,
LEMMA DialogRunInvariant == ASSUME IInv, DialogRun PROVE IInv'
  <1>1. /\ idle' \in Seq(Callback)
        /\ \A i \in DOMAIN idle' : i + 1 \in DOMAIN idle /\ idle'[i] = idle[i + 1]
    BY CallbackTaken DEF DialogRun
  <1>2. HeldIsDeaf'
    BY <1>1 DEF IInv, HeldIsDeaf, DialogRun
  <1>3. dialogs \in Seq(Dialog)
    BY DEF IInv, TypeOK
  <1>4. CASE session = NoSession /\ UNCHANGED <<dialogs, call_dialog>>
    BY <1>1, <1>2, <1>4
       DEF IInv, TypeOK, Live, DialogRun, KeptAlive, Reachable, NothingToStop, OneCall, OneAtATime, widgets
  <1>5. CASE /\ session # NoSession
             /\ dialogs' = Append([d \in DOMAIN dialogs |-> [dialogs[d] EXCEPT !.covered = TRUE]],
                                  [shown |-> session, covered |-> FALSE, response |-> "none"])
             /\ call_dialog' = TRUE
    <2>1. /\ dialogs' \in Seq(Dialog) /\ Stacked(dialogs')
          /\ dialogs' # <<>> /\ ~Last(dialogs').covered
      BY <1>5, DialogShown DEF IInv, DialogRun
    <2>2. TypeOK'
      BY <1>1, <1>5, <2>1 DEF IInv, TypeOK, Live, DialogRun, widgets
    <2>3. OneAtATime'
      BY <1>5 DEF IInv, OneAtATime, DialogRun, widgets
    <2> QED BY <1>2, <1>5, <2>2, <2>3
            DEF IInv, DialogRun, Live, KeptAlive, Reachable, NothingToStop, OneCall, widgets
  <1> QED BY <1>4, <1>5 DEF DialogRun

\* which the user answers
LEMMA RespondInvariant ==
    ASSUME IInv, NEW response \in {"yes", "no"}, Respond(response) PROVE IInv'
  <1>1. /\ dialogs' \in Seq(Dialog) /\ Stacked(dialogs') /\ DOMAIN dialogs' = DOMAIN dialogs
        /\ dialogs # <<>> /\ dialogs' # <<>> /\ Last(dialogs').covered = Last(dialogs).covered
        /\ \A d \in DOMAIN dialogs' : dialogs'[d].covered = dialogs[d].covered
    BY DialogAnswered DEF IInv, Respond
  <1>2. TypeOK'
    BY <1>1 DEF IInv, TypeOK, Live, Respond, widgets
  <1>3. OneAtATime'
    BY <1>1 DEF IInv, OneAtATime, Respond, widgets
  <1>4. Reachable'
    BY <1>1 DEF IInv, Reachable, Respond, widgets
  <1> QED BY <1>2, <1>3, <1>4
          DEF IInv, Respond, HeldIsDeaf, Live, KeptAlive, NothingToStop, OneCall, widgets

\* or, if it has returned already, closes,
LEMMA DismissInvariant == ASSUME IInv, Dismiss PROVE IInv'
  <1>1. /\ dialogs' \in Seq(Dialog) /\ Stacked(dialogs')
        /\ ~(dialogs' # <<>> /\ ~Last(dialogs').covered)
        /\ \A d \in DOMAIN dialogs' : dialogs'[d].covered
    BY DialogsPopped DEF IInv, Dismiss
  <1>2. ~call_dialog
    <2>1. Len(dialogs) \in DOMAIN dialogs /\ dialogs[Len(dialogs)].response = "returned"
      BY DialogStack DEF IInv, Dismiss
    <2>2. Last(dialogs).covered
      BY <2>1, DialogStack DEF IInv, TypeOK, Stacked
    <2> QED BY <2>2 DEF IInv, TypeOK
  <1>3. TypeOK'
    BY <1>1, <1>2 DEF IInv, TypeOK, Live, Dismiss, widgets
  <1>4. OneAtATime'
    BY DEF IInv, OneAtATime, Dismiss, widgets
  <1>5. Reachable'
    BY <1>1 DEF IInv, Reachable, Dismiss, widgets
  <1> QED BY <1>3, <1>4, <1>5
          DEF IInv, Dismiss, HeldIsDeaf, Live, KeptAlive, NothingToStop, OneCall, widgets

\* and which then returns.
LEMMA DialogReturnInvariant == ASSUME IInv, DialogReturn PROVE IInv'
  <1>1. dialogs # <<>>
    BY DEF DialogReturn, Looping
  <1>2. lookups = 0 \/ overlapped
    BY <1>1, NothingElseWaits
  <1>3. /\ dialogs' \in Seq(Dialog) /\ Stacked(dialogs') /\ ~call_dialog'
        /\ ~(dialogs' # <<>> /\ ~Last(dialogs').covered)
        /\ \A d \in DOMAIN dialogs' : dialogs'[d].covered
    <2>1. CASE call_dialog
      BY <1>1, <2>1, DialogsPopped DEF IInv, DialogReturn, DestroyDialog
    <2>2. CASE ~call_dialog
      <3>1. Last(dialogs).covered /\ \A d \in DOMAIN dialogs : dialogs[d].covered
        BY <1>1, <2>2, AllCovered DEF IInv, TypeOK
      <3>2. dialogs' = [dialogs EXCEPT ![Len(dialogs)].response = "returned"]
        BY <2>2 DEF DialogReturn, DestroyDialog
      <3> QED BY <1>1, <3>1, <3>2, DialogAnswered DEF IInv, DialogReturn
    <2> QED BY <2>1, <2>2
  <1>4. CASE /\ sessions' = IF session \in Live THEN [sessions EXCEPT ![session] = Accept(@)]
                                                ELSE sessions
             /\ UNCHANGED <<session, widgets>>
    <2>1. /\ sessions' \in [Session -> RtpSession]
          /\ Live' = Live /\ KeptAlive'
          /\ \A t \in Session : sessions'[t].phase = "unborn" => sessions'[t] = Unborn
          /\ \A t \in Session : sessions'[t].on_hold =>
                ~sessions'[t].enable /\ ~sessions'[t].linked /\ sessions'[t].tx_pipeline # "PLAYING"
          /\ \A t \in Session : sessions'[t].linked = sessions[t].linked
      <3>1. CASE session \in Live
        BY <1>4, <3>1, SessionAccepted
      <3>2. CASE session \notin Live
        BY <1>4, <3>2 DEF IInv, TypeOK, HeldIsDeaf, KeptAlive, Live
      <3> QED BY <3>1, <3>2
    <2>2. \A i \in DOMAIN idle : idle[i].cb = "accept_cb" => idle[i].arg \in Session
      BY ElementOfSeq, LenProperties DEF IInv, TypeOK, Callback
    <2>3. HeldIsDeaf'
      BY <2>1, <2>2 DEF IInv, HeldIsDeaf, DialogReturn
    <2>4. TypeOK'
      BY <1>3, <1>4, <2>1 DEF IInv, TypeOK, DialogReturn, widgets
    <2>5. OneAtATime'
      BY <1>2, <1>4 DEF IInv, OneAtATime, DialogReturn, widgets
    <2>6. Reachable' /\ NothingToStop' /\ OneCall'
      BY <1>3, <1>4, <2>1 DEF IInv, DialogReturn, Reachable, NothingToStop, OneCall, widgets
    <2> QED BY <2>1, <2>3, <2>4, <2>5, <2>6 DEF IInv
  <1>5. CASE EndCall
    <2>1. /\ session' \in Live' \cup {NoSession}
          /\ sessions' \in [Session -> RtpSession]
          /\ widgets' \in BOOLEAN \X BOOLEAN \X BOOLEAN
          /\ HeldIsDeaf' /\ KeptAlive' /\ Reachable' /\ NothingToStop' /\ OneCall' /\ OneAtATime'
      BY <1>2, <1>3, <1>5, EndCallInvariant DEF DialogReturn
    <2> QED BY <1>3, <2>1 DEF IInv, TypeOK, DialogReturn
  <1> QED BY <1>4, <1>5 DEF DialogReturn

-----------------------------------------------------------------------------
\* The invariant is true at the start,
LEMMA Initially == Init => IInv
  <1> SUFFICES ASSUME Init PROVE IInv
    OBVIOUS
  <1>1. Unborn \in RtpSession /\ Unborn.phase = "unborn" /\ Unborn.on_hold = FALSE
    BY DEF Unborn, RtpSession
  <1>2. Live = {}
    BY <1>1 DEF Init, Live
  <1>3. TypeOK
    <2>1. 0 \in 0 .. MaxLookups
      BY CallAssumption
    <2>2. << >> \in Seq(Dialog) /\ << >> \in Seq(Callback) /\ DOMAIN << >> = {}
      OBVIOUS
    <2> QED BY <1>1, <1>2, <2>1, <2>2 DEF Init, TypeOK, Stacked, widgets
  <1>4. HeldIsDeaf
    BY <1>1 DEF Init, HeldIsDeaf
  <1> QED BY <1>2, <1>3, <1>4
          DEF Init, IInv, KeptAlive, Reachable, NothingToStop, OneCall, OneAtATime

\* every step keeps it,
LEMMA Consecution == IInv /\ [Next]_vars => IInv'
  <1> SUFFICES ASSUME IInv, [Next]_vars PROVE IInv'
    OBVIOUS
  <1>1. CASE UNCHANGED vars
    BY <1>1 DEF IInv, TypeOK, HeldIsDeaf, KeptAlive, Reachable, NothingToStop, OneCall, OneAtATime,
                Live, vars, widgets
  <1>2. ASSUME NEW s \in Session, Incoming(s) PROVE IInv'
    BY <1>2, NewConnectionInvariant DEF Incoming
  <1> QED BY <1>1, <1>2, CallStartInvariant, StopButtonInvariant, LookupFailedInvariant,
             DialogRunInvariant, DialogReturnInvariant, RespondInvariant, DismissInvariant,
             LookupFinishedInvariant, NewPayloadTypeInvariant, HangupInvariant,
             VideoErrorInvariant, AcceptCbInvariant DEF Next

\* and so it is always true: the types, that a held session hears nothing, and
\* how the buttons, listen, the dialogs and the lookups in progress go together.
THEOREM Invariant == Spec => []IInv
  BY Initially, Consecution, PTL DEF Spec

\* Pointers are to what lives, only the newest dialog is answered, none below it
\* is uncovered, and call_dialog is set while the newest is not covered.
THEOREM TypeCorrect == Spec => []TypeOK
  <1>1. IInv => TypeOK
    BY DEF IInv
  <1> QED BY <1>1, Invariant, PTL

\* No way a call ends leaves the client deaf or a button dead; and of the dialogs
\* of calls that are over only one that another has covered can be in the way.
THEOREM AlwaysReachable == Spec => []Reachable
  <1>1. IInv => Reachable
    BY DEF IInv
  <1> QED BY <1>1, Invariant, PTL

\* A live session sends keepalives or media.
THEOREM NeverSilent == Spec => []KeptAlive
  <1>1. IInv => KeptAlive
    BY DEF IInv
  <1> QED BY <1>1, Invariant, PTL

\* Until somebody calls during a call, the application knows every session.
THEOREM CallsOneByOne == Spec => []OneCall
  <1>1. IInv => OneCall
    BY DEF IInv
  <1> QED BY <1>1, Invariant, PTL

\* A session leaves hold when it is the current one and the innermost dialog
\* has been answered with yes, or by the accept_cb of a session that is gone.
LEMMA LeavesHold ==
    ASSUME IInv, [Next]_vars, NEW s \in Session, sessions[s].on_hold, ~sessions'[s].on_hold
    PROVE  \/ session = s /\ dialogs # <<>> /\ Last(dialogs).response = "yes"
           \/ \E t \in Session \ Live : AcceptCb(t)
  <1>1. /\ sessions \in [Session -> RtpSession] /\ session \in Live \cup {NoSession}
        /\ Live \subseteq Session /\ sessions[s].phase # "unborn"
    BY DEF IInv, TypeOK, HeldIsDeaf, Live, Unborn
  <1>2. \A t \in Session : sessions' # [sessions EXCEPT ![t] = Launch(TRUE)]
                           \/ sessions[t].phase # "unborn"
    BY <1>1, LaunchedSession
  <1>3. ~EndCall
    BY <1>1, DestroyedSession DEF EndCall
  <1>4. ~CallStop
    BY <1>3 DEF CallStop
  <1>5. ASSUME NEW t \in Session, AcceptCb(t), t \in Live PROVE FALSE
    <2>1. sessions' = [sessions EXCEPT ![t] = Accept(@)]
      BY <1>5 DEF AcceptCb
    <2>2. t = s
      BY <1>1, <2>1
    <2>3. /\ idle \in Seq(Callback) /\ idle # <<>> /\ Head(idle) = [cb |-> "accept_cb", arg |-> t]
      BY <1>5 DEF IInv, TypeOK, AcceptCb
    <2>4. 1 \in DOMAIN idle /\ idle[1] = [cb |-> "accept_cb", arg |-> t]
      BY <2>3, EmptySeq, LenProperties
    <2>5. idle[1].cb = "accept_cb" /\ idle[1].arg = t
      BY <2>4
    <2> QED BY <2>2, <2>4, <2>5 DEF IInv, HeldIsDeaf
  <1>6. CASE DialogReturn
    BY <1>1, <1>3, <1>6 DEF DialogReturn, Looping
  <1>7. ASSUME NEW t \in Session, NewPayloadType(t) \/ VideoError(t) PROVE FALSE
    <2>1. sessions[t] \in RtpSession /\ sessions'[t].on_hold = sessions[t].on_hold
      BY <1>1, <1>7 DEF NewPayloadType, VideoError, RtpSession
    <2> QED BY <1>1, <1>7, <2>1 DEF NewPayloadType, VideoError
  <1>8. ASSUME NEW t \in Session, LookupFinished(t) \/ Incoming(t) PROVE FALSE
    BY <1>1, <1>2, <1>8 DEF LookupFinished, Incoming, NewConnection
  <1> QED BY <1>4, <1>5, <1>6, <1>7, <1>8
          DEF Next, vars, CallStart, StopButton, LookupFailed, Hangup, DialogRun, Respond, Dismiss

\* The microphone is not opened to a caller before the user has said yes.
THEOREM HeldUntilYes == Spec => HeldUntilAnswered
  <1>1. IInv /\ [Next]_vars =>
            [\A s \in Session :
                sessions[s].on_hold /\ ~sessions'[s].on_hold =>
                    \/ session = s /\ dialogs # <<>> /\ Last(dialogs).response = "yes"
                    \/ \E t \in Session \ Live : AcceptCb(t)]_vars
    BY LeavesHold
  <1> QED BY <1>1, Invariant, PTL DEF Spec, HeldUntilAnswered

-----------------------------------------------------------------------------
\* What a step leaves of a session: it is not unborn again, nor on hold again.
Lasts(s) == sessions[s].phase # "unborn" =>
    sessions'[s].phase # "unborn" /\ (sessions'[s].on_hold => sessions[s].on_hold)

\* And it has heard nothing new, and does not start to send media.
Unmoved(s) ==
    /\ Lasts(s)
    /\ sessions'[s].linked => sessions[s].linked
    /\ sessions'[s].tx_pipeline = "PLAYING" => sessions[s].tx_pipeline = "PLAYING"

\* The steps that accept no session and hear nothing.
Quiet ==
    \/ CallStart \/ StopButton \/ LookupFailed \/ DialogRun \/ Dismiss
    \/ \E response \in {"yes", "no"} : Respond(response)
    \/ \E s \in Session : LookupFinished(s) \/ Incoming(s) \/ Hangup(s) \/ VideoError(s)
    \/ UNCHANGED vars

\* Every step is quiet, or is one of the three that touch hold or media.
LEMMA QuietOrNot ==
    [Next]_vars <=> \/ Quiet \/ DialogReturn
                    \/ \E s \in Session : NewPayloadType(s) \/ AcceptCb(s)
  BY DEF Next, Quiet

\* The end of a call leaves the sessions it does not free as they are,
LEMMA CallEnded == ASSUME IInv, EndCall, NEW s \in Session PROVE Unmoved(s)
  <1>1. sessions[s] \in RtpSession /\ sessions'[s] \in {sessions[s], Destroy(sessions[s])}
    BY DEF IInv, TypeOK, EndCall
  <1> QED BY <1>1, DestroyedSession DEF Unmoved, Lasts

\* and so does every quiet step.
LEMMA QuietStep == ASSUME IInv, Quiet, NEW s \in Session PROVE Unmoved(s)
  <1> USE DEF Unmoved, Lasts
  <1>1. sessions \in [Session -> RtpSession] /\ sessions[s] \in RtpSession
    BY DEF IInv, TypeOK
  <1>2. CASE sessions'[s] = sessions[s]
    BY <1>2
  <1>3. ASSUME NEW on_hold \in BOOLEAN, sessions[s].phase = "unborn",
               sessions' = [sessions EXCEPT ![s] = Launch(on_hold)]
        PROVE  Unmoved(s)
    BY <1>1, <1>3, LaunchedSession
  <1>4. ASSUME NEW t \in Session, LookupFinished(t) \/ Incoming(t) PROVE Unmoved(s)
    BY <1>1, <1>2, <1>3, <1>4 DEF LookupFinished, Incoming, NewConnection
  <1>5. CASE CallStop
    BY <1>2, <1>5, CallEnded DEF CallStop
  <1>6. ASSUME NEW t \in Session, VideoError(t) PROVE Unmoved(s)
    <2>1. CASE t = s
      <3>1. /\ sessions'[s].phase = sessions[s].phase /\ sessions'[s].on_hold = sessions[s].on_hold
            /\ sessions'[s].tx_pipeline = "READY" /\ sessions'[s].linked = sessions[s].linked
        BY <1>1, <1>6, <2>1 DEF VideoError, RtpSession
      <3> QED BY <3>1
    <2>2. CASE t # s
      BY <1>1, <1>2, <1>6, <2>2 DEF VideoError
    <2> QED BY <2>1, <2>2
  <1> QED BY <1>2, <1>4, <1>5, <1>6
          DEF Quiet, vars, CallStart, StopButton, LookupFailed, Hangup, DialogRun, Respond, Dismiss

\* A session that is accepted stays off hold and keeps what it has heard.
LEMMA AcceptedLasts ==
    ASSUME IInv, NEW s \in Session, sessions'[s] = Accept(sessions[s])
    PROVE  Lasts(s) /\ sessions'[s].linked = sessions[s].linked
  <1> DEFINE x == sessions[s]
  <1>1. x \in RtpSession
    BY DEF IInv, TypeOK
  <1>2. /\ Accept(x).phase = x.phase /\ Accept(x).linked = x.linked
        /\ Accept(x).on_hold = FALSE
    <2> HIDE DEF x
    <2> QED BY <1>1, AcceptedSession
  <1> QED BY <1>2 DEF Lasts

\* A dialog that returns accepts a session, or ends the call.
LEMMA AnswerStep ==
    ASSUME IInv, DialogReturn, NEW s \in Session
    PROVE  Lasts(s) /\ (sessions'[s].linked => sessions[s].linked)
  <1>1. CASE EndCall
    BY <1>1, CallEnded DEF Unmoved
  <1>2. CASE sessions' = IF session \in Live THEN [sessions EXCEPT ![session] = Accept(@)]
                                             ELSE sessions
    <2>1. sessions[s] \in RtpSession /\ sessions'[s] \in {sessions[s], Accept(sessions[s])}
      BY <1>2 DEF IInv, TypeOK, Live
    <2>2. CASE sessions'[s] = sessions[s]
      BY <2>2 DEF Lasts
    <2> QED BY <2>1, <2>2, AcceptedLasts
  <1> QED BY <1>1, <1>2 DEF DialogReturn

\* A session that accept_cb makes send media was linked, or another is gone.
LEMMA AcceptStep ==
    ASSUME IInv, NEW t \in Session, AcceptCb(t), NEW s \in Session
    PROVE  /\ Lasts(s) /\ (sessions'[s].linked => sessions[s].linked)
           /\ sessions'[s].tx_pipeline = "PLAYING" /\ sessions[s].tx_pipeline # "PLAYING" =>
                 sessions[s].linked \/ t \notin Live
  <1>1. sessions \in [Session -> RtpSession] /\ Live \subseteq Session
    BY DEF IInv, TypeOK, Live
  <1>2. sessions[s] \in RtpSession /\ sessions'[s] \in {sessions[s], Accept(sessions[s])}
    BY <1>1 DEF AcceptCb
  <1>3. t \in Live /\ sessions'[s] # sessions[s] => sessions[s].linked
    <2> SUFFICES ASSUME t \in Live PROVE sessions'[s] # sessions[s] => sessions[s].linked
      OBVIOUS
    <2>1. /\ idle \in Seq(Callback) /\ idle # <<>> /\ Head(idle) = [cb |-> "accept_cb", arg |-> t]
      BY DEF IInv, TypeOK, AcceptCb
    <2>2. 1 \in DOMAIN idle /\ idle[1] = [cb |-> "accept_cb", arg |-> t]
      BY <2>1, EmptySeq, LenProperties
    <2>3. idle[1].cb = "accept_cb" /\ idle[1].arg = t
      BY <2>2
    <2>4. sessions[t].linked
      BY <2>2, <2>3 DEF IInv, HeldIsDeaf
    <2>5. t # s => sessions'[s] = sessions[s]
      BY <1>1 DEF AcceptCb
    <2> QED BY <2>4, <2>5
  <1>4. CASE sessions'[s] = sessions[s]
    BY <1>4 DEF Lasts
  <1> QED BY <1>2, <1>3, <1>4, AcceptedLasts

\* What new_payload_type_cb makes of a session.
LEMMA SessionHeard ==
    ASSUME IInv, NEW t \in Session, NewPayloadType(t), NEW s \in Session
    PROVE  /\ Lasts(s)
           /\ sessions'[s].tx_pipeline = sessions[s].tx_pipeline
           /\ sessions'[s].linked => sessions[s].linked \/ s = t
  BY DEF IInv, TypeOK, NewPayloadType, RtpSession, Lasts

\* A session that is born by a call in either direction.
LEMMA SessionLaunched ==
    ASSUME IInv, NEW s \in Session, LookupFinished(s) \/ Incoming(s)
    PROVE  sessions[s].phase = "unborn" /\ sessions'[s].phase = "live"
  BY LaunchedSession DEF IInv, TypeOK, LookupFinished, Incoming, NewConnection
=============================================================================
