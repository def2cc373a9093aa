-------------------------------- MODULE Call --------------------------------
(***************************************************************************)
(* The calls of one user: the buttons, the dialog and the idle callbacks   *)
(* of src/src/application.c and the life of the sessions they hold         *)
(* (src/src/rtp-session.c).                                                *)
(*                                                                         *)
(* All of it runs in one GLib main loop, but for the streaming thread that *)
(* queues accept_cb.  gtk_dialog_run runs a main loop of its own inside an *)
(* idle callback, so that callbacks nest, and only the innermost can       *)
(* return.  An answered dialog ends its loop after the callbacks of the    *)
(* same priority; idle callbacks have a lower one and wait.                *)
(*                                                                         *)
(* dialogs is the stack of dialogs on the screen.  They are modal: only    *)
(* the newest takes input.  dialog_run destroys what app->call_dialog      *)
(* points to, which is nothing if another dialog has been run inside the   *)
(* one that returns: it then stays on the screen.                          *)
(***************************************************************************)
EXTENDS Naturals, Sequences, SequencesExt

CONSTANTS Session,       \* session objects
          NoSession,     \* the null pointer
          EnableVideo,   \* video-enable of the configuration
          MaxLookups     \* bound: lookups a user has waiting

ASSUME CallAssumption ==
    /\ NoSession \notin Session
    /\ EnableVideo \in BOOLEAN /\ MaxLookups \in Nat \ {0}

VARIABLES session,      \* app->session
          sessions,     \* every session object
          dialogs,      \* dialogs on the screen, the newest last
          call_dialog,  \* app->call_dialog is set, to the newest dialog
          idle,         \* queued idle callbacks
          lookups,      \* lookups the client has not answered
          button_start, button_stop,  \* the buttons are sensitive
          listen,       \* the client takes incoming connections
          overlapped    \* history: a peer has called while a call was on

widgets == <<button_start, button_stop, listen>>
vars == <<session, sessions, dialogs, call_dialog, idle, lookups, widgets, overlapped>>

\* phase is the life of the object; enable and linked belong to its receiver:
\* rtp_src drops media unless enabled, new-payload-type has fired for audio.
RtpSession == [phase : {"unborn", "live", "freed"}, on_hold : BOOLEAN, enable : BOOLEAN,
               linked : BOOLEAN, io_timeout_source : BOOLEAN, enable_video : BOOLEAN,
               tx_pipeline : {"NULL", "READY", "PLAYING"}]

Unborn == [phase |-> "unborn", on_hold |-> FALSE, enable |-> TRUE, linked |-> FALSE,
           io_timeout_source |-> FALSE, enable_video |-> FALSE, tx_pipeline |-> "NULL"]

\* shown is the session whose peer the text names; covered, a history, that
\* another dialog has been shown over this one.
Dialog == [shown : Session, covered : BOOLEAN,
           response : {"none", "yes", "no", "returned"}]

Callback == [cb : {"dialog_run"}] \cup [cb : {"accept_cb"}, arg : Session]

Live == {s \in Session : sessions[s].phase = "live"}

\* The innermost main loop is not about to end.
Looping == dialogs # <<>> => Last(dialogs).response \in {"none", "returned"}

-----------------------------------------------------------------------------
\* Mutant: the receiver of a call on hold stays enabled.
LaunchEnabled(on_hold) ==
    [phase |-> "live", on_hold |-> on_hold, enable |-> TRUE, linked |-> FALSE,
     io_timeout_source |-> TRUE, enable_video |-> EnableVideo,
     tx_pipeline |-> "READY"]

\* Mutant: a session on hold transmits already.
LaunchPlaying(on_hold) ==
    [phase |-> "live", on_hold |-> on_hold, enable |-> ~on_hold, linked |-> FALSE,
     io_timeout_source |-> TRUE, enable_video |-> EnableVideo,
     tx_pipeline |-> IF on_hold THEN "PLAYING" ELSE "READY"]

\* rtp_session_new and rtp_session_launch.
Launch(on_hold) ==
    [phase |-> "live", on_hold |-> on_hold, enable |-> ~on_hold, linked |-> FALSE,
     io_timeout_source |-> TRUE, enable_video |-> EnableVideo,
     tx_pipeline |-> "READY"]

\* rtp_session_accept, of a session that lives.
Accept(s) ==
    [s EXCEPT !.on_hold = FALSE,
              !.enable = IF s.on_hold THEN TRUE ELSE @,
              !.io_timeout_source = FALSE,
              !.tx_pipeline = IF s.io_timeout_source THEN "PLAYING" ELSE @]

\* rtp_session_destroy drops the only reference; queued callbacks hold none.
Destroy(s) == [s EXCEPT !.phase = "freed", !.io_timeout_source = FALSE, !.tx_pipeline = "NULL"]

\* Mutant: the client is left deaf.
EndCallDeaf ==
    /\ sessions' = IF session \in Session THEN [sessions EXCEPT ![session] = Destroy(@)]
                                          ELSE sessions
    /\ session' = NoSession
    /\ button_start' = TRUE /\ button_stop' = FALSE
    /\ UNCHANGED listen

\* call_stop without a dialog.
EndCall ==
    /\ sessions' = IF session \in Session THEN [sessions EXCEPT ![session] = Destroy(@)]
                                          ELSE sessions
    /\ session' = NoSession
    /\ button_start' = TRUE /\ button_stop' = FALSE
    /\ listen' = TRUE

\* Mutant: a hangup leaves the dialog to the user.
CallStopWaiting ==
    /\ IF call_dialog THEN UNCHANGED <<session, sessions, widgets>> ELSE EndCall
    /\ UNCHANGED dialogs

\* call_stop: cancel the dialog if there is one, and leave the rest to it.
CallStop ==
    \/ /\ call_dialog
       /\ dialogs' = [dialogs EXCEPT ![Len(dialogs)].response = "no"]
       /\ UNCHANGED <<session, sessions, widgets>>
    \/ /\ ~call_dialog
       /\ EndCall
       /\ UNCHANGED dialogs

-----------------------------------------------------------------------------
Init == /\ session = NoSession
        /\ sessions = [s \in Session |-> Unborn]
        /\ dialogs = <<>> /\ call_dialog = FALSE
        /\ idle = <<>>
        /\ lookups = 0
        /\ button_start = TRUE /\ button_stop = FALSE
        /\ listen = TRUE
        /\ overlapped = FALSE

\* Mutant: the client goes on listening.
CallStartListening ==
    /\ dialogs = <<>> /\ button_start
    /\ lookups < MaxLookups /\ lookups' = lookups + 1
    /\ button_start' = FALSE
    /\ UNCHANGED <<session, sessions, dialogs, call_dialog, idle, button_stop, listen, overlapped>>

\* call_start, by the button or by the entry; dialogs are modal.
CallStart ==
    /\ dialogs = <<>> /\ button_start
    /\ lookups < MaxLookups /\ lookups' = lookups + 1
    /\ button_start' = FALSE /\ listen' = FALSE
    /\ UNCHANGED <<session, sessions, dialogs, call_dialog, idle, button_stop, overlapped>>

\* call_stop, by the button or by the entry.
StopButton ==
    /\ dialogs = <<>> /\ button_stop
    /\ CallStop
    /\ UNCHANGED <<call_dialog, idle, lookups, overlapped>>

\* lookup_finished_cb, with a connection and with an error.
LookupFinished(s) ==
    /\ lookups > 0 /\ lookups' = lookups - 1
    /\ sessions[s].phase = "unborn"
    /\ session' = s
    /\ sessions' = [sessions EXCEPT ![s] = Launch(FALSE)]
    /\ button_stop' = TRUE
    /\ UNCHANGED <<dialogs, call_dialog, idle, button_start, listen, overlapped>>

LookupFailed ==
    /\ lookups > 0 /\ lookups' = lookups - 1
    /\ button_start' = TRUE /\ listen' = TRUE
    /\ UNCHANGED <<session, sessions, dialogs, call_dialog, idle, button_stop, overlapped>>

\* Mutant: one announcement for all that is queued.
NewConnectionQueued(s) ==
    /\ sessions[s].phase = "unborn"
    /\ session' = s
    /\ sessions' = [sessions EXCEPT ![s] = Launch(TRUE)]
    /\ idle' = IF idle = <<>> THEN Append(idle, [cb |-> "dialog_run"]) ELSE idle
    /\ button_start' = FALSE /\ button_stop' = TRUE
    /\ overlapped' = (overlapped \/ session # NoSession)
    /\ UNCHANGED <<dialogs, call_dialog, lookups, listen>>

\* new_connection, the handler of the client's signal.
NewConnection(s) ==
    /\ sessions[s].phase = "unborn"
    /\ session' = s
    /\ sessions' = [sessions EXCEPT ![s] = Launch(TRUE)]
    /\ idle' = Append(idle, [cb |-> "dialog_run"])
    /\ button_start' = FALSE /\ button_stop' = TRUE
    /\ overlapped' = (overlapped \/ session # NoSession)
    /\ UNCHANGED <<dialogs, call_dialog, lookups, listen>>

\* The signal is emitted while the client listens.
Incoming(s) == listen /\ NewConnection(s)

\* new_payload_type_cb, on the streaming thread: the first audio has come.
NewPayloadType(s) ==
    /\ s \in Live /\ sessions[s].enable /\ ~sessions[s].linked
    /\ sessions' = [sessions EXCEPT ![s].linked = TRUE]
    /\ idle' = Append(idle, [cb |-> "accept_cb", arg |-> s])
    /\ UNCHANGED <<session, dialogs, call_dialog, lookups, widgets, overlapped>>

\* bus_watch_cb: an error of a pipeline, the silence of the peer among them,
\* emits hangup, to which call_stop is connected.
Hangup(s) ==
    /\ s \in Live
    /\ CallStop
    /\ UNCHANGED <<call_dialog, idle, lookups, overlapped>>

\* Mutant: the video branch is dropped whenever it fails.
VideoErrorLate(s) ==
    /\ s \in Live /\ sessions[s].enable_video
    /\ sessions' = [sessions EXCEPT ![s].enable_video = FALSE, ![s].tx_pipeline = "READY"]
    /\ UNCHANGED <<session, dialogs, call_dialog, idle, lookups, widgets, overlapped>>

\* But an error of the video branch before the call is accepted drops the
\* branch, for which the pipeline has to be stopped.
VideoError(s) ==
    /\ s \in Live /\ sessions[s].io_timeout_source /\ sessions[s].enable_video
    /\ sessions' = [sessions EXCEPT ![s].enable_video = FALSE, ![s].tx_pipeline = "READY"]
    /\ UNCHANGED <<session, dialogs, call_dialog, idle, lookups, widgets, overlapped>>

\* accept_cb.  The argument of a freed session is whatever its memory holds:
\* rtp_session_accept refuses it, or takes a session that has moved in.
AcceptCb(s) ==
    /\ Looping /\ idle # <<>> /\ Head(idle) = [cb |-> "accept_cb", arg |-> s]
    /\ idle' = Tail(idle)
    /\ \/ s \in Live /\ sessions' = [sessions EXCEPT ![s] = Accept(@)]
       \/ s \notin Live /\ UNCHANGED sessions
       \/ /\ s \notin Live
          /\ \E t \in Live : sessions' = [sessions EXCEPT ![t] = Accept(@)]
    /\ UNCHANGED <<session, dialogs, call_dialog, lookups, widgets, overlapped>>

\* dialog_run up to gtk_dialog_run.
DialogRun ==
    /\ Looping /\ idle # <<>> /\ Head(idle) = [cb |-> "dialog_run"]
    /\ idle' = Tail(idle)
    /\ \/ session = NoSession /\ UNCHANGED <<dialogs, call_dialog>>
       \/ /\ session # NoSession
          /\ dialogs' = Append([d \in DOMAIN dialogs |-> [dialogs[d] EXCEPT !.covered = TRUE]],
                               [shown |-> session, covered |-> FALSE, response |-> "none"])
          /\ call_dialog' = TRUE
    /\ UNCHANGED <<session, sessions, lookups, widgets, overlapped>>

\* The user answers the newest dialog, which has the grab, perhaps after a
\* hangup that the same iteration of its loop has dispatched: the last counts.
\* The buttons of a dialog that has returned do nothing.
Respond(response) ==
    /\ dialogs # <<>> /\ Last(dialogs).response # "returned"
    /\ dialogs' = [dialogs EXCEPT ![Len(dialogs)].response = response]
    /\ UNCHANGED <<session, sessions, call_dialog, idle, lookups, widgets, overlapped>>

\* The user closes a dialog that has returned: its delete-event, which nothing
\* in the application handles any more, destroys it.
Dismiss ==
    /\ dialogs # <<>> /\ Last(dialogs).response = "returned"
    /\ dialogs' = Front(dialogs)
    /\ UNCHANGED <<session, sessions, call_dialog, idle, lookups, widgets, overlapped>>

\* gtk_widget_destroy(app->call_dialog).
DestroyDialog ==
    dialogs' = IF call_dialog THEN Front(dialogs)
               ELSE [dialogs EXCEPT ![Len(dialogs)].response = "returned"]

\* Mutant: the pointer to the dialog is left behind.
DialogReturnDangling ==
    /\ ~Looping
    /\ DestroyDialog
    /\ \/ /\ Last(dialogs).response = "yes"
          /\ sessions' = IF session \in Live THEN [sessions EXCEPT ![session] = Accept(@)]
                                             ELSE sessions
          /\ UNCHANGED <<session, widgets>>
       \/ Last(dialogs).response = "no" /\ EndCall
    /\ UNCHANGED <<idle, lookups, call_dialog, overlapped>>

\* dialog_run from the return of gtk_dialog_run on.  A null session is refused
\* by rtp_session_accept; call_stop finds no dialog any more.
DialogReturn ==
    /\ ~Looping
    /\ DestroyDialog /\ call_dialog' = FALSE
    /\ \/ /\ Last(dialogs).response = "yes"
          /\ sessions' = IF session \in Live THEN [sessions EXCEPT ![session] = Accept(@)]
                                             ELSE sessions
          /\ UNCHANGED <<session, widgets>>
       \/ Last(dialogs).response = "no" /\ EndCall
    /\ UNCHANGED <<idle, lookups, overlapped>>

Next == \/ CallStart \/ StopButton \/ LookupFailed \/ DialogRun \/ DialogReturn \/ Dismiss
        \/ \E response \in {"yes", "no"} : Respond(response)
        \/ \E s \in Session : \/ LookupFinished(s) \/ Incoming(s) \/ NewPayloadType(s)
                              \/ Hangup(s) \/ VideoError(s) \/ AcceptCb(s)

Spec == Init /\ [][Next]_vars

\* The main loop runs what is queued; it owes nothing to users and peers.
Fairness == WF_vars(DialogRun \/ \E s \in Session : AcceptCb(s)) /\ WF_vars(DialogReturn)

LiveSpec == Spec /\ Fairness

-----------------------------------------------------------------------------
\* Only the newest dialog is answered or uncovered, and none returns uncovered:
\* it is destroyed.
Stacked(ds) ==
    \A d \in DOMAIN ds :
       /\ ds[d].response \in {"yes", "no"} \/ ~ds[d].covered => d = Len(ds)
       /\ ds[d].response = "returned" => ds[d].covered

TypeOK ==
    /\ session \in Live \cup {NoSession}
    /\ sessions \in [Session -> RtpSession]
    /\ dialogs \in Seq(Dialog) /\ Stacked(dialogs)
    /\ call_dialog = (dialogs # <<>> /\ ~Last(dialogs).covered)
    /\ idle \in Seq(Callback)
    /\ lookups \in 0 .. MaxLookups
    /\ widgets \in BOOLEAN \X BOOLEAN \X BOOLEAN /\ overlapped \in BOOLEAN

(***************************************************************************)
(* A user who is in no call and waits for none can be called and can call: *)
(* none of the ways a call ends leaves the client deaf, a button dead or   *)
(* the dialog of a call that is over in the way.  (But one over which      *)
(* another dialog has been shown may be: call_stop cannot cancel it, and   *)
(* when it returns it stays until the user closes it.)                     *)
(***************************************************************************)
Reachable ==
    session = NoSession /\ lookups = 0 =>
        /\ listen /\ button_start /\ ~button_stop
        /\ \A d \in DOMAIN dialogs : dialogs[d].covered

(***************************************************************************)
(* The microphone is not opened to a caller before the user has said yes:  *)
(* the session of an incoming call leaves hold only when a dialog that was *)
(* answered with yes returns, whatever audio the peer sends meanwhile; or  *)
(* by the stale accept_cb of a session that is gone, which is undefined.   *)
(***************************************************************************)
HeldUntilAnswered ==
    [][\A s \in Session :
          sessions[s].on_hold /\ ~sessions'[s].on_hold =>
              \/ session = s /\ dialogs # <<>> /\ Last(dialogs).response = "yes"
              \/ \E t \in Session \ Live : AcceptCb(t)]_vars

(***************************************************************************)
(* A live session always sends something, keepalives or media: the peer    *)
(* takes one second of silence for the end of the call.                    *)
(***************************************************************************)
KeptAlive ==
    \A s \in Live : sessions[s].io_timeout_source \/ sessions[s].tx_pipeline = "PLAYING"

(***************************************************************************)
(* As long as nobody calls during a call, there is one call at a time, in  *)
(* either direction: every live session is the one the application knows,  *)
(* so that it can be ended.                                                *)
(***************************************************************************)
OneCall == ~overlapped => Live \subseteq {session}

(***************************************************************************)
(* Every incoming call is announced by a dialog that names its caller, or  *)
(* is over, as long as nobody calls during it.                             *)
(***************************************************************************)
Announced ==
    \A s \in Session :
        sessions[s].on_hold /\ s \in Live
            ~> \/ s \notin Live \/ overlapped
               \/ \E d \in DOMAIN dialogs : dialogs[d].shown = s

(***************************************************************************)
(* "Answer an incoming call from <b>%s</b> ?": who says yes answers the    *)
(* call of the peer the dialog names.                                      *)
(***************************************************************************)
AnswersShown ==
    [][~Looping /\ Last(dialogs).response = "yes" /\ DialogReturn =>
          Last(dialogs).shown = session]_vars

(***************************************************************************)
(* rtp_session_accept is given a session: g_return_if_fail asserts it.     *)
(***************************************************************************)
AcceptsSession == [][\A s \in Session : AcceptCb(s) => s \in Live]_vars
=============================================================================
