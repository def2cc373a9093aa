--------------------------------- MODULE Talk ---------------------------------
(***************************************************************************)
(* Two users who call each other: two instances of Call, and between them  *)
(* the handshake of the clients and the media of the sessions.  Of the     *)
(* handshake there is left what one end learns of the other: requests are  *)
(* served by a client that listens (src/src/dht-client.c), the caller has  *)
(* its session first, and the confirmation that gives the callee one may   *)
(* be late or lost.  Of the media, that the first audio of a peer accepts  *)
(* a session, and one second of silence ends it (src/src/rtp-session.c).   *)
(***************************************************************************)
EXTENDS Naturals, FiniteSets

CONSTANTS Session, NoSession, MaxLookups   \* as in Call, for each user

ASSUME TalkAssumption == NoSession \notin Session /\ MaxLookups \in Nat \ {0}

VARIABLES a_session, a_sessions, a_dialogs, a_call_dialog, a_idle, a_lookups,
          a_button_start, a_button_stop, a_listen, a_overlapped,
          b_session, b_sessions, b_dialogs, b_call_dialog, b_idle, b_lookups,
          b_button_start, b_button_stop, b_listen, b_overlapped,
          requested,    \* requests of a user that the peer has not served
          offered,      \* responses of the peer that the user has not got
          confirming,   \* dialled ends whose confirmation is on its way
          dialled,      \* ends that are the caller's
          joined,       \* calls that have both ends
          spoken,       \* ends that have ever sent media
          silenced      \* ends whose receiver has stopped with a timeout

A == INSTANCE Call WITH
        EnableVideo <- FALSE, session <- a_session, sessions <- a_sessions,
        dialogs <- a_dialogs,
        call_dialog <- a_call_dialog, idle <- a_idle, lookups <- a_lookups,
        button_start <- a_button_start, button_stop <- a_button_stop,
        listen <- a_listen, overlapped <- a_overlapped

B == INSTANCE Call WITH
        EnableVideo <- FALSE, session <- b_session, sessions <- b_sessions,
        dialogs <- b_dialogs,
        call_dialog <- b_call_dialog, idle <- b_idle, lookups <- b_lookups,
        button_start <- b_button_start, button_stop <- b_button_stop,
        listen <- b_listen, overlapped <- b_overlapped

a_vars == <<a_session, a_sessions, a_dialogs, a_call_dialog, a_idle, a_lookups,
            a_button_start, a_button_stop, a_listen, a_overlapped>>
b_vars == <<b_session, b_sessions, b_dialogs, b_call_dialog, b_idle, b_lookups,
            b_button_start, b_button_stop, b_listen, b_overlapped>>
between == <<requested, offered, confirming, dialled, joined, silenced>>
vars == <<a_vars, b_vars, between, spoken>>

User == {"a", "b"}
Peer(u) == CHOOSE v \in User : v # u
End == User \X Session

Listens(u) == IF u = "a" THEN a_listen ELSE b_listen
Current(u) == IF u = "a" THEN a_session ELSE b_session
RtpSession(end) == IF end[1] = "a" THEN a_sessions[end[2]] ELSE b_sessions[end[2]]

IsLive(end) == RtpSession(end).phase = "live"
Speaks(end) == RtpSession(end).tx_pipeline = "PLAYING"

\* The end at the other side of a call, if it has ever been there.
Others(end) == {e \in End : {end, e} \in joined}

\* A step of one user.
By(u, step_of_a, step_of_b) ==
    /\ \/ u = "a" /\ step_of_a /\ UNCHANGED b_vars
       \/ u = "b" /\ step_of_b /\ UNCHANGED a_vars
    /\ spoken' = spoken \cup {end \in End : Speaks(end)'}

-----------------------------------------------------------------------------
Init == /\ A!Init /\ B!Init
        /\ requested = [u \in User |-> 0] /\ offered = [u \in User |-> 0]
        /\ confirming = {} /\ dialled = {} /\ joined = {} /\ spoken = {} /\ silenced = {}

\* call_start: the lookup finds the peer and a request is sent to it.
Dial(u) ==
    /\ By(u, A!CallStart, B!CallStart)
    /\ requested' = [requested EXCEPT ![u] = @ + 1]
    /\ UNCHANGED <<offered, confirming, dialled, joined, silenced>>

\* The peer gets the request, and its response will be received.
Offer(u) ==
    /\ requested[u] > 0 /\ Listens(Peer(u))
    /\ requested' = [requested EXCEPT ![u] = @ - 1]
    /\ offered' = [offered EXCEPT ![u] = @ + 1]
    /\ UNCHANGED <<a_vars, b_vars, confirming, dialled, joined, spoken, silenced>>

\* The response opens the session of the caller, and is confirmed.
Open(u, s) ==
    /\ offered[u] > 0
    /\ By(u, A!LookupFinished(s), B!LookupFinished(s))
    /\ offered' = [offered EXCEPT ![u] = @ - 1]
    /\ dialled' = dialled \cup {<<u, s>>}
    /\ confirming' = confirming \cup {<<u, s>>}
    /\ UNCHANGED <<requested, joined, silenced>>

\* The lookup, the request or the response fails.
Fail(u) ==
    /\ By(u, A!LookupFailed, B!LookupFailed)
    /\ \/ /\ requested[u] > 0
          /\ requested' = [requested EXCEPT ![u] = @ - 1]
          /\ UNCHANGED offered
       \/ /\ offered[u] > 0
          /\ offered' = [offered EXCEPT ![u] = @ - 1]
          /\ UNCHANGED requested
    /\ UNCHANGED <<confirming, dialled, joined, silenced>>

\* The confirmation gives the callee a session,
Join(u, s, end) ==
    /\ end \in confirming /\ end[1] = Peer(u)
    /\ By(u, A!Incoming(s), B!Incoming(s))
    /\ confirming' = confirming \ {end}
    /\ joined' = joined \cup {{end, <<u, s>>}}
    /\ UNCHANGED <<requested, offered, dialled, silenced>>

\* or is lost, or comes when the callee has its own call, or too late.
Drop(end) ==
    /\ end \in confirming
    /\ confirming' = confirming \ {end}
    /\ UNCHANGED <<a_vars, b_vars, requested, offered, dialled, joined, spoken, silenced>>

\* The first audio of the other end is verified.
Hear(u, s) ==
    /\ Others(<<u, s>>) \cap spoken # {}
    /\ By(u, A!NewPayloadType(s), B!NewPayloadType(s))
    /\ UNCHANGED between

\* Nothing is heard of the other end for a second: rtp_src_create fails once.
Silence(u, s) ==
    /\ <<u, s>> \notin silenced
    /\ \A end \in Others(<<u, s>>) : ~IsLive(end)
    /\ By(u, A!Hangup(s), B!Hangup(s))
    /\ silenced' = silenced \cup {<<u, s>>}
    /\ UNCHANGED <<requested, offered, confirming, dialled, joined>>

\* A pipeline fails for another reason.
Break(u, s) ==
    /\ By(u, A!Hangup(s), B!Hangup(s))
    /\ UNCHANGED between

\* The user stops the call, answers a dialog, or closes one that has returned.
StopButton(u) == By(u, A!StopButton, B!StopButton) /\ UNCHANGED between

Respond(u) == /\ \E response \in {"yes", "no"} : By(u, A!Respond(response), B!Respond(response))
              /\ UNCHANGED between

Dismiss(u) == By(u, A!Dismiss, B!Dismiss) /\ UNCHANGED between

\* The main loop runs what is queued.
DialogRun(u) == By(u, A!DialogRun, B!DialogRun) /\ UNCHANGED between

DialogReturn(u) == By(u, A!DialogReturn, B!DialogReturn) /\ UNCHANGED between

AcceptCb(u, s) == By(u, A!AcceptCb(s), B!AcceptCb(s)) /\ UNCHANGED between

Next == \/ \E u \in User : \/ Dial(u) \/ Offer(u) \/ Fail(u) \/ StopButton(u) \/ Respond(u)
                           \/ DialogRun(u) \/ DialogReturn(u) \/ Dismiss(u)
                           \/ \E s \in Session : \/ Open(u, s) \/ Hear(u, s) \/ AcceptCb(u, s)
                                                 \/ Silence(u, s) \/ Break(u, s)
                                                 \/ \E end \in End : Join(u, s, end)
        \/ \E end \in End : Drop(end)

Spec == Init /\ [][Next]_vars

\* The main loops run, and the timeout of a socket fires.
Fairness ==
    \A u \in User :
        /\ WF_vars(DialogRun(u)) /\ WF_vars(DialogReturn(u))
        /\ \A s \in Session : WF_vars(AcceptCb(u, s)) /\ WF_vars(Silence(u, s))

LiveSpec == Spec /\ Fairness

-----------------------------------------------------------------------------
TypeOK ==
    /\ A!TypeOK /\ B!TypeOK
    /\ requested \in [User -> 0 .. MaxLookups] /\ offered \in [User -> 0 .. MaxLookups]
    /\ confirming \subseteq dialled /\ dialled \subseteq End
    /\ joined \subseteq SUBSET End /\ spoken \subseteq End /\ silenced \subseteq End

(***************************************************************************)
(* The microphone of a caller is not opened before the user at the other   *)
(* end has answered: it waits for the first audio of the callee, who has   *)
(* none to send while the session is on hold.  (Unless the caller says yes *)
(* to a dialog that a call gone by has left in the idle queue, or by the   *)
(* stale accept_cb of a freed session.)                                    *)
(***************************************************************************)
SpeaksAfterAnswer ==
    [][\A end \in dialled' :
          ~Speaks(end) /\ Speaks(end)' =>
              \/ \E e \in Others(end) : ~RtpSession(e).on_hold
              \/ DialogReturn(end[1])
              \/ \E s \in Session : ~IsLive(<<end[1], s>>) /\ AcceptCb(end[1], s)]_vars

(***************************************************************************)
(* Two users never have two calls with each other, however they dial each  *)
(* other at the same time: who has dialled serves no request.  (Until both *)
(* have been called during a call: a session that the application has lost *)
(* makes who dials listen again when it is hung up.)                       *)
(***************************************************************************)
NoCrossedCalls ==
    \A call1, call2 \in joined :
        (\A end \in call1 \cup call2 : IsLive(end)) /\ ~(a_overlapped /\ b_overlapped) =>
            call1 = call2

(***************************************************************************)
(* A call whose other end is gone, or never came, is over: hung up, or     *)
(* accepted by a user who answered when the hangup had come already.       *)
(***************************************************************************)
EndsTogether ==
    \A end \in End :
        Current(end[1]) = end[2] /\ IsLive(end) /\ (\A e \in Others(end) : ~IsLive(e))
            /\ end \notin confirming
        ~> \/ Current(end[1]) # end[2]
           \/ end \in silenced /\ ~RtpSession(end).on_hold
=============================================================================
