----------------------------- MODULE StatusPage -----------------------------
(***************************************************************************)
(* The status page (pages/status.tsx): one poll when it is mounted and one *)
(* at every tick of its timer, whether or not earlier polls were answered, *)
(* so that answers arrive in any order.  The server is a value that        *)
(* changes until it is settled; before that it may also be out of reach.   *)
(***************************************************************************)
EXTENDS Naturals, FiniteSets

CONSTANTS
  Values,     \* what the server may answer
  NoValue,    \* null: no status yet
  Polls       \* bound: polls on their way at a time

ASSUME StatusAssumption == NoValue \notin Values

VARIABLES
  server,     \* the status the server would answer with now
  settled,    \* it changes no more and answers
  onStatus,   \* the page is shown
  status,     \* the last answer applied
  loading, error,
  answer      \* per poll: "free", "sent", "failed", "denied" or a value

statusVars == <<server, settled, onStatus, status, loading, error, answer>>

StatusInit ==
  /\ server \in Values /\ settled = FALSE
  /\ onStatus = TRUE
  /\ status = NoValue /\ loading = TRUE /\ error = FALSE
  /\ answer \in {[p \in Polls |-> IF p = first THEN "sent" ELSE "free"] : first \in Polls}

\* What is on the screen: a spinner, an error with a retry button, or the cards.
\* With a status at hand, errors of later polls are not shown.
View ==
  IF status # NoValue THEN status
  ELSE IF loading THEN "spinner"
  ELSE IF error THEN "error"
  ELSE "blank"

-----------------------------------------------------------------------------
\* The server: engine state and rates change; at some time they may settle.
ServerChanges ==
  /\ ~settled
  /\ server' \in Values \ {server}
  /\ UNCHANGED <<settled, onStatus, status, loading, error, answer>>

Settle ==
  /\ ~settled /\ settled' = TRUE
  /\ UNCHANGED <<server, onStatus, status, loading, error, answer>>

ServeStatus(p) ==
  /\ answer[p] = "sent"
  /\ \/ answer' = [answer EXCEPT ![p] = server]
     \/ ~settled /\ answer' = [answer EXCEPT ![p] = "failed"]
     \/ ~settled /\ answer' = [answer EXCEPT ![p] = "denied"]
  /\ UNCHANGED <<server, settled, onStatus, status, loading, error>>

\* Mutation: no poll after one that failed.
PollUnlessFailed(p) ==
  /\ onStatus /\ answer[p] = "free" /\ ~error
  /\ answer' = [answer EXCEPT ![p] = "sent"]
  /\ UNCHANGED <<server, settled, onStatus, status, loading, error>>

\* The timer, or the retry button of the error view.
Poll(p) ==
  /\ onStatus /\ answer[p] = "free"
  /\ answer' = [answer EXCEPT ![p] = "sent"]
  /\ UNCHANGED <<server, settled, onStatus, status, loading, error>>

\* The answer.  A page that is gone ignores it, but for a refusal: that leads to
\* the login page from wherever the user is.
Answered(p) ==
  /\ answer[p] \notin {"free", "sent"}
  /\ answer' = [answer EXCEPT ![p] = "free"]
  /\ \/ /\ answer[p] \in Values /\ onStatus
        /\ status' = answer[p] /\ error' = FALSE /\ loading' = FALSE
        /\ UNCHANGED onStatus
     \/ /\ answer[p] = "failed" /\ onStatus
        /\ error' = TRUE /\ loading' = FALSE
        /\ UNCHANGED <<onStatus, status>>
     \/ /\ answer[p] = "denied" /\ onStatus
        /\ onStatus' = FALSE /\ loading' = FALSE
        /\ UNCHANGED <<status, error>>
     \/ /\ ~onStatus
        /\ UNCHANGED <<onStatus, status, loading, error>>
  /\ UNCHANGED <<server, settled>>

\* Another page; the clean-up stops the timer.
LeaveStatus ==
  /\ onStatus /\ onStatus' = FALSE
  /\ UNCHANGED <<server, settled, status, loading, error, answer>>

-----------------------------------------------------------------------------
StatusNext ==
  \/ ServerChanges \/ Settle \/ LeaveStatus
  \/ \E p \in Polls : ServeStatus(p) \/ Poll(p) \/ Answered(p)

StatusSpec == StatusInit /\ [][StatusNext]_statusVars

\* The timer fires, and every call is answered or fails.
StatusFairness ==
  /\ WF_statusVars(\E p \in Polls : Poll(p))
  /\ \A p \in Polls : WF_statusVars(ServeStatus(p)) /\ WF_statusVars(Answered(p))

-----------------------------------------------------------------------------
(* Properties *)

StatusTypeOK ==
  /\ server \in Values /\ settled \in BOOLEAN /\ onStatus \in BOOLEAN
  /\ status \in Values \cup {NoValue}
  /\ loading \in BOOLEAN /\ error \in BOOLEAN
  /\ answer \in [Polls -> Values \cup {"free", "sent", "failed", "denied"}]

\* Once the server answers and stays as it is, the page comes to show that and
\* nothing older again, whatever was on its way and in whichever order it comes
\* back, from the spinner and from the error view alike (status.tsx:55-82, 90-93).
StatusCatchesUp == settled ~> [](onStatus => View = server)
=============================================================================
