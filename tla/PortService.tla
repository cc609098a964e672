----------------------------- MODULE PortService -----------------------------
(***************************************************************************)
(* What one RS-485 port promises the tasks that share it, with no wire, no *)
(* frame and no byte in sight: exchanges are served one at a time, each    *)
(* ends by handing its caller a result, and a result that is an answer is  *)
(* the answer to the caller's own call -- until some exchange on the port  *)
(* is abandoned with its reply still owed, after which the port promises   *)
(* nothing about whose answer is handed out.  StdBusPort implements it.    *)
(***************************************************************************)

CONSTANTS Task,     \* the tasks of the event loop that use the port
          Call,     \* what a task may ask
          Result,   \* how a call ends: [end, of], an answer when end = "ok"
          Nobody    \* the port is free

VARIABLES serving,    \* the task whose exchange is on the wire, or Nobody
          asked,      \* [Task -> Call]: the call each task made last
          answer,     \* [Task -> Result]: how the last call of each task ended
          abandoned   \* has any exchange been given up with its reply owed?

vars == <<serving, asked, answer, abandoned>>

Init == /\ serving = Nobody
        /\ asked \in [Task -> Call]
        /\ answer \in [Task -> {r \in Result : r.end # "ok"}]
        /\ abandoned = FALSE

\* The exchange of task t goes out: the port serves nobody else meanwhile.
Begin(t) ==
    /\ serving = Nobody
    /\ serving' = t
    /\ UNCHANGED <<asked, answer, abandoned>>

\* A task turns to a call, and may see it fail before anything is sent.
Ask(t) ==
    /\ serving # t
    /\ \E c \in Call : asked' = [asked EXCEPT ![t] = c]
    /\ \/ UNCHANGED answer
       \/ \E r \in Result : r.end # "ok" /\ answer' = [answer EXCEPT ![t] = r]
    /\ UNCHANGED <<serving, abandoned>>

\* The exchange ends with a result; only an untainted port vouches for it.
End(t) ==
    /\ serving = t
    /\ serving' = Nobody
    /\ \E r \in Result :
          /\ ~abandoned /\ r.end = "ok" => r.of = asked[t]
          /\ answer' = [answer EXCEPT ![t] = r]
    /\ UNCHANGED <<asked, abandoned>>

\* The exchange is given up: its reply may turn up during a later one.
Abandon(t) ==
    /\ serving = t
    /\ serving' = Nobody
    /\ abandoned' = TRUE
    /\ \E r \in Result : r.end # "ok" /\ answer' = [answer EXCEPT ![t] = r]
    /\ UNCHANGED asked

Next == \E t \in Task : Begin(t) \/ Ask(t) \/ End(t) \/ Abandon(t)

Spec == Init /\ [][Next]_vars
=============================================================================
