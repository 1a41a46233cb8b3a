---------------------------- MODULE MCSseSessions ---------------------------
(***************************************************************************)
(* SseSessions for TLC, in two situations: everything the environment can  *)
(* do to one page, as the cfg has it; and a page that comes back before    *)
(* its drop is noticed, on a connection that keeps up, to a server that    *)
(* answers at once, with more ticks and a longer buffer.                   *)
(***************************************************************************)
EXTENDS SseSessions

CONSTANTS id1, id2

VARIABLE prompt  \* is it the second?

PromptTicks == 4
Prompt == INSTANCE SseSessions WITH
    Cap <- 2, ReplayBuffer <- 2, MaxTicks <- PromptTicks, MaxClicks <- 1, SendWindow <- 6,
    PromptReconnect <- TRUE, FirstFrameArrives <- TRUE, PromptUnwind <- TRUE,
    AuthSuspends <- FALSE, AbortBeforeBody <- FALSE, ViewMayRaise <- FALSE

EitherInit == prompt \in BOOLEAN /\ IF prompt THEN Prompt!Init ELSE Init
EitherNext ==
    /\ UNCHANGED prompt
    /\ \/ prompt /\ Prompt!Next
       \/ ~prompt /\ Next

\* The fairness of SseSessions, in the second situation.
EitherSpec ==
    /\ EitherInit /\ [][EitherNext]_<<prompt, vars>>
    /\ \A k \in Streams : /\ WF_vars(prompt /\ Prompt!Stream(k))
                          /\ WF_vars(prompt /\ Prompt!DropNoticed(k))
                          /\ WF_vars(prompt /\ Prompt!Run(k))
    /\ \A i \in Ids : WF_vars(prompt /\ Prompt!Show(i)) /\ WF_vars(prompt /\ Prompt!EndOfStream(i))

-----------------------------------------------------------------------------
\* The page that comes back in time is not dropped while it reads, and catches up.
PromptIsKept == [][prompt => \A i \in Ids :
    rec[i] # None /\ rec'[i] = None /\ run[rec[i]] # "spawned" => ~Attended(rec[i])]_<<prompt, vars>>
PromptCatchesUp == ~prompt \/ CatchesUp

\* While its page always comes back before the server notices a drop, the
\* session of id1 is mirrored: nothing torn, nothing out of order.
MirrorsTheScene ==
    /\ prompt => Mirror(id1)!Init
    /\ [][prompt => [Mirror(id1)!Next]_(Mirror(id1)!vars)]_<<prompt, vars>>
=============================================================================
