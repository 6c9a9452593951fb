-------------------------- MODULE MCClCommandQueue --------------------------
(***************************************************************************)
(* Instances of ClCommandQueue for TLC.                                    *)
(***************************************************************************)
EXTENDS ClCommandQueue, TLC

CONSTANTS q1, q2, A, B, C, D, E, u1, u2, k1

\* Two queues.  A waits for a user event and for the other queue, B is
\* recorded behind it, E waits for A in turn, and C and D run the same khr
\* command buffer.  A, C and E may need a mux command buffer each.
CrossProgram == q1 :> <<A, B, C>> @@ q2 :> <<D, E>>
CrossWaits == A :> <<D, u1>> @@ B :> <<>> @@ C :> <<B>> @@ D :> <<>> @@ E :> <<A>>
CrossKhr == A :> NoKhr @@ B :> NoKhr @@ C :> k1 @@ D :> k1 @@ E :> NoKhr

\* B is dispatched past A, which a second user event still holds back, and
\* then C is enqueued behind B.
OvertakeProgram == q1 :> <<A, B, C>>
OvertakeWaits == A :> <<u1>> @@ B :> <<u2>> @@ C :> <<B>>
OvertakeKhr == A :> NoKhr @@ B :> NoKhr @@ C :> NoKhr

\* A khr command buffer that waits for a user event.
KhrWaitProgram == q1 :> <<A>>
KhrWaitWaits == A :> <<u1>>
KhrWaitKhr == A :> k1

=============================================================================
