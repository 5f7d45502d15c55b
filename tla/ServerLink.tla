----------------------------- MODULE ServerLink -----------------------------
(***************************************************************************)
(* The camera as the server sees it: the process registers under its       *)
(* identity (CameraRegistration), its daemon takes requests once it is up, *)
(* and the clips they ask for (VideoClips) are sent under the identity     *)
(* that EventHandlerHTTP holds.  The process may die and be started again; *)
(* the identity, the recordings and the clips are on disk and stay.        *)
(***************************************************************************)
EXTENDS VideoClips

CONSTANTS NoId, Absent, MaxBoots

VARIABLES file, stage, uuid, http_uuid, boots, told, badStore

Reg == INSTANCE CameraRegistration

ASSUME LinkAssumption ==
    MaxBoots \in Nat \ {0} /\ {NoId, Absent} \cap Reg!Ids = {} /\ NoId # Absent

regVars  == <<file, stage, uuid, http_uuid, boots, told, badStore>>
linkVars == <<clipVars, regVars>>

LinkInit == Init /\ Reg!Init

Register == Reg!Step /\ UNCHANGED clipVars

\* main() goes on whether HttpInitializer::init() has succeeded or not.
Proceed == stage \in {"up", "stopped"} /\ StartVideo /\ UNCHANGED regVars

\* The daemon hands a request to a thread, which first gets the EventHandlerHTTP.
Accept == /\ stage = "up" /\ http_uuid # Absent /\ \E e \in Events : Arrive(e)
          /\ UNCHANGED regVars

Work == /\ Tick \/ Removal \/ (\E e \in Events : Serve(e) \/ Joined(e) \/ SendClip(e))
        /\ UNCHANGED regVars

Reboot == Reg!Restart /\ Die

LinkNext == Register \/ Proceed \/ Accept \/ Work \/ Reboot

\* The threads that hold or wait for _file_lock run.  A pipeline may run for ever.
LinkSpec ==
    /\ LinkInit /\ [][LinkNext]_linkVars
    /\ WF_linkVars(Removal /\ UNCHANGED regVars)
    /\ \A e \in Events : WF_linkVars(Serve(e) /\ UNCHANGED regVars)

-----------------------------------------------------------------------------

LinkTypeOK == TypeOK /\ Reg!TypeOK

\* Reg!IdentityKept: an identity once stored is never replaced.
IdentityKept == Reg!IdentityKept

\* Reg!OneIdentity: whatever crashes and restarts happen, the server is told of one
\* identity at most, and every clip is sent under it, unless the store itself failed.
OneIdentity == Reg!OneIdentity

\* Every request is answered, or lost with the process, unless the pipeline of some
\* request runs for ever: nothing else keeps _file_lock, neither a return of
\* process_video() nor a pass of the removal.
EventAnswered ==
    \A e \in Events :
        [](epc[e] = "waiting" => <>(\/ epc[e] \in {"sending", "answered"}
                                    \/ \E d \in Events : [](epc[d] = "joining")))
=============================================================================
