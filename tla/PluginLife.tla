----------------------------- MODULE PluginLife -----------------------------
(***************************************************************************)
(* What one plugin of vlock may expect of the program: which hook may be   *)
(* called when, between the plugin's loading and its unloading.  This is   *)
(* the abstract specification of a plugin's life; Session implements it    *)
(* once for every plugin of the list.                                      *)
(***************************************************************************)
EXTENDS Naturals

CONSTANT MaxEnds    \* how often vlock_end may be called on one plugin

VARIABLES
    stage,      \* "absent", "loaded", "started", "failed" or "ended"
    saver,      \* "off", "on", "broken" (vlock_save failed), "retired"
    ends,       \* how often vlock_end was called
    freed       \* the plugin object has been given back

life == <<stage, saver, ends, freed>>

Init == /\ stage = "absent"
        /\ saver = "off"
        /\ ends = 0
        /\ freed = FALSE

-----------------------------------------------------------------------------
(* Loading, and dropping the plugin again while dependencies are resolved. *)
Load == stage = "absent" /\ stage' = "loaded" /\ UNCHANGED <<saver, ends, freed>>

Drop == stage = "loaded" /\ stage' = "absent" /\ UNCHANGED <<saver, ends, freed>>

(* vlock_start is called once, before any other hook. *)
Start == /\ ~freed
         /\ stage = "loaded"
         /\ stage' \in {"started", "failed"}
         /\ UNCHANGED <<saver, ends, freed>>

(* vlock_save is called on a started plugin whose saver is off. *)
Save == /\ ~freed
        /\ stage = "started"
        /\ saver = "off"
        /\ saver' \in {"on", "broken"}
        /\ UNCHANGED <<stage, ends, freed>>

(* Every vlock_save is answered by one vlock_save_abort; after an error of *)
(* either hook neither is called again.                                    *)
SaveAbort == /\ ~freed
             /\ stage = "started"
             /\ \/ saver = "on" /\ saver' \in {"off", "retired"}
                \/ saver = "broken" /\ saver' = "retired"
             /\ UNCHANGED <<stage, ends, freed>>

(* vlock_end is called only after a vlock_start that succeeded. *)
End == /\ ~freed
       /\ stage \in {"started", "ended"}
       /\ ends < MaxEnds
       /\ stage' = "ended"
       /\ ends' = ends + 1
       /\ UNCHANGED <<saver, freed>>

Unload == /\ ~freed
          /\ stage # "absent"
          /\ freed' = TRUE
          /\ UNCHANGED <<stage, saver, ends>>

Next == Load \/ Drop \/ Start \/ Save \/ SaveAbort \/ End \/ Unload

Spec == Init /\ [][Next]_life
=============================================================================
