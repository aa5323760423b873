------------------------------- MODULE Parts -------------------------------
(***************************************************************************)
(* Parts of rulogman that have nothing to say to each other, side by side: *)
(* a behaviour is one of one part, and the others stay where they start.   *)
(* Each part's module states its own properties; together they cost one    *)
(* model the sum of their states.                                          *)
(***************************************************************************)
EXTENDS ConnectionDialog, SettingsFiles, TLC

VARIABLE part

Symmetric == Permutations(AppWindows)

partVars == <<dialogVars, settingsVars, part>>

PartsInit ==
    /\ part \in {"dialog", "settings"}
    /\ DialogInit /\ (part # "dialog" => readable)
    /\ SettingsInit /\ (part # "settings" => unreadable = {})

PartsNext ==
    /\ UNCHANGED part
    /\ \/ part = "dialog" /\ DialogNext /\ UNCHANGED settingsVars
       \/ part = "settings" /\ SettingsNext /\ UNCHANGED dialogVars

PartsSpec == PartsInit /\ [][PartsNext]_partVars
-----------------------------------------------------------------------------
(* What each part promises, with the types of its variables.               *)

(* Every variable of a part holds what its code can put there, and a secret is
   only ever where it was typed for: in the keychain entry of that profile or
   jump host, and in a session of that profile (store_form, KeychainWork,
   finish_connect); and once no work is under way the keychain holds an entry
   exactly where the list of profiles says so. *)
PartsSound == DialogTypes /\ SettingsTypes /\ SecretGoesHome /\ KeychainMatchesList

(* No step writes over what another window, another dialog or the user put into
   the profiles, the settings or the dashboards and the step is not about. *)
FilesKept == [][ProfilesKept /\ SettingsKept /\ BoardsKept]_partVars
=============================================================================
