-------------------------- MODULE ConnectionDialog --------------------------
(***************************************************************************)
(* The connection dialog of one window (crates/rulogman-app/src/           *)
(* connection.rs and connection/): the profile list it edits, the form,    *)
(* and the keychain it brings in line with what was stored.                *)
(*                                                                         *)
(* profiles.json is shared by every window.  Each change reads it afresh,  *)
(* changes one entry and writes it back.  The keychain answers behind an   *)
(* unlock prompt, so Save and Connect leave it to a background task while  *)
(* the dialog stays up and is used on.                                     *)
(*                                                                         *)
(* An account names a profile or a jump host, and its keychain entry.  A   *)
(* secret is told apart only by the account it was typed for.              *)
(***************************************************************************)
EXTENDS Naturals, FiniteSets

CONSTANTS
    MaxAccounts, \* bound: accounts handed out
    Hosts,       \* what a complete form can describe; 0 is an incomplete one
    MaxEdits,    \* bound: edits of the form, and what goes wrong beside them
    MaxTroubles  \* bound: failures, and changes of the file from elsewhere

ASSUME ConnectionDialogAssumption ==
    /\ MaxAccounts \in Nat \ {0, 1} /\ Hosts \subseteq Nat \ {0} /\ 1 \in Hosts
    /\ {MaxEdits, MaxTroubles} \subseteq Nat

Accounts == 1..MaxAccounts
Unnamed == MaxAccounts + 1 \* a secret typed for a profile without an account yet

VARIABLES
    list,      \* profiles.json, by account
    readable,  \* whether it can be read now
    used,      \* accounts handed out so far
    vault,     \* the keychain: whose secret each account's entry is, 0 when none
    copy,      \* store: the list as the window last read it
    shown,     \* open
    form,      \* the fields, and the profile they are of
    question,  \* what covers the form: "none", "discard", "delete" or "import"
    subject,   \* the profile the delete question is about
    work,      \* keychain_task, with what it is to do
    strays,    \* keychain work running for a dialog that closed
    opened,    \* what this step opened: a profile's session, and its secret
    asked,     \* history: the profile Connect was clicked for, while that stands
    muddled,   \* history: accounts a failure or a race was met at
    edits,     \* edits so far
    troubles   \* failures and changes from elsewhere so far

file == <<list, readable, used>>
covers == <<question, subject>>
counts == <<edits, troubles>>
dialogVars == <<file, vault, copy, shown, form, covers, work, strays, opened, asked,
                muddled, counts>>

Profile == [host: Hosts, agent: BOOLEAN, saves: BOOLEAN, hop: 0..MaxAccounts,
            hopSaves: BOOLEAN]
EmptyForm == [editing |-> 0, host |-> 0, agent |-> FALSE, saves |-> FALSE, secret |-> 0,
              hop |-> 0, hopSaves |-> FALSE, hopSecret |-> FALSE]
NoSession == [profile |-> 0, secret |-> 0]
NoWork == [at |-> "none", id |-> 0, typed |-> 0, read |-> FALSE, entry |-> "keep",
           hopSave |-> 0, hopDelete |-> 0, after |-> "stay", secret |-> 0,
           told |-> FALSE]
Without(f, id) == [a \in DOMAIN f \ {id} |-> f[a]]
Entered(f, id, p) == [a \in DOMAIN f \union {id} |-> IF a = id THEN p ELSE f[a]]

\* One saved profile that keeps a secret, reached through a host that keeps one.
DialogInit ==
    /\ list = [a \in {1} |-> [host |-> 1, agent |-> FALSE, saves |-> TRUE, hop |-> 2,
                              hopSaves |-> TRUE]]
    /\ readable \in BOOLEAN /\ used = 2
    /\ vault = [a \in Accounts |-> IF a \in {1, 2} THEN a ELSE 0]
    /\ copy = (IF readable THEN list ELSE << >>)
    /\ shown = FALSE /\ form = EmptyForm
    /\ question = "none" /\ subject = 0
    /\ work = NoWork /\ strays = {}
    /\ opened = NoSession /\ asked = 0 /\ muddled = {} /\ edits = 0 /\ troubles = 0

Own(p) == {p.hop} \ {0}
Touched(j) == ({j.id} \union {j.hopSave, j.hopDelete}) \ {0}
Unfinished == {j \in strays \union {work}: j.at = "waiting"}

FromWindow == copy \* mutant: the change is made to the window's copy
\* read_store: what every change is applied to.
Stored == list

MayHappen == edits + troubles < MaxEdits
Edited == MayHappen /\ edits' = edits + 1
\* What goes wrong in a step, or nothing.
Trouble(met) ==
    IF met THEN MayHappen /\ troubles < MaxTroubles /\ troubles' = troubles + 1
    ELSE UNCHANGED troubles

\* The form is on screen and nothing covers it.
Free == shown /\ question = "none"
-----------------------------------------------------------------------------
(* The form.                                                               *)

KeepTyped(id, p) == \* mutant: the secret stays in its field
    [editing |-> id, host |-> p.host, agent |-> p.agent, saves |-> p.saves,
     secret |-> form.secret, hop |-> p.hop, hopSaves |-> p.hopSaves, hopSecret |-> FALSE]
\* fill_form
Filled(id, p) ==
    [editing |-> id, host |-> p.host, agent |-> p.agent, saves |-> p.saves, secret |-> 0,
     hop |-> p.hop, hopSaves |-> p.hopSaves, hopSecret |-> FALSE]

\* open_new and open_profile, which also fill the form when the profile is known.
Open ==
    /\ ~shown /\ shown' = TRUE
    /\ copy' = (IF readable THEN Stored ELSE copy)
    /\ form' \in {EmptyForm} \union {Filled(id, copy'[id]): id \in DOMAIN copy'}
    /\ UNCHANGED <<file, vault, covers, work, strays, asked, muddled>>

\* select_profile
Select ==
    /\ Free
    /\ \E id \in DOMAIN copy: form' = Filled(id, copy[id])
    /\ UNCHANGED <<file, vault, copy, shown, covers, work, strays, asked, muddled>>

\* An edit: the host, the method (set_auth_kind drops what was typed for the other),
\* the box that keeps the secret, a secret, and the one jump host's row and secret.
Edit ==
    /\ Free
    /\ \/ \E h \in Hosts: form' = [form EXCEPT !.host = h]
       \/ form' = [form EXCEPT !.agent = ~@, !.secret = 0]
       \/ form' = [form EXCEPT !.saves = ~@]
       \/ /\ ~form.agent
          /\ form' = [form EXCEPT !.secret =
                         IF form.editing = 0 THEN Unnamed ELSE form.editing]
       \/ form.hop # 0 /\ form' = [form EXCEPT !.hopSecret = TRUE]
       \/ /\ form.hop # 0
          /\ form' = [form EXCEPT !.hop = 0, !.hopSaves = FALSE, !.hopSecret = FALSE]
    /\ form' # form /\ Edited
    /\ UNCHANGED <<file, vault, copy, shown, covers, work, strays, asked, muddled>>

\* add_hop_row, with its fields filled in.
AddHop ==
    /\ Free /\ form.hop = 0 /\ used < MaxAccounts /\ Edited
    /\ used' = used + 1
    /\ form' = [form EXCEPT !.hop = used']
    /\ UNCHANGED <<list, readable, vault, copy, shown, covers, work, strays, asked,
                   muddled>>
-----------------------------------------------------------------------------
(* Save and Connect.                                                       *)

AlwaysKeeps(after, typed, before) == after = "stay" /\ typed = 0 \* mutant
\* A save that was typed nothing leaves a secret that was kept as it is.
LeftAsItIs(after, typed, before) == after = "stay" /\ typed = 0 /\ before.saves

\* plan_writes for profile p, stored over before.
Planned(j, p, before) ==
    [j EXCEPT
       !.entry = IF p.saves
                 THEN IF LeftAsItIs(j.after, j.typed, before) THEN "keep" ELSE "save"
                 ELSE IF p.agent /\ ~before.saves THEN "keep" ELSE "delete",
       !.hopSave = IF form.hopSecret THEN form.hop ELSE 0,
       !.hopDelete = IF before.hop # p.hop THEN before.hop ELSE 0]

\* KeychainWork::is_empty
Nothing(j) == ~j.read /\ j.entry = "keep" /\ j.hopSave = 0 /\ j.hopDelete = 0

\* What close leaves of the form: no secret outlives the dialog on screen.
Cleared(f) == [f EXCEPT !.secret = 0, !.hopSecret = FALSE]

\* finish_connect: a save leaves the form as it is (base_form, which says whether it was
\* edited, is left out: Dismiss may ask or not); a connect opens the session, and closes
\* the dialog unless something is to be told.
Finish(j, f) ==
    /\ work' = NoWork /\ asked' = 0
    /\ IF j.after = "stay"
       THEN form' = f /\ opened' = NoSession /\ UNCHANGED <<shown, covers>>
       ELSE /\ opened' = [profile |-> j.id, secret |-> j.secret]
            /\ IF j.told
               THEN form' = f /\ UNCHANGED <<shown, covers>>
               ELSE /\ form' = Cleared(f) /\ shown' = FALSE
                    /\ question' = "none" /\ subject' = 0

\* store_form.  A profile that is in neither list is stored under a new account.
Store(after) ==
    LET current == (IF readable THEN Stored ELSE << >>)
        known == form.editing \in DOMAIN current \union DOMAIN copy
        id == (IF known THEN form.editing ELSE used + 1)
        before == IF form.editing \in DOMAIN current THEN current[form.editing]
                  ELSE IF form.editing \in DOMAIN copy THEN copy[form.editing]
                  ELSE [saves |-> FALSE, hop |-> 0]
        mine == form.secret = (IF form.editing = 0 THEN Unnamed ELSE form.editing)
        typed == (IF mine THEN id ELSE form.secret)
        profile == [host |-> form.host, agent |-> form.agent,
                    saves |-> form.saves /\ ~form.agent, hop |-> form.hop,
                    hopSaves |-> form.hopSaves \/ form.hopSecret]
        bare == [NoWork EXCEPT !.at = "waiting", !.id = id, !.typed = typed,
                    !.secret = typed, !.after = after,
                    !.read = typed = 0 /\ form.editing # 0 /\ ~form.agent
                               /\ after = "connect"]
        stored == [form EXCEPT !.editing = id, !.secret = typed]
    IN /\ id \in Accounts /\ used' = (IF known THEN used ELSE id)
       /\ copy' = (IF readable THEN Entered(Stored, id, profile) ELSE copy)
       /\ \E wrote \in {readable, FALSE}:
             /\ Trouble(readable /\ ~wrote)
             /\ list' = (IF wrote THEN copy' ELSE list)
             /\ muddled' = muddled \union
                   (IF readable /\ (~wrote \/ form.editing \notin DOMAIN current \union {0})
                    THEN {id, before.hop, form.hop} \ {0} ELSE {})
             /\ LET j == [(IF readable THEN Planned(bare, profile, before) ELSE bare)
                             EXCEPT !.told = ~wrote]
                IN IF Nothing(j)
                   THEN Finish(j, stored)
                   ELSE /\ work' = j /\ form' = stored
                        /\ asked' = (IF after = "connect" THEN id ELSE 0)
                        /\ opened' = NoSession /\ UNCHANGED <<shown, covers>>
       /\ UNCHANGED <<readable, vault, strays>>

\* save and connect: one at a time, and only a complete form.
Submit ==
    /\ Free /\ work = NoWork /\ form.host # 0
    /\ \E after \in {"stay", "connect"}: Store(after)

Written(j) == (IF j.entry = "keep" THEN {} ELSE {j.id}) \union ({j.hopSave, j.hopDelete} \ {0})

\* KeychainWork::run: the secret is read if it is to be, then the entries are written;
\* each of it may fail.
Run(j, failed, heard) ==
    LET secret == IF ~j.read THEN j.typed ELSE IF heard THEN vault[j.id] ELSE 0
        none == j.entry = "save" /\ secret = 0
        value(a) == IF a \in failed \/ a \notin Written(j) THEN vault[a]
                    ELSE IF a = j.id /\ j.entry = "save"
                         THEN IF none THEN vault[a] ELSE secret
                    ELSE IF a = j.hopSave THEN a ELSE 0
    IN [vault |-> [a \in Accounts |-> value(a)],
        bad |-> failed \union (IF none THEN {j.id} ELSE {}),
        met |-> failed # {} \/ ~heard,
        job |-> [j EXCEPT !.at = "ran", !.secret = secret,
                    !.told = @ \/ failed # {} \/ none \/ (j.read /\ ~heard)]]
Runs(j) == {Run(j, failed, heard): failed \in SUBSET Written(j), heard \in {TRUE, ~j.read}}

KeychainRuns ==
    /\ work.at = "waiting"
    /\ \E r \in Runs(work):
          /\ Trouble(r.met) /\ muddled' = muddled \union r.bad
          /\ vault' = r.vault /\ work' = r.job
    /\ UNCHANGED <<file, copy, shown, form, covers, strays, asked>>

KeychainAnswers ==
    /\ work.at = "ran" /\ Finish(work, form)
    /\ UNCHANGED <<file, vault, copy, strays, muddled>>

StrayRuns ==
    /\ \E j \in strays: \E r \in Runs(j):
          /\ Trouble(r.met) /\ muddled' = muddled \union r.bad
          /\ vault' = r.vault /\ strays' = strays \ {j}
    /\ UNCHANGED <<file, copy, shown, form, covers, work, asked>>
-----------------------------------------------------------------------------
(* Leaving the dialog.                                                     *)

Kept == work \* mutant: the task outlives the dialog
\* close: keychain_task is dropped, and nothing opens behind the user's back.
AfterClose == NoWork

\* close: what already runs on the background thread runs to its end (MaxStrays is 1).
Close ==
    /\ shown' = FALSE /\ question' = "none" /\ subject' = 0 /\ form' = Cleared(form)
    /\ work' = AfterClose /\ asked' = 0
    /\ IF work.at = "waiting"
       THEN /\ strays' \in {strays} \union
               (IF strays = {} THEN {{[work EXCEPT !.after = "stay", !.told = FALSE]}} ELSE {})
            /\ muddled' = muddled \union Written(work)
       ELSE UNCHANGED <<strays, muddled>>
    /\ UNCHANGED <<file, vault, copy>>

\* request_dismiss: Cancel, the backdrop, and escape with nothing over the form.
Dismiss ==
    /\ Free
    /\ \/ Close
       \/ /\ question' = "discard"
          /\ UNCHANGED <<file, vault, copy, shown, form, subject, work, strays, asked,
                         muddled>>

\* discard_edits
Discard == question = "discard" /\ Close

\* keep_editing, cancel_delete, close_ssh_import: escape takes the innermost layer down.
StepBack ==
    /\ question # "none" /\ question' = "none" /\ subject' = 0
    /\ UNCHANGED <<file, vault, copy, shown, form, work, strays, asked,
                   muddled>>
-----------------------------------------------------------------------------
(* The list: delete, duplicate and import.                                 *)

\* ask_delete_profile, here and on the start screen.
AskDelete ==
    /\ question = "none" /\ question' = "delete" /\ subject' \in DOMAIN copy
    /\ UNCHANGED <<file, vault, copy, shown, form, work, strays, asked,
                   muddled>>

\* confirm_delete and delete_profile: the secrets go with the profile.
ConfirmDelete ==
    /\ question = "delete" /\ question' = "none" /\ subject' = 0
    /\ IF readable /\ subject \in DOMAIN Stored
       THEN LET gone == {subject} \union Own(Stored[subject])
            IN /\ copy' = Without(Stored, subject)
               /\ \E wrote \in BOOLEAN, failed \in SUBSET gone:
                     /\ Trouble(~wrote \/ failed # {})
                     /\ list' = (IF wrote THEN copy' ELSE list)
                     /\ vault' = [a \in Accounts |->
                                    IF a \in gone \ failed THEN 0 ELSE vault[a]]
                     /\ muddled' = muddled \union failed \union
                           (IF wrote THEN {} ELSE gone) \union
                           (gone \intersect UNION {Touched(j): j \in Unfinished})
               /\ form' = (IF form.editing = subject THEN EmptyForm ELSE form)
       ELSE /\ copy' = (IF readable THEN Stored ELSE copy)
            /\ UNCHANGED <<list, vault, form, muddled, troubles>>
    /\ UNCHANGED <<readable, used, shown, work, strays, asked>>

\* ProfileStore::duplicate: new accounts, and no claim on a secret.
Duplicated(p, id) ==
    [p EXCEPT !.saves = FALSE, !.hop = IF p.hop = 0 THEN 0 ELSE id + 1, !.hopSaves = FALSE]

\* duplicate_profile
Duplicate ==
    /\ question = "none" /\ readable
    /\ \E id \in DOMAIN copy:
          IF id \in DOMAIN Stored
          THEN LET p == Duplicated(Stored[id], used + 1)
               IN /\ used' = (IF p.hop = 0 THEN used + 1 ELSE used + 2)
                  /\ used' <= MaxAccounts
                  /\ copy' = Entered(Stored, used + 1, p)
                  /\ list' \in {list, copy'} /\ Trouble(list' = list)
                  /\ form' = (IF shown THEN Filled(used + 1, p) ELSE form)
          ELSE copy' = Stored /\ UNCHANGED <<list, used, form, troubles>>
    /\ UNCHANGED <<readable, vault, shown, covers, work, strays, asked, muddled>>

\* open_ssh_import_from: a host of ~/.ssh/config, ticked unless a profile reaches it.
OpenImport ==
    /\ Free /\ question' = "import"
    /\ \E h \in Hosts:
          subject' = (IF \E id \in DOMAIN copy: copy[id].host = h THEN 0 ELSE h)
    /\ UNCHANGED <<file, vault, copy, shown, form, work, strays, asked,
                   muddled>>

\* confirm_ssh_import, for a host that is ticked.
ConfirmImport ==
    /\ question = "import" /\ subject # 0 /\ used < MaxAccounts
    /\ question' = "none" /\ subject' = 0
    /\ IF readable
       THEN /\ used' = used + 1
            /\ copy' = Entered(Stored, used', [host |-> subject, agent |-> FALSE,
                                           saves |-> FALSE, hop |-> 0,
                                           hopSaves |-> FALSE])
            /\ list' \in {list, copy'} /\ Trouble(list' = list)
       ELSE UNCHANGED <<list, used, copy, troubles>>
    /\ UNCHANGED <<readable, vault, shown, form, work, strays, asked,
                   muddled>>
-----------------------------------------------------------------------------
(* Everything else that has the file.                                      *)

\* Another window saves a profile, or deletes one and its secrets.
ElsewhereAdds ==
    /\ readable /\ used < MaxAccounts /\ used' = used + 1 /\ Trouble(TRUE)
    /\ \E h \in Hosts:
          list' = Entered(list, used', [host |-> h, agent |-> FALSE, saves |-> FALSE,
                                     hop |-> 0, hopSaves |-> FALSE])
    /\ UNCHANGED <<readable, vault, copy, shown, form, covers, work, strays, asked, muddled>>

ElsewhereDeletes ==
    /\ readable /\ Trouble(TRUE)
    /\ \E id \in DOMAIN list:
          LET gone == {id} \union Own(list[id])
          IN /\ list' = Without(list, id)
             /\ vault' = [a \in Accounts |-> IF a \in gone THEN 0 ELSE vault[a]]
             /\ muddled' = muddled \union
                   (gone \intersect UNION {Touched(j): j \in Unfinished})
    /\ UNCHANGED <<readable, used, copy, shown, form, covers, work, strays, asked>>

Elsewhere == ElsewhereAdds \/ ElsewhereDeletes

\* The file is damaged, or repaired.
FileTurns ==
    /\ readable' = ~readable /\ Trouble(TRUE)
    /\ UNCHANGED <<list, used, vault, copy, shown, form, covers, work, strays,
                   asked, muddled>>

DialogNext ==
    \/ Submit /\ UNCHANGED edits
    \/ KeychainAnswers /\ UNCHANGED counts
    \/ /\ opened' = NoSession /\ UNCHANGED edits
       /\ \/ KeychainRuns \/ StrayRuns \/ ConfirmDelete \/ Duplicate \/ ConfirmImport
          \/ Elsewhere \/ FileTurns
    \/ /\ opened' = NoSession /\ UNCHANGED counts
       /\ \/ Open \/ Select \/ Dismiss \/ Discard \/ StepBack \/ AskDelete \/ OpenImport
    \/ opened' = NoSession /\ UNCHANGED troubles /\ (Edit \/ AddHop)
-----------------------------------------------------------------------------
(* Properties.                                                             *)

DialogTypes ==
    /\ DOMAIN list \union DOMAIN copy \subseteq Accounts
    /\ \A id \in DOMAIN list: list[id] \in Profile
    /\ used \in 0..MaxAccounts /\ form.editing \in 0..used /\ form.hop \in 0..used
    /\ question \in {"none", "discard", "delete", "import"}
    /\ work.at \in {"none", "waiting", "ran"} /\ work.told \in BOOLEAN

(* A secret goes where it was typed for: an entry of the keychain holds only
   what was typed while the form was of that profile (or for that jump host),
   and a session is opened with a secret of its own profile, whatever was
   selected, saved, deleted or duplicated between the typing and the answer of
   the keychain. *)
SecretGoesHome ==
    /\ \A a \in Accounts: vault[a] \in {0, a}
    /\ opened.secret \in {0, opened.profile}

(* The keychain and the list agree once the keychain has answered: a profile or
   a jump host that claims a stored secret has one, and no entry is left that
   nothing refers to.  Left out are the accounts where a read, a write or a
   delete failed and was told, where Remember was ticked with nothing to keep,
   whose work the user closed the dialog on, those deleted while work on them was
   under way, and those a form stored again after they had been deleted. *)
Claimed(a) ==
    \E id \in DOMAIN list:
       (a = id /\ list[id].saves) \/ (a = list[id].hop /\ list[id].hopSaves)
KeychainMatchesList ==
    \A a \in Accounts \ (muddled \union UNION {Touched(j): j \in Unfinished}):
       vault[a] # 0 <=> Claimed(a)

(* A change of the list is a change of one profile: whatever another window
   saved or deleted since this one read the list stays as it is, and a list that
   cannot be read is never written over. *)
ProfilesKept ==
    ~Elsewhere =>
        /\ readable \/ list' = list
        /\ \A id \in DOMAIN list \union DOMAIN list':
              \/ id \in DOMAIN list \intersect DOMAIN list' /\ list'[id] = list[id]
              \/ id = form'.editing \/ id = subject \/ id > used

(* Nothing opens behind the user's back: a session opens only for the profile
   Connect was clicked for, in a dialog that was not closed since. *)
SessionAsAsked ==
    [][opened'.profile # 0 => work = NoWork \/ asked = opened'.profile]_dialogVars
=============================================================================
