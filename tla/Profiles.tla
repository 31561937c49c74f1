------------------------------ MODULE Profiles ------------------------------
(***************************************************************************)
(* The app's profiles, PPTPProxyClient.swift: the list in memory and in    *)
(* the user defaults, the passwords in the Keychain, the form, and APPLY,  *)
(* whose answer comes back when the form may show another profile.  A      *)
(* Keychain call may fail, and the app may die between a Keychain call and *)
(* the step that should follow it; it is then started again.               *)
(*                                                                         *)
(* Of a profile the forwarding rules are kept, as one value; its name,     *)
(* server and user are given whenever it is saved.  The session is reduced *)
(* to whether the buttons of the profile page are disabled.                *)
(***************************************************************************)
EXTENDS Integers

CONSTANTS
    Ids,            \* the UUIDs new profiles are given
    Rules,          \* texts of forwarding rules
    Valid,          \* those that validatedProxyConfig accepts
    NoRules,        \* the empty text
    NoId,           \* "": no profile is selected
    MaxCrashes      \* how often the app dies (bound)

ASSUME ProfilesAssumption ==
    /\ NoId \notin Ids /\ NoRules \in Valid /\ Valid \subseteq Rules /\ MaxCrashes \in Nat

VARIABLES
    running,        \* the app runs
    profiles,       \* id |-> rules, in memory
    stored,         \* vpnProfiles.v1: [there, map]
    legacy,         \* settings of a version without profiles exist
    remembered,     \* selectedVPNProfile
    keychain,       \* ids that have a password
    form,           \* [id, rules, typed, has]: selectedID, forwardText, whether a password
                    \* was typed, hasStoredPassword
    session,        \* "off", "connecting" or "connected"
    apply,          \* [state, id, rules]: an APPLY under way, "no", "sent", "ok" or "failed"
    used,           \* UUIDs given out
    lost,           \* ids whose password was saved and whose profile was not
    crashes

disk == <<stored, legacy, remembered, keychain>>
history == <<used, lost, crashes>>
vars == <<running, profiles, disk, form, session, apply, history>>

Empty == [id \in {} |-> NoRules]
Cleared(id) == [id |-> id, rules |-> NoRules, typed |-> FALSE, has |-> FALSE]
NoApply == [state |-> "no", id |-> NoId, rules |-> NoRules]

Init ==
    /\ running = FALSE /\ profiles = Empty
    /\ stored = [there |-> FALSE, map |-> Empty]
    /\ legacy \in BOOLEAN
    /\ remembered = NoId /\ keychain = {}
    /\ form = Cleared(NoId) /\ session = "off" /\ apply = NoApply
    /\ used = {} /\ lost = {} /\ crashes = 0

-----------------------------------------------------------------------------
(* persistProfiles.                                                         *)
persistProfiles == stored' = [there |-> TRUE, map |-> profiles']

(* selectProfile, called with every new value of selectedID: the form is    *)
(* filled; the Keychain is asked for a password, and may fail.              *)
selectProfile(id, list) ==
    IF id \notin DOMAIN list THEN form' = Cleared(id)
    ELSE \E has \in BOOLEAN :
            /\ has => id \in keychain'
            /\ form' = [Cleared(id) EXCEPT !.rules = list[id], !.has = has]

Remember(id) == remembered' = IF id \in DOMAIN profiles' THEN id ELSE remembered

(* loadProfiles, when the window appears.                                   *)
loadProfiles ==
    /\ ~running
    /\ running' = TRUE
    /\ UNCHANGED <<legacy, keychain, session, apply, lost, crashes>>
    /\ \/ stored.there /\ profiles' = stored.map /\ UNCHANGED <<stored, used>>
       \/ ~stored.there /\ ~legacy /\ profiles' = Empty /\ UNCHANGED <<stored, used>>
       \/ /\ ~stored.there /\ legacy
          /\ \E id \in Ids \ used : profiles' = [i \in {id} |-> NoRules] /\ used' = used \cup {id}
          /\ persistProfiles
    /\ \E id \in DOMAIN profiles' \cup {NoId} :
          /\ remembered \in DOMAIN profiles' => id = remembered
          /\ id = NoId => profiles' = Empty
          /\ selectProfile(id, profiles')
          /\ Remember(id)

(* The app dies, on its own or in one of the steps below.                   *)
Die ==
    /\ crashes < MaxCrashes /\ crashes' = crashes + 1
    /\ running' = FALSE /\ profiles' = Empty
    /\ form' = Cleared(NoId) /\ session' = "off" /\ apply' = NoApply

Crash == running /\ Die /\ UNCHANGED <<disk, used, lost>>

Idle == running /\ session = "off"          \* the profile page is enabled

(* The user edits the rules, types a password, picks a profile or "new".    *)
Edit ==
    /\ running
    /\ \/ apply.state = "no" /\ \E r \in Rules : form' = [form EXCEPT !.rules = r]
       \/ session = "off" /\ form' = [form EXCEPT !.typed = TRUE]
    /\ UNCHANGED <<running, profiles, disk, session, apply, history>>

Pick ==
    /\ Idle
    /\ \E id \in (DOMAIN profiles \ {form.id}) \cup {NoId} :
          /\ profiles' = profiles /\ keychain' = keychain
          /\ selectProfile(id, profiles)
          /\ Remember(id)
    /\ UNCHANGED <<running, stored, legacy, session, apply, history>>

-----------------------------------------------------------------------------
(* saveProfile of the profile id, up to the Keychain: it fails, or has no   *)
(* password, or the app dies once the password is in.                       *)
NotSaved(id) ==
    /\ UNCHANGED <<stored, legacy, remembered>>
    /\ used' = used \cup {id}
    /\ \/ /\ UNCHANGED <<running, profiles, keychain, form, session, apply, lost, crashes>>
       \/ /\ form.typed
          /\ keychain' = keychain \cup {id}
          /\ lost' = IF id \in DOMAIN profiles THEN lost ELSE lost \cup {id}
          /\ Die \/ UNCHANGED <<running, profiles, form, session, apply, crashes>>

(* saveProfile that succeeds, and the rules the profile has afterwards.     *)
Saved(id, rules) ==
    /\ form.typed \/ id \in keychain
    /\ keychain' = keychain \cup {id}
    /\ profiles' = [i \in DOMAIN profiles \cup {id} |-> IF i = id THEN rules ELSE profiles[i]]
    /\ persistProfiles
    /\ remembered' = id
    /\ used' = used \cup {id}
    /\ IF id = form.id THEN form' = [form EXCEPT !.typed = FALSE, !.has = TRUE]
                       ELSE selectProfile(id, profiles')
    /\ UNCHANGED <<running, legacy, apply, lost, crashes>>

NewOrSelected == IF form.id = NoId THEN Ids \ used ELSE {form.id}

(* The button: an existing profile keeps the rules it has.                  *)
saveProfile ==
    /\ Idle
    /\ \E id \in NewOrSelected :
          \/ NotSaved(id)
          \/ /\ Saved(id, IF id \in DOMAIN profiles THEN profiles[id] ELSE form.rules)
             /\ UNCHANGED session

(* connect(), up to the start of the session (AppSession): the profile is   *)
(* saved with the rules of the form, and its password read.                 *)
connect ==
    /\ Idle /\ form.rules \in Valid
    /\ \E id \in NewOrSelected :
          \/ NotSaved(id)
          \/ Saved(id, form.rules) /\ session' \in {"off", "connecting"}

(* Fault: the profile goes first; the Keychain may then fail.               *)
deleteProfile_reversed ==
    /\ Idle /\ form.id # NoId
    /\ profiles' = [i \in DOMAIN profiles \ {form.id} |-> profiles[i]]
    /\ persistProfiles
    /\ keychain' = keychain \ {form.id} \/ keychain' = keychain
    /\ form' = Cleared(NoId) /\ remembered' = NoId
    /\ UNCHANGED <<running, legacy, session, apply, used, lost, crashes>>

(* deleteProfile: the password first, and the profile only when that worked *)
(* (or the app dies between the two).                                       *)
deleteProfile ==
    /\ Idle /\ form.id # NoId
    /\ \/ UNCHANGED <<running, profiles, disk, form, session, apply, history>>
       \/ /\ keychain' = keychain \ {form.id}
          /\ Die /\ UNCHANGED <<stored, legacy, remembered, used, lost>>
       \/ /\ keychain' = keychain \ {form.id}
          /\ profiles' = [i \in DOMAIN profiles \ {form.id} |-> profiles[i]]
          /\ persistProfiles
          /\ form' = Cleared(NoId) /\ remembered' = NoId
          /\ UNCHANGED <<running, legacy, session, apply, used, lost, crashes>>

-----------------------------------------------------------------------------
(* Fault: the rules are changed in memory only.                             *)
persistProxySettings_inMemory(rules) ==
    /\ profiles' = [i \in DOMAIN profiles |-> IF i = form.id THEN rules ELSE profiles[i]]
    /\ UNCHANGED stored

(* persistProxySettings, for the profile that is selected now.              *)
persistProxySettings(rules) ==
    IF form.id \notin DOMAIN profiles THEN UNCHANGED <<profiles, stored>>
    ELSE /\ profiles' = [i \in DOMAIN profiles |-> IF i = form.id THEN rules ELSE profiles[i]]
         /\ persistProfiles

(* applyProxySettings: stored at once, or sent to the engine first.         *)
applyProxySettings ==
    /\ running /\ apply.state = "no" /\ form.rules \in Valid
    /\ IF session = "connected"
         THEN /\ apply' = [state |-> "sent", id |-> form.id, rules |-> form.rules]
              /\ UNCHANGED <<profiles, stored>>
         ELSE persistProxySettings(form.rules) /\ UNCHANGED apply
    /\ UNCHANGED <<running, legacy, remembered, keychain, form, session, history>>

(* The control request: "OK APPLY", or anything else.                       *)
Answered ==
    /\ apply.state = "sent"
    /\ \E state \in {"ok", "failed"} : apply' = [apply EXCEPT !.state = state]
    /\ UNCHANGED <<running, profiles, disk, form, session, history>>

(* Its answer on the main queue.                                            *)
ApplyAnswered ==
    /\ apply.state \in {"ok", "failed"}
    /\ IF apply.state = "ok" THEN persistProxySettings(apply.rules)
                             ELSE UNCHANGED <<profiles, stored>>
    /\ apply' = NoApply
    /\ UNCHANGED <<running, legacy, remembered, keychain, form, session, history>>

(* The session goes on, or ends (AppSession).                               *)
SessionStep ==
    /\ session # "off"
    /\ session' \in {"off", "connected"} \ {session}
    /\ UNCHANGED <<running, profiles, disk, form, apply, history>>

Next ==
    \/ loadProfiles \/ Crash \/ Edit \/ Pick \/ saveProfile \/ connect \/ deleteProfile
    \/ applyProxySettings \/ Answered \/ ApplyAnswered \/ SessionStep

Spec == Init /\ [][Next]_vars

-----------------------------------------------------------------------------
(* "Stores profiles in app settings": what the window lists is what a       *)
(* restart would find, after every change and every failure.                *)
Durable == running => profiles = stored.map

(* "Delete removes both the profile and its stored password": a password    *)
(* that is left belongs to a profile in the settings, whatever fails or     *)
(* dies on the way; only a save that broke off leaves one without.          *)
NoPasswordLeft == keychain \subseteq DOMAIN stored.map \cup lost

(* "Save a profile to keep its port forwarding rules": the answer to APPLY  *)
(* is stored with the profile whose rules were sent.  The code does not     *)
(* keep this (README, section 5): the session may end and another profile   *)
(* be picked before the answer is there.                                    *)
AppliedToOwner ==
    [][apply.state = "ok" /\ running' /\ apply'.state = "no"
          => \A id \in DOMAIN profiles : profiles'[id] # profiles[id] => id = apply.id]_vars
=============================================================================
