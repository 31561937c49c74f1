--------------------------- MODULE ProfilesProofs ---------------------------
(***************************************************************************)
(* Settings, window and Keychain stay in step for any number of profiles,  *)
(* rules and deaths of the app.  Neither invariant is inductive alone: an  *)
(* APPLY is answered only in a running app, and settings that were never   *)
(* written hold no profile that a password could belong to.                *)
(***************************************************************************)
EXTENDS Profiles, TLAPS

(* An APPLY under way dies with the app.                                    *)
AnswersNeedApp == apply.state # "no" => running

(* Settings that do not exist are read as an empty list.                    *)
NothingStored == ~stored.there => stored.map = Empty

Inv == Durable /\ NoPasswordLeft /\ AnswersNeedApp /\ NothingStored

(* A fresh installation, with or without the settings of an old version.    *)
LEMMA InitInv == Init => Inv
BY DEF Init, Inv, Durable, NoPasswordLeft, AnswersNeedApp, NothingStored, NoApply, Empty

(* What persistProfiles writes is what the window lists, and it exists.     *)
LEMMA Persisted ==
    ASSUME persistProfiles
    PROVE  Durable' /\ NothingStored' /\ stored'.map = profiles'
BY DEF persistProfiles, Durable, NothingStored

(* loadProfiles: what it reads, or makes of old settings, is what is stored.*)
LEMMA LoadKeeps == Inv /\ loadProfiles => Inv'
<1> SUFFICES ASSUME Inv, loadProfiles PROVE Inv'
  OBVIOUS
<1>1. AnswersNeedApp'
  BY DEF loadProfiles, AnswersNeedApp
<1>2. CASE stored.there /\ profiles' = stored.map /\ UNCHANGED <<stored, used>>
  BY <1>1, <1>2 DEF loadProfiles, Inv, Durable, NoPasswordLeft, NothingStored
<1>3. CASE ~stored.there /\ ~legacy /\ profiles' = Empty /\ UNCHANGED <<stored, used>>
  BY <1>1, <1>3 DEF loadProfiles, Inv, Durable, NoPasswordLeft, NothingStored
<1>4. CASE /\ ~stored.there /\ legacy
           /\ \E id \in Ids \ used : profiles' = [i \in {id} |-> NoRules] /\ used' = used \cup {id}
           /\ persistProfiles
  <2>1. keychain \subseteq lost
    BY <1>4 DEF Inv, NoPasswordLeft, NothingStored, Empty
  <2>2. NoPasswordLeft'
    BY <2>1 DEF loadProfiles, NoPasswordLeft
  <2> QED
    BY <1>1, <1>4, <2>2, Persisted DEF Inv
<1> QED
  BY <1>2, <1>3, <1>4 DEF loadProfiles

(* The app's death takes the list and the APPLY with it.                    *)
LEMMA DieKeeps ==
    ASSUME Inv, Die, stored' = stored, keychain' \subseteq keychain \cup lost' \cup DOMAIN stored.map,
           lost \subseteq lost'
    PROVE  Inv'
BY DEF Inv, Die, Durable, NoPasswordLeft, AnswersNeedApp, NothingStored, NoApply

(* saveProfile that stops at the Keychain.                                  *)
LEMMA NotSavedKeeps ==
    ASSUME Inv, Idle, NEW id, NotSaved(id)
    PROVE  Inv'
<1>1. stored' = stored
  BY DEF NotSaved
<1>2. CASE UNCHANGED <<running, profiles, keychain, form, session, apply, lost, crashes>>
  BY <1>1, <1>2 DEF Inv, Durable, NoPasswordLeft, AnswersNeedApp, NothingStored
<1>3. CASE /\ keychain' = keychain \cup {id}
           /\ lost' = IF id \in DOMAIN profiles THEN lost ELSE lost \cup {id}
           /\ Die \/ UNCHANGED <<running, profiles, form, session, apply, crashes>>
  <2>1. lost \subseteq lost' /\ keychain' \subseteq keychain \cup lost' \cup DOMAIN stored.map
    BY <1>3 DEF Idle, Inv, Durable
  <2>2. CASE Die
    BY <1>1, <2>1, <2>2, DieKeeps
  <2>3. CASE UNCHANGED <<running, profiles, form, session, apply, crashes>>
    BY <1>1, <2>1, <2>3 DEF Inv, Durable, NoPasswordLeft, AnswersNeedApp, NothingStored
  <2> QED
    BY <1>3, <2>2, <2>3
<1> QED
  BY <1>2, <1>3 DEF NotSaved

(* saveProfile that goes through.                                           *)
LEMMA SavedKeeps ==
    ASSUME Inv, Idle, NEW id, NEW rules, Saved(id, rules)
    PROVE  Inv'
<1>1. DOMAIN profiles' = DOMAIN profiles \cup {id} /\ stored'.map = profiles'
  BY Persisted DEF Saved
<1>2. NoPasswordLeft'
  BY <1>1 DEF Saved, Idle, Inv, Durable, NoPasswordLeft
<1>3. AnswersNeedApp'
  BY DEF Saved, Inv, AnswersNeedApp
<1> QED
  BY <1>2, <1>3, Persisted DEF Saved, Inv

(* deleteProfile: the password goes first.                                  *)
LEMMA DeleteKeeps == Inv /\ deleteProfile => Inv'
<1> SUFFICES ASSUME Inv, deleteProfile PROVE Inv'
  OBVIOUS
<1>1. CASE UNCHANGED <<running, profiles, disk, form, session, apply, history>>
  BY <1>1 DEF disk, history, Inv, Durable, NoPasswordLeft, AnswersNeedApp, NothingStored
<1>2. CASE /\ keychain' = keychain \ {form.id}
           /\ Die /\ UNCHANGED <<stored, legacy, remembered, used, lost>>
  BY <1>2, DieKeeps
<1>3. CASE /\ keychain' = keychain \ {form.id}
           /\ profiles' = [i \in DOMAIN profiles \ {form.id} |-> profiles[i]]
           /\ persistProfiles
           /\ UNCHANGED <<running, legacy, session, apply, used, lost, crashes>>
  <2>1. DOMAIN profiles' = DOMAIN profiles \ {form.id} /\ stored'.map = profiles'
    BY <1>3, Persisted
  <2>2. NoPasswordLeft'
    BY <1>3, <2>1 DEF deleteProfile, Idle, Inv, Durable, NoPasswordLeft
  <2>3. AnswersNeedApp'
    BY <1>3 DEF Inv, AnswersNeedApp
  <2> QED
    BY <1>3, <2>2, <2>3, Persisted DEF Inv
<1> QED
  BY <1>1, <1>2, <1>3 DEF deleteProfile

(* Rules are stored in the list and in the settings, or in neither.         *)
LEMMA RulesKeep ==
    ASSUME Inv, running, NEW rules, persistProxySettings(rules),
           UNCHANGED <<running, keychain, lost>>, apply'.state # "no" => running
    PROVE  Inv'
<1>1. CASE UNCHANGED <<profiles, stored>>
  BY <1>1 DEF Inv, Durable, NoPasswordLeft, AnswersNeedApp, NothingStored
<1>2. CASE /\ profiles' = [i \in DOMAIN profiles |-> IF i = form.id THEN rules ELSE profiles[i]]
           /\ persistProfiles
  <2>1. DOMAIN profiles' = DOMAIN profiles /\ stored'.map = profiles'
    BY <1>2, Persisted
  <2> QED
    BY <1>2, <2>1, Persisted DEF Inv, Durable, NoPasswordLeft, AnswersNeedApp
<1> QED
  BY <1>1, <1>2 DEF persistProxySettings

(* Every step of the app, the user and the engine's answers keeps Inv.      *)
LEMMA NextInv == Inv /\ [Next]_vars => Inv'
<1> SUFFICES ASSUME Inv, [Next]_vars PROVE Inv'
  OBVIOUS
<1>1. CASE loadProfiles
  BY <1>1, LoadKeeps
<1>2. CASE Crash
  <2>1. Die /\ UNCHANGED <<stored, keychain, lost>>
    BY <1>2 DEF Crash, disk
  <2> QED
    BY <2>1, DieKeeps
<1>3. CASE Edit
  BY <1>3 DEF Edit, disk, history, Inv, Durable, NoPasswordLeft, AnswersNeedApp, NothingStored
<1>4. CASE Pick
  BY <1>4 DEF Pick, history, Inv, Durable, NoPasswordLeft, AnswersNeedApp, NothingStored
<1>5. CASE saveProfile
  <2>1. Idle
    BY <1>5 DEF saveProfile
  <2>2. PICK id \in NewOrSelected :
           \/ NotSaved(id)
           \/ Saved(id, IF id \in DOMAIN profiles THEN profiles[id] ELSE form.rules)
    BY <1>5 DEF saveProfile
  <2> QED
    BY <2>1, <2>2, NotSavedKeeps, SavedKeeps
<1>6. CASE connect
  <2>1. Idle
    BY <1>6 DEF connect
  <2>2. PICK id \in NewOrSelected : NotSaved(id) \/ Saved(id, form.rules)
    BY <1>6 DEF connect
  <2> QED
    BY <2>1, <2>2, NotSavedKeeps, SavedKeeps
<1>7. CASE deleteProfile
  BY <1>7, DeleteKeeps
<1>8. CASE applyProxySettings
  <2>1. UNCHANGED <<running, keychain, lost>> /\ running
    BY <1>8 DEF applyProxySettings, history
  <2>2. CASE session = "connected"
    BY <1>8, <2>1, <2>2
       DEF applyProxySettings, Inv, Durable, NoPasswordLeft, AnswersNeedApp, NothingStored
  <2>3. CASE session # "connected"
    BY <1>8, <2>1, <2>3, RulesKeep DEF applyProxySettings
  <2> QED
    BY <2>2, <2>3
<1>9. CASE Answered
  BY <1>9 DEF Answered, disk, history, Inv, Durable, NoPasswordLeft, AnswersNeedApp, NothingStored
<1>10. CASE ApplyAnswered
  <2>1. UNCHANGED <<running, keychain, lost>> /\ running /\ apply'.state = "no"
    BY <1>10 DEF ApplyAnswered, history, NoApply, Inv, AnswersNeedApp
  <2>2. CASE apply.state = "ok"
    BY <1>10, <2>1, <2>2, RulesKeep DEF ApplyAnswered
  <2>3. CASE apply.state # "ok"
    BY <1>10, <2>1, <2>3
       DEF ApplyAnswered, Inv, Durable, NoPasswordLeft, AnswersNeedApp, NothingStored
  <2> QED
    BY <2>2, <2>3
<1>11. CASE SessionStep
  BY <1>11 DEF SessionStep, disk, history, Inv, Durable, NoPasswordLeft, AnswersNeedApp, NothingStored
<1>12. CASE UNCHANGED vars
  BY <1>12 DEF vars, disk, history, Inv, Durable, NoPasswordLeft, AnswersNeedApp, NothingStored
<1> QED
  BY <1>1, <1>2, <1>3, <1>4, <1>5, <1>6, <1>7, <1>8, <1>9, <1>10, <1>11, <1>12 DEF Next

LEMMA Invariance == Spec => []Inv
BY InitInv, NextInv, PTL DEF Spec

(* What the window lists is what a restart finds in the settings.           *)
THEOREM ListsAreDurable == Spec => []Durable
<1>1. Inv => Durable
  BY DEF Inv
<1> QED
  BY <1>1, Invariance, PTL

(* deleteProfile and saveProfile leave no password without a profile,       *)
(* except that of a save that broke off.                                    *)
THEOREM PasswordsHaveProfiles == Spec => []NoPasswordLeft
<1>1. Inv => NoPasswordLeft
  BY DEF Inv
<1> QED
  BY <1>1, Invariance, PTL
=============================================================================
