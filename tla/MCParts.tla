------------------------------- MODULE MCParts -------------------------------
(***************************************************************************)
(* The parts that share no state with each other or with the rest: the page *)
(* around the preferences, the passkey scripts, the pages of the login      *)
(* theme, its registration form, the entity store, and the files of a       *)
(* profile picture.  A behaviour is one of any of them, the others at rest, *)
(* so their states add up and do not multiply.                              *)
(***************************************************************************)
EXTENDS AppShell, WebAuthn, ThemePages, RegisterForm, EntityStore, AvatarPipeline

VARIABLE part       \* the part that this behaviour is about

PartsInit == /\ part \in {"shell", "passkeys", "theme", "registration", "store", "pictures"}
             /\ ShellInit /\ PasskeyInit /\ ThemeInit /\ RegisterInit /\ StoreInit
             /\ AvatarInit

PartsNext ==
    \/ /\ part = "shell" /\ ShellNext
       /\ UNCHANGED <<part, webAuthnVars, tabVars, regVars, storeVars, avatarVars>>
    \/ /\ part = "passkeys" /\ PasskeyNext
       /\ UNCHANGED <<part, shellVars, tabVars, regVars, storeVars, avatarVars>>
    \/ /\ part = "theme" /\ ThemeNext
       /\ UNCHANGED <<part, shellVars, webAuthnVars, regVars, storeVars, avatarVars>>
    \/ /\ part = "registration" /\ RegisterNext
       /\ UNCHANGED <<part, shellVars, webAuthnVars, tabVars, storeVars, avatarVars>>
    \/ /\ part = "store" /\ StoreNext
       /\ UNCHANGED <<part, shellVars, webAuthnVars, tabVars, regVars, avatarVars>>
    \/ /\ part = "pictures" /\ AvatarNext
       /\ UNCHANGED <<part, shellVars, webAuthnVars, tabVars, regVars, storeVars>>

PartsVars == <<part, shellVars, webAuthnVars, tabVars, regVars, storeVars, avatarVars>>

\* The fairness of the parts; at rest, none of what it is about is enabled.
PartsSpec == PartsInit /\ [][PartsNext]_PartsVars /\ ShellFairness /\ ThemeFairness

\* The values every variable of every part may have.
PartsTypeOK == ShellTypeOK /\ PasskeyTypeOK /\ ThemeTypeOK /\ RegisterTypeOK
               /\ StoreTypeOK /\ AvatarTypeOK
=============================================================================
