------------------------------ MODULE Passkeys ------------------------------
(***************************************************************************)
(* The passkeys of one user in the gateway (webauthn.service.ts and its    *)
(* controller).  Redis keeps three keys: the challenge of a registration,  *)
(* the challenge of a login, and all passkeys of the user as one document. *)
(*                                                                         *)
(* A verification reads the challenge, checks the browser's answer, deletes*)
(* the key, then reads the document and writes it back: four awaits, and   *)
(* none of them is a transaction.  Challenges are numbered as they are     *)
(* issued, 0 is none; a passkey has the name of the call that saved it.    *)
(***************************************************************************)
EXTENDS Naturals, FiniteSets

CONSTANTS KeyCalls,      \* verifications and deletions, each used once
          MaxChallenges, \* bound: challenges that are issued
          MaxCount       \* bound: answers that an authenticator counts

ASSUME PasskeysAssumption == MaxChallenges \in Nat /\ MaxCount \in Nat

VARIABLES issued,    \* challenges issued so far (not in the code)
          challenge, \* purpose -> the challenge stored for it
          passkeys,  \* the document: passkey -> its counter, or NoKey
          dialog,    \* call -> its step, and what it carries
          keys,      \* the document, had every call read and written it at once (not in the code)
          mingled,   \* a call read the document while another was about to write it (not in the code)
          twice      \* challenges that two calls read before either deleted them (not in the code)

passkeyVars == <<issued, challenge, passkeys, dialog, keys, mingled, twice>>

Purposes == {"registration", "login"}
NoKey == MaxCount + 1   \* above every counter
Documents == [KeyCalls -> 0..NoKey]
NoDocument == [k \in KeyCalls |-> NoKey]
NoDialog == [step |-> "idle", op |-> "none", challenge |-> 0, key |-> {}, count |-> 0,
             document |-> NoDocument]

PasskeysTypeOK ==
  /\ issued \in 0..MaxChallenges
  /\ challenge \in [Purposes -> 0..issued]
  /\ passkeys \in Documents /\ keys \in Documents
  /\ dialog \in [KeyCalls -> [step : {"idle", "found", "verifying", "verified", "writing", "done", "refused"},
                              op : Purposes \cup {"delete", "none"},
                              challenge : 0..issued, key : SUBSET KeyCalls,
                              count : 0..MaxCount, document : Documents]]
  /\ mingled \in BOOLEAN /\ twice \subseteq 1..issued

PasskeysInit ==
  /\ issued = 0 /\ challenge = [purpose \in Purposes |-> 0]
  /\ passkeys = NoDocument /\ keys = NoDocument
  /\ dialog = [c \in KeyCalls |-> NoDialog]
  /\ mingled = FALSE /\ twice = {}

Registered(document) == {k \in KeyCalls : document[k] # NoKey}
Goes(c, step) == dialog' = [dialog EXCEPT ![c].step = step]

------------------------------------------------------------------------------
(* Challenges.                                                             *)

\* generateRegistrationOptions and generateAuthenticationOptions: the key is overwritten.
Options(purpose) ==
  /\ issued < MaxChallenges
  /\ issued' = issued + 1
  /\ challenge' = [challenge EXCEPT ![purpose] = issued']
  /\ UNCHANGED <<passkeys, dialog, keys, mingled, twice>>

ChallengeExpires(purpose) ==
  /\ challenge[purpose] # 0
  /\ challenge' = [challenge EXCEPT ![purpose] = 0]
  /\ UNCHANGED <<issued, passkeys, dialog, keys, mingled, twice>>

\* The calls that have read challenge and not yet deleted it.
Verifying(answered) == {d \in KeyCalls : dialog[d].step = "verifying" /\ dialog[d].challenge = answered}

\* The answer of the browser is to the stored challenge: another is refused and changes nothing.
Verify(c, new) ==
  /\ challenge[new.op] # 0
  /\ dialog' = [dialog EXCEPT ![c] = [new EXCEPT !.step = "verifying", !.challenge = challenge[new.op]]]
  /\ twice' = IF Verifying(challenge[new.op]) = {} THEN twice ELSE twice \cup {challenge[new.op]}
  /\ UNCHANGED <<issued, challenge, passkeys, keys, mingled>>

VerifyRegistration(c) ==
  /\ dialog[c] = NoDialog
  /\ Verify(c, [NoDialog EXCEPT !.op = "registration", !.key = {c}])

\* A login finds its passkey in the document first.
FindCredential(c, k) ==
  /\ dialog[c] = NoDialog /\ k \in Registered(passkeys)
  /\ dialog' = [dialog EXCEPT ![c] = [NoDialog EXCEPT !.step = "found", !.op = "login", !.key = {k},
                                                      !.count = passkeys[k]]]
  /\ UNCHANGED <<issued, challenge, passkeys, keys, mingled, twice>>

\* The authenticator's count must be above the one found; one that does not count says 0.
VerifyLogin(c, count) ==
  /\ dialog[c].step = "found"
  /\ count > dialog[c].count \/ count + dialog[c].count = 0
  /\ Verify(c, [dialog[c] EXCEPT !.count = count])

\* Mutant of DropChallenge: the challenge is left to expire.
KeepChallenge(c) ==
  /\ dialog[c].step = "verifying"
  /\ Goes(c, "verified")
  /\ UNCHANGED <<issued, challenge, passkeys, keys, mingled, twice>>

\* The key is deleted, whatever challenge it holds by now.
DropChallenge(c) ==
  /\ dialog[c].step = "verifying"
  /\ challenge' = [challenge EXCEPT ![dialog[c].op] = 0]
  /\ Goes(c, "verified")
  /\ UNCHANGED <<issued, passkeys, keys, mingled, twice>>

\* A login that does not verify has used its challenge up all the same.
LoginFails(c) ==
  /\ dialog[c].step = "verifying" /\ dialog[c].op = "login"
  /\ challenge' = [challenge EXCEPT !["login"] = 0]
  /\ Goes(c, "refused")
  /\ UNCHANGED <<issued, passkeys, keys, mingled, twice>>

------------------------------------------------------------------------------
(* The document.                                                           *)

ReadDocument(c, new) ==
  /\ dialog' = [dialog EXCEPT ![c] = [new EXCEPT !.step = "writing", !.document = passkeys]]
  /\ mingled' = (mingled \/ \E d \in KeyCalls : dialog[d].step = "writing")
  /\ UNCHANGED <<issued, challenge, passkeys, keys, twice>>

\* saveCredential and updateCredentialCounter, once the answer is verified.
ReadToSave(c) == dialog[c].step = "verified" /\ ReadDocument(c, dialog[c])

DeleteCredential(c, k) ==
  /\ dialog[c] = NoDialog
  /\ ReadDocument(c, [NoDialog EXCEPT !.op = "delete", !.key = {k}])

\* What call c makes of a document: a login sets the counter of a passkey that is there.
Altered(document, c) ==
  [k \in KeyCalls |->
     IF k \notin dialog[c].key THEN document[k]
     ELSE CASE dialog[c].op = "registration" -> 0
            [] dialog[c].op = "login" -> IF document[k] = NoKey THEN NoKey ELSE dialog[c].count
            [] OTHER -> NoKey]

WriteDocument(c) ==
  /\ dialog[c].step = "writing"
  /\ passkeys' = Altered(dialog[c].document, c)
  /\ keys' = Altered(keys, c)
  /\ Goes(c, "done")
  /\ UNCHANGED <<issued, challenge, mingled, twice>>

\* The gateway stops, or Redis does not answer.
DialogLost(c) ==
  /\ dialog[c].step \in {"found", "verifying", "verified", "writing"}
  /\ Goes(c, "refused")
  /\ UNCHANGED <<issued, challenge, passkeys, keys, mingled, twice>>

PasskeysNext ==
  \/ \E purpose \in Purposes : Options(purpose) \/ ChallengeExpires(purpose)
  \/ \E c \in KeyCalls :
       \/ VerifyRegistration(c) \/ DropChallenge(c) \/ LoginFails(c)
       \/ ReadToSave(c) \/ WriteDocument(c) \/ DialogLost(c)
       \/ \E k \in KeyCalls : DeleteCredential(c, k) \/ FindCredential(c, k)
       \/ \E count \in 0..MaxCount : VerifyLogin(c, count)

PasskeysSpec == PasskeysInit /\ [][PasskeysNext]_passkeyVars

------------------------------------------------------------------------------
(* Properties.                                                             *)

\* Calls that a challenge confirmed: they save a passkey or count a login.
Confirmed(answered) == {c \in KeyCalls : dialog[c].challenge = answered
                                          /\ dialog[c].step \in {"verified", "writing", "done"}}

\* "Replay attacks prevented by the challenge + counter mechanism" (webauthn.service.ts:31): a
\* challenge confirms one call, unless two read it before either deleted it.  And the document
\* has the passkeys that were registered and not deleted, each with the counter of its last
\* login, as long as no call reads it between another's read and write.
PasskeysKept == /\ \A answered \in (1..issued) \ twice : Cardinality(Confirmed(answered)) <= 1
                /\ ~mingled => passkeys = keys
=============================================================================
