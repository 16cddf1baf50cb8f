----------------------------- MODULE PhonePages -----------------------------
(***************************************************************************)
(* The profile page /me with its phone dialog and its edit dialog, and the *)
(* page /verify-phone, with the part of the API that sends and checks the  *)
(* one-time password.                                                      *)
(*                                                                         *)
(* The store's user is written by two answers: that of PUT /me/, and that  *)
(* of the GET /me/ that a verification causes.  Each carries the row as it *)
(* was when the API read it, and is stored when it comes, in any order.    *)
(* The API's password belongs to the user, not to the phone number it was  *)
(* sent to.                                                                *)
(*                                                                         *)
(* A code is the number whose phone shows it.                              *)
(***************************************************************************)
EXTENDS Naturals, FiniteSets, SequencesExt

CONSTANTS Numbers, NoNumber,
          MaxUnderWay   \* bound: requests under way at once

ASSUME PhoneAssumption == NoNumber \notin Numbers

Senders == {"profile", "standalone"}

VARIABLES
    phone,      \* at the API: phone_number and is_phone_verified
    otp,        \* otp:phone:{user}: the number it was sent to
    cooling,    \* otp:cooldown:{user} exists
    shown,      \* the same of the user in the store
    reading,    \* a GET /me/ is on its way to the API
    answers,    \* the rows on their way back, in the order they were read:
                \* by a GET /me/ (NoNumber) or a PUT /me/ (the number)
    dialog,     \* isPhoneVerifyOpen
    codes,      \* per page: the code in its field
    asking,     \* per page: its request for a code is in flight
    proving,    \* per page: the code it sent
    editing,    \* isEditOpen
    puts,       \* per number: its PUT /me/ is sent, or applied and not read back
    status,     \* of /verify-phone
    \* History, read by no action
    proven,     \* numbers whose code was accepted
    renumbered, \* the number was changed with a code out, or once verified
    unheard     \* an answer was lost, or came before one that was read earlier

api     == <<phone, otp, cooling>>
user    == <<shown, reading, answers>>
fields  == <<dialog, codes, status>>
edit    == <<editing, puts>>
jobs    == <<asking, proving>>
past    == <<proven, renumbered, unheard>>
phoneVars == <<api, user, fields, edit, jobs, past>>

MaybeNumber == Numbers \cup {NoNumber}
Profiles == [number : Numbers, verified : BOOLEAN]
Answers  == [by : MaybeNumber, row : Profiles]

PhoneTypeOK ==
    /\ {phone, shown} \subseteq Profiles /\ answers \in Seq(Answers)
    /\ otp \in MaybeNumber
    /\ puts \in [Numbers -> {"idle", "sent", "applied"}]
    /\ codes \in [Senders -> MaybeNumber]
    /\ proving \in [Senders -> MaybeNumber]
    /\ asking \in [Senders -> BOOLEAN]
    /\ {reading, cooling, dialog, editing} \subseteq BOOLEAN
    /\ {renumbered, unheard} \subseteq BOOLEAN
    /\ status \in {"input", "loading", "success", "error"}
    /\ proven \subseteq Numbers
    /\ status = "loading" => proving["standalone"] # NoNumber

PhoneInit ==
    /\ phone \in [number : Numbers, verified : {FALSE}]
    /\ shown = phone /\ reading = FALSE /\ answers = <<>>
    /\ otp = NoNumber /\ cooling = FALSE
    /\ dialog = FALSE /\ editing = FALSE /\ status = "input"
    /\ codes = [p \in Senders |-> NoNumber]
    /\ asking = [p \in Senders |-> FALSE]
    /\ proving = [p \in Senders |-> NoNumber]
    /\ puts = [n \in Numbers |-> "idle"]
    /\ proven = {} /\ renumbered = FALSE /\ unheard = FALSE
-----------------------------------------------------------------------------
\* What a page sends, and what the API requires.
ProveFields(p) == IF p = "profile" THEN {"user_id", "otp"} ELSE {"code"}
AskFields(p)   == IF p = "profile" THEN {"email", "action_type", "tenant_id"}
                                   ELSE {"scope"}
Proves(p)   == {"user_id", "otp"} \subseteq ProveFields(p)
Asks(p)     == {"email", "action_type"} \subseteq AskFields(p)

\* Where a code may be asked for: Verify beside an unverified number and Resend
\* in the dialog, and Resend of /verify-phone.
VerifyButton  == ~shown.verified \/ dialog
ResendButton  == status \in {"input", "error"}
CodeField     == dialog
Standalone    == status \in {"input", "error"}

UnderWay == Cardinality({p \in Senders : asking[p]})
            + Cardinality({p \in Senders : proving[p] # NoNumber})
            + Cardinality({n \in Numbers : puts[n] # "idle"})
            + Len(answers) + IF reading THEN 1 ELSE 0

Ask(p) ==
    /\ ~asking[p] /\ UnderWay < MaxUnderWay
    /\ asking' = [asking EXCEPT ![p] = TRUE]
    /\ UNCHANGED <<api, user, fields, edit, proving, past>>

AskProfile    == VerifyButton /\ Ask("profile")
AskStandalone == ResendButton /\ Ask("standalone")

\* Within a minute of the last code the API fails; else the new code replaces
\* the old one.  Success opens the dialog, or empties the other page's field.
CodeSent(p) ==
    /\ asking[p] /\ Asks(p) /\ ~cooling
    /\ otp' = phone.number /\ cooling' = TRUE
    /\ dialog' = (dialog \/ p = "profile")
    /\ status' = IF p = "standalone" THEN "input" ELSE status
    /\ codes' = IF p = "standalone" THEN [codes EXCEPT ![p] = NoNumber]
                                    ELSE codes
    /\ asking' = [asking EXCEPT ![p] = FALSE]
    /\ UNCHANGED <<phone, user, edit, proving, past>>

\* Refused, or lost when it may have been sent.
AskFailed(p) ==
    /\ asking[p]
    /\ asking' = [asking EXCEPT ![p] = FALSE]
    /\ \/ UNCHANGED <<otp, cooling>>
       \/ Asks(p) /\ ~cooling /\ otp' = phone.number /\ cooling' = TRUE
    /\ UNCHANGED <<phone, user, fields, edit, proving, past>>

CloseDialog ==
    /\ dialog
    /\ dialog' = FALSE
    /\ UNCHANGED <<api, user, codes, status, edit, jobs, past>>

TypePhoneCode(p, n) ==
    /\ IF p = "profile" THEN CodeField ELSE Standalone
    /\ codes[p] # n
    /\ codes' = [codes EXCEPT ![p] = n]
    /\ status' = IF p = "standalone" THEN "input" ELSE status
    /\ UNCHANGED <<api, user, dialog, edit, jobs, past>>

Prove(p) ==
    /\ codes[p] # NoNumber /\ proving[p] = NoNumber /\ UnderWay < MaxUnderWay
    /\ proving' = [proving EXCEPT ![p] = codes[p]]
    /\ UNCHANGED <<api, user, dialog, codes, edit, asking, past>>

ProveProfile    == CodeField /\ UNCHANGED status /\ Prove("profile")
ProveStandalone == Standalone /\ status' = "loading" /\ Prove("standalone")

\* Broken variant: any code will do while one is out.
RightIfSent(code) == otp # NoNumber

\* verify_phone of the API.
Right(code) == otp # NoNumber /\ code = otp

Accepts(p) == Proves(p) /\ Right(proving[p])

\* Broken variant: the user of the store is not fetched again.
PhoneVerifiedQuietly(p) ==
    /\ proving[p] # NoNumber /\ Accepts(p)
    /\ phone' = [phone EXCEPT !.verified = TRUE] /\ otp' = NoNumber
    /\ proven' = proven \cup {proving[p]}
    /\ proving' = [proving EXCEPT ![p] = NoNumber]
    /\ dialog' = FALSE
    /\ codes' = [codes EXCEPT ![p] = NoNumber]
    /\ UNCHANGED <<cooling, user, status, edit, asking, renumbered,
                   unheard>>

\* Success: the dialog is closed and emptied and GET /me/ sent; /verify-phone
\* shows its last view.
PhoneVerified(p) ==
    /\ proving[p] # NoNumber /\ Accepts(p)
    /\ phone' = [phone EXCEPT !.verified = TRUE] /\ otp' = NoNumber
    /\ proven' = proven \cup {proving[p]}
    /\ proving' = [proving EXCEPT ![p] = NoNumber]
    /\ IF p = "profile"
       THEN /\ dialog' = FALSE /\ codes' = [codes EXCEPT ![p] = NoNumber]
            /\ reading' = TRUE /\ UNCHANGED <<shown, answers, status>>
       ELSE /\ status' = "success" /\ UNCHANGED <<dialog, codes, user>>
    /\ UNCHANGED <<cooling, edit, asking, renumbered, unheard>>

PhoneRefused(p) ==
    /\ proving[p] # NoNumber /\ ~Accepts(p)
    /\ proving' = [proving EXCEPT ![p] = NoNumber]
    /\ status' = IF p = "standalone" THEN "error" ELSE status
    /\ UNCHANGED <<api, user, dialog, codes, edit, asking, past>>

\* The answer to an accepted code is lost.
PhoneUnheard(p) ==
    /\ proving[p] # NoNumber /\ Accepts(p)
    /\ phone' = [phone EXCEPT !.verified = TRUE] /\ otp' = NoNumber
    /\ proven' = proven \cup {proving[p]}
    /\ proving' = [proving EXCEPT ![p] = NoNumber]
    /\ unheard' = TRUE
    /\ UNCHANGED <<cooling, user, fields, edit, asking, renumbered>>
-----------------------------------------------------------------------------
OpenEdit(open) ==
    /\ editing # open
    /\ editing' = open
    /\ UNCHANGED <<api, user, fields, puts, jobs, past>>

\* A form waits for its own PUT.  The PUT of a form that was closed goes on, and a
\* form that is opened again has a mutation of its own: others may be under way.
SaveProfile(n) ==
    /\ editing /\ puts[n] = "idle" /\ UnderWay < MaxUnderWay
    /\ puts' = [puts EXCEPT ![n] = "sent"]
    /\ UNCHANGED <<api, user, fields, editing, jobs, past>>

\* PUT /me/ writes the number and leaves is_phone_verified as it was.
ProfileApplied(n) ==
    /\ puts[n] = "sent"
    /\ phone' = [phone EXCEPT !.number = n]
    /\ puts' = [puts EXCEPT ![n] = "applied"]
    /\ renumbered' = (renumbered \/ /\ n # phone.number
                                    /\ otp # NoNumber \/ phone.verified)
    /\ UNCHANGED <<otp, cooling, user, fields, editing, jobs, proven,
                   unheard>>

ProfileFailed(n) ==
    /\ puts[n] = "sent"
    /\ puts' = [puts EXCEPT ![n] = "idle"]
    /\ UNCHANGED <<api, user, fields, editing, jobs, past>>

\* The API reads the row that it answers with.
Reads(by) ==
    /\ answers' = Append(answers, [by |-> by, row |-> phone])
    /\ UNCHANGED <<api, shown, fields, editing, jobs, past>>

ProfileRead(n) ==
    /\ puts[n] = "applied" /\ Reads(n)
    /\ puts' = [puts EXCEPT ![n] = "idle"] /\ UNCHANGED reading

UserRead ==
    /\ reading /\ Reads(NoNumber)
    /\ reading' = FALSE /\ UNCHANGED puts

\* Whatever comes is stored, also when a newer row was stored before it.
Stored(i) ==
    /\ shown' = answers[i].row
    /\ answers' = RemoveAt(answers, i)
    /\ unheard' = (unheard \/ i # 1)
    /\ UNCHANGED <<api, reading, fields, puts, jobs, proven, renumbered>>

\* The form is closed, whether it is the one that sent the PUT or a later one.
ProfileSaved(i) ==
    /\ answers[i].by # NoNumber /\ Stored(i)
    /\ editing' = FALSE

UserStored(i) ==
    /\ answers[i].by = NoNumber /\ Stored(i)
    /\ UNCHANGED editing

\* A failure leaves the store alone.
AnswerLost(i) ==
    /\ answers' = RemoveAt(answers, i)
    /\ unheard' = TRUE
    /\ UNCHANGED <<api, shown, reading, fields, edit, jobs, proven,
                   renumbered>>

\* Ten minutes, and one minute.
OtpExpires ==
    /\ otp # NoNumber
    /\ otp' = NoNumber
    /\ UNCHANGED <<phone, cooling, user, fields, edit, jobs, past>>

CooldownEnds ==
    /\ cooling
    /\ cooling' = FALSE
    /\ UNCHANGED <<phone, otp, user, fields, edit, jobs, past>>
-----------------------------------------------------------------------------
PhoneNext ==
    \/ AskProfile \/ AskStandalone \/ ProveProfile \/ ProveStandalone
    \/ CloseDialog \/ UserRead \/ OtpExpires \/ CooldownEnds
    \/ \E i \in 1..Len(answers) : ProfileSaved(i) \/ UserStored(i) \/ AnswerLost(i)
    \/ \E p \in Senders :
          \/ CodeSent(p) \/ AskFailed(p)
          \/ PhoneVerified(p) \/ PhoneRefused(p) \/ PhoneUnheard(p)
          \/ \E n \in Numbers : TypePhoneCode(p, n)
    \/ \E open \in BOOLEAN : OpenEdit(open)
    \/ \E n \in Numbers :
          SaveProfile(n) \/ ProfileApplied(n) \/ ProfileFailed(n) \/ ProfileRead(n)

PhoneSpec == PhoneInit /\ [][PhoneNext]_phoneVars
-----------------------------------------------------------------------------
Quiet == ~reading /\ answers = <<>> /\ \A n \in Numbers : puts[n] = "idle"

\* The profile page shows the number and the badge that the API has, once nothing
\* is under way, unless an answer was lost or came before one read earlier.
ProfileIsCurrent == Quiet /\ ~unheard => shown = phone

\* What does not hold: "Profile updated successfully" (edit-profile-form.tsx:61) is
\* the last that is heard of the profile.  An answer that was read before another
\* and comes after it takes the newer row out of the store, and nothing fetches it
\* again.
StoredInOrder ==
    [][\A i \in 1..Len(answers) : ProfileSaved(i) \/ UserStored(i) => i = 1]_phoneVars

\* A number is verified by the code that was sent to it, unless it was changed
\* since: the code of the old number verifies the new one, and a number that was
\* verified hands its badge on.
VerifiedByItsCode ==
    phone.verified => phone.number \in proven \/ renumbered

\* The page that asks for the code accepts the right one.
RightCodeIsAccepted ==
    \A p \in Senders : proving[p] # NoNumber /\ Right(proving[p]) => Accepts(p)
=============================================================================
