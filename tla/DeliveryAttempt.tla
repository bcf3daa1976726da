-------------------------- MODULE DeliveryAttempt --------------------------
(***************************************************************************)
(* One delivery attempt from the attachments to the verdict: the files are *)
(* loaded, the attempt is marked, smtpTransport.ts composes the mail and   *)
(* hands it to nodemailer, and what nodemailer reports is classified.      *)
(* OutboxDelivery takes from here what its Submit may answer.              *)
(***************************************************************************)
EXTENDS AttachmentLoad

VARIABLES step,     \* load, compose, a phase of the SMTP dialogue, or over
          accepted, \* the server has taken responsibility for the mail
          refusal,  \* the class of the reply that refused it, if one came: 4, 5
          verdict   \* what the attempt records

attemptVars == <<vars, step, accepted, refusal, verdict>>

-----------------------------------------------------------------------------
(* The SMTP dialogue, external: nodemailer's errors as the code reads them. *)

\* The phases in their order; body: all of the mail is on its way to the server.
After == [connect |-> "greeting", greeting |-> "hello", hello |-> "tls", tls |-> "auth",
          auth |-> "mail", mail |-> "rcpt", rcpt |-> "data", data |-> "body"]

\* code and command of a refusal in each phase; requireTLS also fails at mail.
Refusing ==
  [greeting |-> [code |-> "EPROTOCOL", command |-> "CONN"],
   hello    |-> [code |-> "EPROTOCOL", command |-> "EHLO"],
   tls      |-> [code |-> "ETLS", command |-> "STARTTLS"],
   auth     |-> [code |-> "EAUTH", command |-> "AUTH"],
   mail     |-> [code |-> "EENVELOPE", command |-> "MAIL FROM"],
   rcpt     |-> [code |-> "EENVELOPE", command |-> "RCPT TO"],
   data     |-> [code |-> "EENVELOPE", command |-> "DATA"],
   body     |-> [code |-> "EMESSAGE", command |-> "DATA"]]

Error(code, command, reply, syscall) ==
  [code |-> code, command |-> command, reply |-> reply, syscall |-> syscall]

\* Errors no reply is the cause of.  A socket that fails is labelled CONN in every
\* phase, and without any label when it just ends.
Breaking(s) ==
  {Error("ESOCKET", "CONN", 0, "read"), Error("ECONNECTION", "CONN", 0, "none"),
   Error("ETIMEDOUT", "CONN", 0, "none"), Error("none", "none", 0, "none")}
    \cup CASE s = "connect" -> {Error("ESOCKET", "CONN", 0, "connect"),
                                Error("EDNS", "CONN", 0, "getaddrinfo")}
           [] s = "tls"     -> {Error("ETLS", "CONN", 0, "none")}
           [] s = "auth"    -> {Error("EAUTH", "AUTH", 0, "none")}
           [] s = "mail"    -> {Error("EENVELOPE", "API", 0, "none"),
                                Error("EMESSAGE", "MAIL FROM", 0, "none"),
                                Error("EREQUIRETLS", "MAIL FROM", 0, "none")}
           [] OTHER         -> {}

-----------------------------------------------------------------------------
(* classifySmtpFailure and decideTransportOutcome                          *)

\* isPreSubmissionCommand; alone it would take the label CONN for proof that nothing
\* was submitted.
IsPreSubmission(e) ==
  e.command \in {"CONN", "EHLO", "HELO", "AUTH", "MAIL FROM", "RCPT TO", "API"}

\* An envelope that is wrong, found before anything was submitted.
IsPreSubmissionEnvelope(e) == e.code = "EENVELOPE" /\ IsPreSubmission(e)

\* The first of these that applies.
Classify(e) ==
  IF e.code \in {"EAUTH", "EREQUIRETLS"} THEN "Permanent"
  ELSE IF e.reply # 0 THEN IF e.reply = 4 THEN "Transient" ELSE "Permanent"
  ELSE IF e.syscall = "connect" THEN "Transient"
  ELSE IF IsPreSubmissionEnvelope(e) THEN "Permanent"
  ELSE "Unknown"

DecideTransportOutcome ==
  [Accepted  |-> "Sent",
   Transient |-> "Retry",
   Permanent |-> "FailedPermanent",
   Unknown   |-> "FailedUnknown"]

Record(outcome) ==
  /\ step' = "over"
  /\ verdict' = DecideTransportOutcome[outcome]

-----------------------------------------------------------------------------
(* Steps of the attempt                                                    *)

Load ==
  /\ step = "load"
  /\ Next
  /\ UNCHANGED <<step, accepted, refusal, verdict>>

\* Files that are too large fail the mail, a failed download is tried again.
LoadEnds ==
  /\ step = "load"
  /\ \/ phase = "ok" /\ step' = "compose" /\ UNCHANGED verdict
     \/ phase = "exceeded" /\ Record("Permanent")
     \/ phase = "failed" /\ Record("Transient")
  /\ UNCHANGED <<vars, accepted, refusal>>

\* The DeliveryStarted mark is refused: a retry, with nothing recorded.
MarkFails ==
  /\ step = "compose"
  /\ step' = "over"
  /\ UNCHANGED <<vars, accepted, refusal, verdict>>

Compose ==
  /\ step = "compose"
  /\ \/ Record("Permanent")
     \/ step' = "connect" /\ UNCHANGED verdict
  /\ UNCHANGED <<vars, accepted, refusal>>

InDialogue == step \in DOMAIN Refusing \cup {"connect"}

\* The server goes along.
Advance ==
  /\ step \in DOMAIN After
  /\ step' = After[step]
  /\ UNCHANGED <<vars, accepted, refusal, verdict>>

\* The server has the whole mail and takes it; its reply is under way.
Accept ==
  /\ step = "body"
  /\ ~accepted
  /\ accepted' = TRUE
  /\ UNCHANGED <<vars, step, refusal, verdict>>

\* sendMail resolves.
Resolves ==
  /\ step = "body"
  /\ accepted
  /\ Record("Accepted")
  /\ UNCHANGED <<vars, accepted, refusal>>

\* The server answers 4xx or 5xx.
Refuse ==
  /\ step \in DOMAIN Refusing
  /\ ~accepted
  /\ \E reply \in {4, 5}:
       /\ refusal' = reply
       /\ Record(Classify(Error(Refusing[step].code, Refusing[step].command, reply, "none")))
  /\ UNCHANGED <<vars, accepted>>

\* The dialogue breaks; the reply of a server that accepted is lost with it.
Break ==
  /\ InDialogue
  /\ \E e \in Breaking(step): Record(Classify(e))
  /\ UNCHANGED <<vars, accepted, refusal>>

-----------------------------------------------------------------------------

AttemptInit ==
  /\ Init
  /\ step = "load"
  /\ accepted = FALSE
  /\ refusal = 0
  /\ verdict = "none"

AttemptNext ==
  \/ Load \/ LoadEnds \/ MarkFails \/ Compose
  \/ Advance \/ Accept \/ Resolves \/ Refuse \/ Break

AttemptSpec == AttemptInit /\ [][AttemptNext]_attemptVars

-----------------------------------------------------------------------------
(* Properties                                                              *)

\* "Classify only failures proven to occur before SMTP acceptance as retryable":
\* wherever the dialogue breaks, a mail the server has taken is neither tried again
\* nor recorded as failed for good, and one recorded as sent was taken.  A refusal
\* that came is never called unknown, and one that is permanent is not tried again.
VerdictTruthful ==
  /\ verdict \in {"Retry", "FailedPermanent"} => ~accepted
  /\ verdict = "Sent" => accepted
  /\ refusal # 0 => verdict # "FailedUnknown"
  /\ refusal = 5 => verdict = "FailedPermanent"

=============================================================================
