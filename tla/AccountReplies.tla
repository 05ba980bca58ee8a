--------------------------- MODULE AccountReplies ---------------------------
(***************************************************************************)
(* Accounts with the answers of the handlers that mail a link: announced   *)
(* holds the tokens for which the client was answered with success.        *)
(***************************************************************************)
EXTENDS Accounts

VARIABLE announced

InitReplies == Init /\ announced = {}

(* send_email returned Ok: all three handlers answer success. *)
ReplyAfterOk(w) ==
  /\ MailSent(w) \/ MailRefused(w)
  /\ announced' = announced \cup {req[w].token}

(* send_email returned Err: only register answers success. *)
ReplyAfterErr(w) ==
  /\ MailUnbuilt(w)
  /\ announced' = announced \cup {t \in {req[w].token} : issued[t].kind = "verify"}

NextReplies ==
  \/ \E w \in Workers : ReplyAfterOk(w) \/ ReplyAfterErr(w)
  \/ NextBesidesMail /\ UNCHANGED announced

SpecReplies == InitReplies /\ [][NextReplies]_<<vars, announced>>

(* The answer of forgot_password: "Password reset link has been sent to    *)
(* your email."                                                            *)
AnnouncedLinkWasSent ==
  \A t \in announced : issued[t].kind = "reset" => t \in delivered

=============================================================================
