------------------------- MODULE SessionRevocation -------------------------
(***************************************************************************)
(* Sessions with a record of what logout and password changes revoked.     *)
(***************************************************************************)
EXTENDS Sessions

VARIABLE revoked    \* the refresh tokens a DEL has removed

InitRevocation == Init /\ revoked = {}

(* delete_refresh_token, as in Sessions. *)
RevokeStored(w) ==
  /\ Revoke(w)
  /\ revoked' = revoked \cup
       {refresh[u].token : u \in {v \in DOMAIN refresh : v = req[w].user}}

NextRevocation ==
  \/ \E w \in Workers : RevokeStored(w)
  \/ NextBesidesRevoke /\ UNCHANGED revoked

SpecRevocation == InitRevocation /\ [][NextRevocation]_<<vars, revoked>>

(* redisdb.rs says of the DEL: "This invalidates the refresh token,        *)
(* forcing re-authentication."  A token it removed is not accepted again.  *)
RevokedStaysRevoked == \A t \in revoked : ~Stored(t)

=============================================================================
