---------------------------- MODULE EdgeVisitor ----------------------------
(***************************************************************************)
(* Who is asking the edge functions: the rate-limit key of an address and  *)
(* the origin pin (functions/api/_lib/clientip.js).                        *)
(*                                                                         *)
(* An address is what its text says once ports, brackets and zone indexes  *)
(* are off: IPv4 (or a host name), IPv6 with at most one "::" between head *)
(* and tail, where a dotted quad counts as the two groups it stands for,   *)
(* or text that is no address.                                             *)
(***************************************************************************)
EXTENDS EdgeConfig, Sequences

V4(quad) == [form |-> "v4", quad |-> quad]
V6(head, elided, tail) == [form |-> "v6", head |-> head, elided |-> elided, tail |-> tail]
Garbled == [form |-> "garbled"]
Absent == [form |-> "absent"]

Zero == "0"
MappedPrefix == <<Zero, Zero, Zero, Zero, Zero, "ffff">>

\* The eight groups of an IPv6 literal; none if it is not one.  "::" stands for
\* one group of zeros or more.
ExpandV6(a) ==
    LET written == Len(a.head) + Len(a.tail)
        zeros == [k \in 1 .. 8 - written |-> Zero] IN
    CASE a.elided /\ written < 8 -> a.head \o zeros \o a.tail
      [] ~a.elided /\ written = 8 -> a.head \o a.tail
      [] OTHER -> <<>>

\* IPv4 is its own key, also when it is mapped into IPv6; an IPv6 address
\* counts as its /64 network; whoever cannot be told shares one key.
IpKey(a) ==
    LET groups == ExpandV6(a) IN
    CASE a.form = "v4" -> <<"v4", a.quad>>
      [] a.form = "v6" /\ groups # <<>> ->
            IF SubSeq(groups, 1, 6) = MappedPrefix
            THEN <<"v4", SubSeq(groups, 7, 8)>>
            ELSE <<"v6", SubSeq(groups, 1, 4)>>
      [] OTHER -> <<"unknown">>

\* The address Cloudflare names; one the caller typed counts only where the
\* deployment trusts it.
AddressOf(source) ==
    IF source.cf # Absent THEN source.cf
    ELSE IF SwitchOf("DEMO_TRUST_XFF", FALSE) THEN source.xff
    ELSE Absent

\* The origin a request claims: its Origin header, or its Referer's.
ClaimedOrigin(h) == IF h.origin # "" THEN h.origin ELSE h.referer

\* checkOrigin: same-origin when the browser says anything, and from this
\* deployment's own origin or an allowed one.
SameSite(h) ==
    /\ h.site \in {"", "same-origin"}
    /\ IF ClaimedOrigin(h) = "" THEN h.site = "same-origin"
       ELSE ClaimedOrigin(h) \in AllowedOrigins \union {h.self}

=============================================================================
