------------------------------ MODULE Address ------------------------------
(***************************************************************************)
(* Socket addresses (socket/Address.ipp).  An address is a family, a host    *)
(* and a port; the path of a Local one takes the place of the host.         *)
(***************************************************************************)
EXTENDS Naturals, Sequences, SequencesExt

CONSTANTS
  AnyHost, Multicast,  \* the unset host and a host of a multicast group
  PathLength       \* the longest path a Local address can hold

\* Address() and clear(): IPv4, host 0 and port 0.
Unset == [family |-> "IPv4", host |-> AnyHost, port |-> 0]

\* setAddress of a host.
HostAddress(family, host, port) == [family |-> family, host |-> host, port |-> port]

\* setAddress of a path, which is cut to what sun_path can hold.
PathAddress(path) ==
  [family |-> "Local", port |-> 0,
   host |-> SubSeq(path, 1, IF Len(path) > PathLength THEN PathLength ELSE Len(path))]

SetPort(a, port) == IF a.family = "Local" THEN a ELSE [a EXCEPT !.port = port]
GetPort(a) == IF a.family = "Local" THEN 0 ELSE a.port

\* operator==: two Local addresses are never equal.
Same(a, b) == a.family = b.family /\ a.family # "Local" /\ a = b

IsMulticast(a) == a.family # "Local" /\ a.host = Multicast

\* resolve(): the answers of getaddrinfo without a port, of which a repetition
\* is dropped; an answer of another family counts as the unset address.
Resolved(answers) ==
  LET Next(result, answer) ==
        LET a == IF answer.family \in {"IPv4", "IPv6"}
                 THEN HostAddress(answer.family, answer.host, 0) ELSE Unset
        IN IF result # << >> /\ Same(a, Last(result)) THEN result ELSE Append(result, a)
  IN FoldLeft(Next, << >>, answers)
-----------------------------------------------------------------------------
\* resolve() keeps every host that getaddrinfo knows, in its order, and gives none
\* twice when equal ones are adjacent, as those of the socket types are; a port can
\* then be set on each that is not Local (Address.ipp:128-150, 198-251).
ResolvedIsExact(answers) ==
  LET Known(i) == HostAddress(answers[i].family, answers[i].host, 0)
      found == Resolved(answers)
      Adjacent == \A i, j, k \in DOMAIN answers :
                    i < j /\ j < k /\ answers[i] = answers[k] => answers[i] = answers[j]
  IN /\ ToSet(found) = {Known(i) : i \in DOMAIN answers}
     /\ Adjacent => \A i, j \in DOMAIN found : i # j => ~Same(found[i], found[j])
     /\ \A i \in DOMAIN found : GetPort(SetPort(found[i], 7)) = 7 /\ ~Same(SetPort(found[i], 7), found[i])
=============================================================================
