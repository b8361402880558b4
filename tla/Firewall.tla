-------------------------------- MODULE Firewall --------------------------------
(***************************************************************************)
(* The Go firewall appended to src/transactions/transactions.cpp (lines   *)
(* 385-476).  A Firewall is a record of its three sets (the Go maps of     *)
(* bools, an absent key reading false) and of the lines of its log file,   *)
(* each line a record [ip, port, reason]: the timestamp and wording of     *)
(* logUnauthorizedAccess play no part.  The file is opened with O_APPEND, *)
(* so lines of earlier runs stay in front.                                 *)
(***************************************************************************)
EXTENDS Naturals, Sequences

\* NewFirewall(whitelistedIPs, whitelistedPorts, logFilePath) over a log
\* file holding lines; the OpenFile error path returns nil (Nil), and
\* every method called on nil panics
Nil == [nil |-> TRUE]
NewFirewall(ips, ports, lines, opened) ==
    IF opened
    THEN [whitelistedIPs |-> ips, whitelistedPorts |-> ports, blockedIPs |-> {}, log |-> lines]
    ELSE Nil

\* logUnauthorizedAccess: one line appended to the file
LogUnauthorizedAccess(fw, ip, port, reason) ==
    [fw EXCEPT !.log = Append(@, [ip |-> ip, port |-> port, reason |-> reason])]

\* isIPWhitelisted, isPortWhitelisted, isIPBlocked
IsIPWhitelisted(fw, ip) == ip \in fw.whitelistedIPs
IsPortWhitelisted(fw, port) == port \in fw.whitelistedPorts
IsIPBlocked(fw, ip) == ip \in fw.blockedIPs

\* BlockIP
BlockIP(fw, ip) == [fw EXCEPT !.blockedIPs = @ \cup {ip}]

\* A faulty UnblockIP that leaves the map as it is.
UnblockIPKeep(fw, ip) == fw

\* UnblockIP: delete(fw.blockedIPs, ip)
UnblockIP(fw, ip) == [fw EXCEPT !.blockedIPs = @ \ {ip}]

\* SimulateConnection: the first check that fails is logged, in this order
SimulateConnection(fw, ip, port) ==
    IF IsIPBlocked(fw, ip) THEN LogUnauthorizedAccess(fw, ip, port, "Blocked IP")
    ELSE IF ~IsIPWhitelisted(fw, ip) THEN LogUnauthorizedAccess(fw, ip, port, "IP not whitelisted")
    ELSE IF ~IsPortWhitelisted(fw, port) THEN LogUnauthorizedAccess(fw, ip, port, "Port not whitelisted")
    ELSE fw

=============================================================================
