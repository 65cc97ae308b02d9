----------------------------- MODULE Forwarding -----------------------------
(***************************************************************************)
(* Whose address a request comes from.  setXForwarded (proxy.go) rebuilds  *)
(* the X-Forwarded-For chain for the upstream; clientIP (main.go) reads    *)
(* the same header for the address that rate limits are charged to.        *)
(***************************************************************************)
EXTENDS Integers, SequencesExt

CONSTANTS Proxies,      \* addresses inside the trusted networks
          Outside,      \* addresses outside them
          Malformed     \* an entry, or a peer, that is not an address

Entries == Proxies \cup Outside \cup {Malformed}

ASSUME ForwardingAssumption == /\ Proxies \cap Outside = {}
                               /\ Malformed \notin Proxies \cup Outside

Trusted(ip) == ip \in Proxies

\* trustedForwardedFor walks from the right: it stops before an entry that
\* is no address, and after one that is not trusted.
trustedForwardedFor(chain) ==
  LET kept == {s \in Suffixes(chain) :
                 /\ Malformed \notin ToSet(s)
                 /\ \A i \in 2..Len(s) : Trusted(s[i])}
  IN CHOOSE s \in kept : \A t \in kept : Len(t) <= Len(s)

\* Mutant: the chain is believed whoever the peer is.
forwardedForUnchecked(remote, chain) ==
  trustedForwardedFor(chain) \o (IF remote = Malformed THEN <<>> ELSE <<remote>>)

\* The X-Forwarded-For of setXForwarded.
forwardedFor(remote, chain) ==
  (IF Trusted(remote) THEN trustedForwardedFor(chain) ELSE <<>>)
  \o (IF remote = Malformed THEN <<>> ELSE <<remote>>)

\* clientIP: the first entry from the right that is an address outside the
\* trusted networks, else the peer.
clientIP(remote, chain) ==
  LET outside == {i \in DOMAIN chain : chain[i] # Malformed /\ ~Trusted(chain[i])}
  IN IF Trusted(remote) /\ outside # {} THEN chain[Max(outside)] ELSE remote
-----------------------------------------------------------------------------
\* The address that limits are charged to is the peer's, or a trusted peer handed
\* it on with only trusted proxies behind the hop that saw it.
Authenticated(remote, chain) ==
  LET charged == clientIP(remote, chain)
  IN charged # remote =>
       \E i \in DOMAIN chain : /\ chain[i] = charged
                               /\ \A j \in (i + 1)..Len(chain) : Trusted(chain[j])

\* The upstream is told of no hop behind one that is not trusted, and, where
\* every entry is an address, limits are charged to the client that the
\* upstream is told of, an address no untrusted hop could have written.
AddressHonest(remote, chain) ==
  LET told == forwardedFor(remote, chain)
      charged == clientIP(remote, chain)
  IN /\ \A i \in 2..Len(told) : Trusted(told[i])
     /\ Malformed \notin ToSet(told)
     /\ remote # Malformed /\ Malformed \notin ToSet(chain) =>
          /\ charged = IF Trusted(told[1]) THEN remote ELSE told[1]
          /\ Authenticated(remote, chain)
=============================================================================
