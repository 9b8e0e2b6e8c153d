----------------------------- MODULE IOCEngine ------------------------------
(* internal/intelligence/ioc: indicators of five kinds are kept in maps      *)
(* under their normalised value, hashes behind a bloom filter and subnets in *)
(* a list besides, while feeds are loaded entry by entry and events are      *)
(* matched in between.                                                       *)
EXTENDS Naturals, Sequences, FiniteSets

CONSTANTS
    Values,         \* the spellings an indicator or an event may use
    Lower,          \* strings.ToLower
    Trim,           \* strings.TrimSpace
    Blank,          \* a value that is empty when trimmed
    Bits,           \* the two bits of a hash in the filter
    Members,        \* subnet -> the addresses it contains; other values are no subnet
    Addresses,      \* what netip.ParseAddr accepts
    Marks,          \* what else an entry holds: its severity and description
    MaxEntries      \* bound: entries added

ASSUME IOCAssumption ==
    /\ Lower \in [Values -> Values]
    /\ Trim \in [Values -> Values]
    /\ Addresses \subseteq Values
    /\ Blank \notin Addresses
    /\ \A a \in Addresses : Lower[Trim[a]] \in Addresses
    /\ DOMAIN Members \subseteq Values
    /\ MaxEntries \in Nat

VARIABLES
    hashes, ips, domains, urls,     \* value -> entry
    cidrs,          \* prefixes in the order of their arrival
    hashFilter,     \* the bits that are set
    feed            \* history: the entries added, in their order

iocVars == <<hashes, ips, domains, urls, cidrs, hashFilter, feed>>

Types == {"hash", "ip", "domain", "url", "other"}

IOCInit ==
    /\ hashes = <<>> /\ ips = <<>> /\ domains = <<>> /\ urls = <<>>
    /\ cidrs = <<>>
    /\ hashFilter = {}
    /\ feed = <<>>

Normal(v) == Lower[Trim[v]]

With(map, v, entry) == [u \in DOMAIN map \cup {v} |-> IF u = v THEN entry ELSE map[u]]

(* Mutant of SetBits: the second bit is forgotten.                           *)
SetBitsOnce(v) == hashFilter \cup {CHOOSE b \in Bits[v] : TRUE}

SetBits(v) == hashFilter \cup Bits[v]

(* A subnet is listed once more when it is added again.                      *)
Listed(v, entry) ==
    IF v \in DOMAIN Members THEN Append(cidrs, [prefix |-> v, entry |-> entry]) ELSE cidrs

(* AddEntry; the loaders of feeds call it for each record they accept.       *)
AddEntry(type, raw, mark) ==
    LET v == Normal(raw)
        entry == [value |-> raw, mark |-> mark]
    IN  /\ Len(feed) < MaxEntries
        /\ v # Blank
        /\ hashes' = IF type \in {"hash", "other"} THEN With(hashes, v, entry) ELSE hashes
        /\ hashFilter' = IF type \in {"hash", "other"} THEN SetBits(v) ELSE hashFilter
        /\ ips' = IF type = "ip" THEN With(ips, v, entry) ELSE ips
        /\ cidrs' = IF type = "ip" THEN Listed(v, entry) ELSE cidrs
        /\ domains' = IF type = "domain" THEN With(domains, v, entry) ELSE domains
        /\ urls' = IF type = "url" THEN With(urls, v, entry) ELSE urls
        /\ feed' = Append(feed, [type |-> type, value |-> raw, mark |-> mark])

IOCNext == \E type \in Types, raw \in Values, mark \in Marks : AddEntry(type, raw, mark)

IOCSpec == IOCInit /\ [][IOCNext]_iocVars

-----------------------------------------------------------------------------
(* MatchEvent, one kind of evidence at a time.                               *)

(* A hash of a process or a file: the filter first, then the map.            *)
MatchHash(h) ==
    LET v == Lower[h]
    IN  IF Bits[v] \subseteq hashFilter /\ v \in DOMAIN hashes THEN {hashes[v]} ELSE {}

(* A destination: the address itself, or else the first subnet it is in.     *)
MatchAddress(dst) ==
    LET v == Normal(dst)
        nets == {i \in DOMAIN cidrs : v \in Addresses /\ v \in Members[cidrs[i].prefix]}
    IN  CASE v = Blank                  -> {}
          [] v \in DOMAIN ips \ {Blank} -> {ips[v]}
          [] OTHER                      -> {cidrs[i].entry : i \in {k \in nets : \A n \in nets : k <= n}}

(* The same destination may be the name of a domain besides.                 *)
MatchDomain(dst) ==
    LET v == Normal(dst) IN IF v # Blank /\ v \in DOMAIN domains THEN {domains[v]} ELSE {}

(* A command line is the set of the lower-case values it contains, the blank *)
(* one among them.                                                           *)
MatchCmdLine(line) ==
    {domains[d] : d \in DOMAIN domains \cap line} \cup {urls[u] : u \in DOMAIN urls \cap line}

(* An enrichment, which is not trimmed.                                      *)
MatchEnriched(map, v) ==
    IF v # Blank /\ Lower[v] \in DOMAIN map THEN {map[Lower[v]]} ELSE {}

-----------------------------------------------------------------------------
(* Whatever was given is found: the newest indicator of the types with the   *)
(* normal form v, as the feeds tell it.                                      *)
Newest(types, v) ==
    LET given == {i \in DOMAIN feed : feed[i].type \in types /\ Normal(feed[i].value) = v}
    IN  {[value |-> feed[i].value, mark |-> feed[i].mark] :
            i \in {k \in given : \A n \in given : n <= k}}

(* The indicators of the subnets that contain dst.                           *)
OfSubnets(dst) ==
    {[value |-> feed[i].value, mark |-> feed[i].mark] :
        i \in {k \in DOMAIN feed :
                  /\ feed[k].type = "ip"
                  /\ Normal(feed[k].value) \in DOMAIN Members
                  /\ Normal(dst) \in Members[Normal(feed[k].value)]}}

(* An event is matched by exactly the newest entry of an indicator it shows: *)
(* the filter in front of the map hides none, and no entry matches what it   *)
(* does not name.  An address is found by itself, or else by a subnet it is  *)
(* in, however many entries were added for either (of the subnets' entries,  *)
(* one that is not the newest may be the one that is told); a destination    *)
(* and an enrichment are found by the domain or URL they name.               *)
IndicatorsAreFound ==
    /\ \A h \in Values \ {Blank} : MatchHash(h) = Newest({"hash", "other"}, Lower[h])
    /\ \A line \in SUBSET {Normal(v) : v \in Values} :
           MatchCmdLine(line \cup {Blank}) =
               UNION {Newest({"domain"}, v) \cup Newest({"url"}, v) : v \in line \ {Blank}}
    /\ \A dst \in Addresses :
           IF Newest({"ip"}, Normal(dst)) # {}
           THEN MatchAddress(dst) = Newest({"ip"}, Normal(dst))
           ELSE /\ MatchAddress(dst) \subseteq OfSubnets(dst)
                /\ OfSubnets(dst) # {} => MatchAddress(dst) # {}
    /\ \A v \in Values \ {Blank} :
           /\ MatchDomain(v) = Newest({"domain"}, Normal(v))
           /\ MatchEnriched(domains, v) = Newest({"domain"}, Lower[v])
           /\ MatchEnriched(urls, v) = Newest({"url"}, Lower[v])
=============================================================================
