---------------------------- MODULE RuntimeProofs ----------------------------
(***************************************************************************)
(* Proofs about what runs a command: the plugin manager (PluginHost) for   *)
(* any libraries, calls and threads; the psql behind the PostgreSQL plugin *)
(* (PostgresTool) for any number of processes; the http domain             *)
(* (HttpDomain) for any answers, retries and spec; the GitHub and GitLab   *)
(* plugins (Forge) for any calls and delays; and the executor (Executor)   *)
(* for any number of calls, ids, slots and threads.                        *)
(***************************************************************************)
EXTENDS Executor, PluginHost, PostgresTool, HttpDomain, Forge, FiniteSetTheorems,
        SequenceTheorems, WellFoundedInduction, TLAPS

-----------------------------------------------------------------------------
(* The plugin manager.  Loading goes through the libraries in one order, so *)
(* that what serves a domain is the last sound library so far.              *)

Before(p, q) == load_dynamic_plugins_from_dirs(p, q)
LoadedLibraries == Libraries(layout) \ pending
Serves(p) == load(p.library) /\ p.library.domain \notin Reserved

\* Of the libraries loaded so far, the last one that is sound has its domain.
DiscoveryInv ==
    /\ layout \in Layouts /\ pending \subseteq Libraries(layout)
    /\ \A p \in LoadedLibraries, q \in pending : Before(p, q)
    /\ \A p \in LoadedLibraries : Serves(p) => p.library.domain \in Domains
    /\ \A d \in Domains : \E p \in LoadedLibraries :
         /\ Serves(p) /\ p.library.domain = d /\ dynamic[d] = p.library
         /\ \A q \in LoadedLibraries : Serves(q) /\ q.library.domain = d => q = p \/ Before(q, p)

\* The registry that is kept is the one that would be built.
RegistryInv == cached = NoRegistry \/ cached = build_typed_registry

CallFields == {"at", "ask", "plugin", "domain", "want", "given", "typed", "barred"}

\* A call on its way has the owner of its domain, or none yet; and has been
\* given nothing but what it asked for.
OwnerKept(k) ==
    IF k.typed # Untyped
    THEN k.domain \notin DOMAIN HostPlugins => k.plugin = ByDomain(k.domain) /\ ~k.barred
    ELSE k.plugin # Nobody => k.plugin = ByDomain(k.domain) /\ ~k.barred
GivenKept(k) ==
    /\ DOMAIN k.given \subseteq DOMAIN k.want
    /\ \A s \in DOMAIN k.given :
         /\ k.given[s].id = k.want[s]
         /\ k.typed # Untyped => k.given[s].kind \in KindsOf(k.typed.descriptor.slots, s)
    /\ k.typed # Untyped =>
         k.want = k.ask.credentials /\ DOMAIN k.want \subseteq SlotNames(k.typed.descriptor.slots)
CallKept(k) ==
    \/ k.at \in {"free", "done"} /\ "domain" \notin DOMAIN k
    \/ /\ k.at \in {"resolving", "running"} /\ DOMAIN k = CallFields /\ Serving
       /\ k.barred \in BOOLEAN /\ (k.barred => k.domain \in disabled)
       /\ OwnerKept(k) /\ GivenKept(k)
       /\ k.at = "running" => k.plugin # Nobody /\ DOMAIN k.want \subseteq DOMAIN k.given

CallsInv == DOMAIN call = Calls /\ \A c \in Calls : CallKept(call[c])

HostInv == DiscoveryInv /\ RegistryInv /\ CallsInv

-----------------------------------------------------------------------------
(* Discovery.                                                              *)

LEMMA LibraryFacts ==
  ASSUME layout \in Layouts, NEW p \in Libraries(layout)
  PROVE  /\ p = [dir |-> p.dir, library |-> p.library]
         /\ p.dir \in 1 .. Len(layout) /\ p.library \in layout[p.dir] /\ p.library.file \in Nat
         /\ Len(layout) \in Nat /\ DOMAIN layout = 1 .. Len(layout)
<1>1. Len(layout) \in Nat /\ DOMAIN layout = 1 .. Len(layout)
  BY PluginAssumption
<1>2. PICK i \in DOMAIN layout : p \in {[dir |-> i, library |-> x] : x \in layout[i]}
  BY DEF Libraries
<1>3. PICK x \in layout[i] : p = [dir |-> i, library |-> x]
  BY <1>2
<1>4. x.file \in Nat
  BY PluginAssumption
<1> QED
  BY <1>1, <1>3, <1>4

LEMMA DiscoveryInitInv == HostInit => DiscoveryInv
<1> SUFFICES ASSUME HostInit PROVE DiscoveryInv
  OBVIOUS
<1>1. LoadedLibraries = {} /\ layout \in Layouts /\ pending = Libraries(layout)
  BY DEF HostInit, LoadedLibraries
<1>2. Domains = {}
  BY DEF HostInit, Domains
<1> QED
  BY <1>1, <1>2 DEF DiscoveryInv

LEMMA DiscoveryKept == ASSUME DiscoveryInv, UNCHANGED <<layout, pending, dynamic>> PROVE DiscoveryInv'
<1>1. LoadedLibraries' = LoadedLibraries /\ Domains' = Domains
  BY DEF LoadedLibraries, Domains
<1> QED
  BY <1>1 DEF DiscoveryInv, Serves, Before

LEMMA LoadDiscovery == ASSUME DiscoveryInv, LoadNext PROVE DiscoveryInv'
<1>0. layout \in Layouts /\ UNCHANGED layout /\ pending \subseteq Libraries(layout)
  BY DEF DiscoveryInv, LoadNext
<1>1. PICK p \in pending :
        /\ \A q \in pending \ {p} : Before(p, q)
        /\ pending' = pending \ {p}
        /\ IF Serves(p) THEN dynamic' = Extend(dynamic, p.library.domain, p.library)
           ELSE UNCHANGED dynamic
  BY DEF LoadNext, Serves, Before
<1>2. LoadedLibraries' = LoadedLibraries \cup {p} /\ p \notin LoadedLibraries /\ LoadedLibraries \subseteq Libraries(layout)
      /\ pending' \subseteq pending /\ p \in Libraries(layout)
  BY <1>0, <1>1 DEF LoadedLibraries
<1>3. \A o \in LoadedLibraries, q \in pending : Before(o, q)
  BY DEF DiscoveryInv
<1>4. \A o \in LoadedLibraries', q \in pending' : Before(o, q)
  BY <1>1, <1>2, <1>3
<1>5. CASE ~Serves(p)
  <2>1. Domains' = Domains /\ dynamic' = dynamic
    BY <1>1, <1>5 DEF Domains
  <2>2. \A o \in LoadedLibraries' : Serves(o) => o \in LoadedLibraries
    BY <1>2, <1>5
  <2>3. \A o \in LoadedLibraries' : Serves(o) => o.library.domain \in Domains
    BY <2>2 DEF DiscoveryInv
  <2>4. ASSUME NEW d \in Domains
        PROVE \E o \in LoadedLibraries' :
                /\ Serves(o) /\ o.library.domain = d /\ dynamic[d] = o.library
                /\ \A q \in LoadedLibraries' : Serves(q) /\ q.library.domain = d => q = o \/ Before(q, o)
    <3>1. PICK o \in LoadedLibraries :
                /\ Serves(o) /\ o.library.domain = d /\ dynamic[d] = o.library
                /\ \A q \in LoadedLibraries : Serves(q) /\ q.library.domain = d => q = o \/ Before(q, o)
      BY DEF DiscoveryInv
    <3> QED
      BY <1>2, <2>2, <3>1
  <2> QED
    BY <1>0, <1>2, <1>4, <2>1, <2>3, <2>4 DEF DiscoveryInv, Serves, Before
<1>6. CASE Serves(p)
  <2> DEFINE e == p.library.domain
  <2>1. /\ Domains' = Domains \cup {e} /\ dynamic'[e] = p.library
        /\ \A d \in Domains : d # e => dynamic'[d] = dynamic[d]
    <3>1. dynamic' = Extend(dynamic, e, p.library)
      BY <1>1, <1>6
    <3> HIDE DEF e
    <3> QED
      BY <3>1 DEF Extend, Domains
  <2>2. \A o \in LoadedLibraries' : Serves(o) => o.library.domain \in Domains'
    BY <1>2, <2>1 DEF DiscoveryInv
  <2>3. ASSUME NEW d \in Domains'
        PROVE \E o \in LoadedLibraries' :
                /\ Serves(o) /\ o.library.domain = d /\ dynamic'[d] = o.library
                /\ \A q \in LoadedLibraries' : Serves(q) /\ q.library.domain = d => q = o \/ Before(q, o)
    <3>1. CASE d = e
      <4>1. \A q \in LoadedLibraries' : q = p \/ Before(q, p)
        BY <1>2, <1>3
      <4> QED
        BY <1>2, <1>6, <2>1, <3>1, <4>1
    <3>2. CASE d # e
      <4>1. d \in Domains
        BY <2>1, <3>2
      <4>2. PICK o \in LoadedLibraries :
                /\ Serves(o) /\ o.library.domain = d /\ dynamic[d] = o.library
                /\ \A q \in LoadedLibraries : Serves(q) /\ q.library.domain = d => q = o \/ Before(q, o)
        BY <4>1 DEF DiscoveryInv
      <4> QED
        BY <1>2, <2>1, <3>2, <4>1, <4>2
    <3> QED
      BY <3>1, <3>2
  <2> QED
    BY <1>0, <1>2, <1>4, <2>2, <2>3 DEF DiscoveryInv, Serves, Before
<1> QED
  BY <1>5, <1>6

\* When nothing is left to load, a domain some library serves is served by the
\* one the configuration prefers.
LEMMA PreferredServes ==
  ASSUME DiscoveryInv, Serving, NEW d, \E i \in DOMAIN layout : Candidates(i, d) # {}
  PROVE  d \in Domains /\ ByDomain(d) = Preferred(d)
<1>0. layout \in Layouts /\ LoadedLibraries = Libraries(layout)
  BY DEF DiscoveryInv, LoadedLibraries, Serving
<1>1. \A i \in DOMAIN layout : \A l \in Candidates(i, d) :
        LET o == [dir |-> i, library |-> l] IN o \in Libraries(layout) /\ Serves(o) /\ o.library.domain = d
  BY DEF Candidates, Libraries, Serves
<1>2. d \in Domains
  <2>1. PICK i \in DOMAIN layout : Candidates(i, d) # {}
    OBVIOUS
  <2>2. PICK l \in Candidates(i, d) : TRUE
    BY <2>1
  <2> DEFINE o == [dir |-> i, library |-> l]
  <2>3. o \in Libraries(layout) /\ Serves(o) /\ o.library.domain = d
    BY <1>1
  <2> QED
    BY <1>0, <2>3 DEF DiscoveryInv
<1>3. PICK p \in Libraries(layout) :
        /\ Serves(p) /\ p.library.domain = d /\ dynamic[d] = p.library
        /\ \A q \in Libraries(layout) : Serves(q) /\ q.library.domain = d => q = p \/ Before(q, p)
  BY <1>0, <1>2 DEF DiscoveryInv
<1>4. /\ p.dir \in 1 .. Len(layout) /\ Len(layout) \in Nat /\ DOMAIN layout = 1 .. Len(layout)
      /\ p.library.file \in Nat /\ p.library \in layout[p.dir]
  BY <1>0, LibraryFacts
<1>5. p.library \in Candidates(p.dir, d)
  BY <1>3, <1>4 DEF Candidates, Serves
<1>6. ASSUME NEW i \in DOMAIN layout, NEW l \in Candidates(i, d)
      PROVE  i >= p.dir /\ (i = p.dir => l.file \in Nat /\ l.file <= p.library.file)
  <2> DEFINE o == [dir |-> i, library |-> l]
  <2>1. o \in Libraries(layout) /\ Serves(o) /\ o.library.domain = d /\ o.dir = i /\ o.library = l
    BY <1>1
  <2>2. l.file \in Nat /\ i \in Nat
    BY <1>0, <1>4, <2>1, LibraryFacts
  <2>3. o = p \/ Before(o, p)
    BY <1>3, <2>1
  <2> HIDE DEF o
  <2> QED
    BY <1>4, <2>1, <2>2, <2>3 DEF Before, load_dynamic_plugins_from_dirs, FileOrder
<1> DEFINE Earliest(i) == Candidates(i, d) # {} /\ \A j \in 1..(i - 1) : Candidates(j, d) = {}
           f == CHOOSE i \in DOMAIN layout : Earliest(i)
           Latest(l) == \A k \in Candidates(f, d) : k.file <= l.file
           b == CHOOSE l \in Candidates(f, d) : Latest(l)
<1>7. \A j \in 1 .. (p.dir - 1) : j \in DOMAIN layout /\ Candidates(j, d) = {}
  BY <1>4, <1>6
<1>8. Earliest(p.dir)
  BY <1>5, <1>7
<1>9. f \in DOMAIN layout /\ Earliest(f)
  BY <1>4, <1>8
<1>10. f = p.dir
  <2>1. f >= p.dir
    BY <1>6, <1>9
  <2>2. ~(p.dir < f)
    <3>1. p.dir < f => p.dir \in 1 .. (f - 1)
      BY <1>4, <1>9
    <3> QED
      BY <1>5, <1>9, <3>1
  <2> QED
    BY <1>4, <1>9, <2>1, <2>2
<1> HIDE DEF f
<1>11. Latest(p.library) /\ p.library \in Candidates(f, d)
  BY <1>4, <1>5, <1>6, <1>10
<1>12. b \in Candidates(f, d) /\ Latest(b)
  BY <1>11
<1> HIDE DEF b
<1>13. b = p.library
  <2>1. b.file \in Nat /\ b.file <= p.library.file /\ p.library.file <= b.file
    BY <1>4, <1>6, <1>10, <1>11, <1>12
  <2>2. b \in layout[p.dir]
    BY <1>10, <1>12 DEF Candidates
  <2> QED
    BY <1>0, <1>4, <2>1, <2>2, PluginAssumption
<1>14. Preferred(d) = b
  BY DEF Preferred, b, f
<1> QED
  BY <1>2, <1>3, <1>13, <1>14 DEF ByDomain

-----------------------------------------------------------------------------
(* The registry.                                                           *)

LEMMA RegistryKept == ASSUME RegistryInv, UNCHANGED <<dynamic, cached>> PROVE RegistryInv'
<1>1. build_typed_registry' = build_typed_registry
  BY DEF build_typed_registry, Domains
<1> QED
  BY <1>1 DEF RegistryInv

LEMMA RegistryBuilt == ASSUME RegistryInv, UNCHANGED dynamic, cached' = typed_registry PROVE RegistryInv'
<1>1. build_typed_registry' = build_typed_registry
  BY DEF build_typed_registry, Domains
<1> QED
  BY <1>1 DEF RegistryInv, typed_registry

\* Every way to a plugin leads to the same one.
LEMMA EntryOwner ==
  ASSUME DiscoveryInv, RegistryInv, NEW e \in typed_registry.entries
  PROVE  /\ e.route # "host" => e.plugin = ByDomain(e.plugin.domain)
         /\ e.route = "host" => e.plugin.domain \in DOMAIN HostPlugins
         /\ e # Untyped
<1>1. typed_registry = build_typed_registry \/ typed_registry = NoRegistry
  BY DEF typed_registry, RegistryInv
<1>2. e \in build_typed_registry.entries
  BY <1>1 DEF NoRegistry
<1> DEFINE hosts == {Entries(HostPlugins[d], "host") : d \in DOMAIN HostPlugins}
           builtins == {Entries(Builtins[d], "builtin") : d \in DOMAIN Builtins \ Domains}
           dynamics == {Entries(dynamic[d], "dynamic") : d \in Domains}
           all == UNION (hosts \cup builtins \cup dynamics)
<1>3. e \in UNION hosts \/ e \in UNION builtins \/ e \in UNION dynamics
  <2>1. build_typed_registry = NoRegistry \/ build_typed_registry = [ok |-> TRUE, entries |-> all]
    BY DEF build_typed_registry
  <2> HIDE DEF all
  <2>2. e \in all
    BY <1>2, <2>1 DEF NoRegistry
  <2> HIDE DEF hosts, builtins, dynamics
  <2> QED
    BY <2>2 DEF all
<1>4. \A p, r : \A x \in Entries(p, r) : x.route = r /\ x.plugin = p /\ x # Untyped
  <2> SUFFICES ASSUME NEW p, NEW r, NEW x \in Entries(p, r) PROVE x.route = r /\ x.plugin = p /\ x # Untyped
    OBVIOUS
  <2>1. PICK i \in DOMAIN Commands(p) :
          x = [id |-> Commands(p)[i].id, route |-> r, plugin |-> p, descriptor |-> Commands(p)[i]]
    BY DEF Entries
  <2>2. DOMAIN x # DOMAIN Untyped
    BY <2>1 DEF Untyped
  <2> QED
    BY <2>1, <2>2
<1>5. CASE e \in UNION hosts
  <2>1. PICK d \in DOMAIN HostPlugins : e \in Entries(HostPlugins[d], "host")
    BY <1>5
  <2> QED
    BY <1>4, <2>1, PluginAssumption
<1>6. CASE e \in UNION builtins
  <2>1. PICK d \in DOMAIN Builtins \ Domains : e \in Entries(Builtins[d], "builtin")
    BY <1>6
  <2> QED
    BY <1>4, <2>1, PluginAssumption DEF ByDomain
<1>7. CASE e \in UNION dynamics
  <2>1. PICK d \in Domains : e \in Entries(dynamic[d], "dynamic")
    BY <1>7
  <2>2. dynamic[d].domain = d
    BY DEF DiscoveryInv
  <2> QED
    BY <1>4, <2>1, <2>2 DEF ByDomain
<1> QED
  BY <1>3, <1>5, <1>6, <1>7

-----------------------------------------------------------------------------
(* Calls.                                                                  *)

\* While the libraries and the settings stay, only the call that steps matters.
LEMMA OneCallSteps ==
  ASSUME CallsInv, NEW c \in Calls, NEW k, call' = [call EXCEPT ![c] = k],
         UNCHANGED <<pending, dynamic, disabled>>, CallKept(k)
  PROVE  CallsInv'
<1>1. DOMAIN call' = Calls /\ \A o \in Calls : call'[o] = IF o = c THEN k ELSE call[o]
  BY DEF CallsInv
<1>2. \A o \in Calls : CallKept(call'[o])
  BY <1>1 DEF CallsInv
<1>3. \A o \in Calls : CallKept(call[o])'
  BY <1>2 DEF CallKept, OwnerKept, GivenKept, Serving, ByDomain, Domains
<1> QED
  BY <1>1, <1>3 DEF CallsInv

LEMMA EndsKept ==
  ASSUME CallsInv, NEW c \in Calls, NEW a, Ends(c, a), UNCHANGED <<pending, dynamic, disabled>>
  PROVE  CallsInv'
<1>1. CallKept([at |-> "done", answer |-> a])
  BY DEF CallKept
<1> QED
  BY <1>1, OneCallSteps DEF Ends

LEMMA InvokeTypedInv == ASSUME HostInv, NEW c \in Calls, InvokeTyped(c) PROVE CallsInv'
<1>0. UNCHANGED <<pending, dynamic, disabled>> /\ Serving /\ CallsInv /\ DiscoveryInv /\ RegistryInv
  BY DEF InvokeTyped, HostInv
<1>1. CASE \E a : Ends(c, a)
  BY <1>0, <1>1, EndsKept
<1>2. ASSUME NEW ask \in Asks, NEW e \in typed_registry.entries, Admits(e), ArgumentsAccepted(e.descriptor, ask),
             Prepared(c, ask, e.plugin, e.plugin.domain, ask.credentials, Stripped(e.descriptor, ask), e)
      PROVE  CallsInv'
  <2> DEFINE bar == e.plugin.domain \in disabled
  <2>b. bar \in BOOLEAN /\ (bar => e.plugin.domain \in disabled)
    OBVIOUS
  <2> DEFINE k == [at |-> "resolving", ask |-> ask, plugin |-> e.plugin, domain |-> e.plugin.domain,
                   want |-> ask.credentials, given |-> <<>>, typed |-> e, barred |-> bar]
  <2>1. call' = [call EXCEPT ![c] = k]
    BY <1>2 DEF Prepared, Stripped
  <2>2. /\ e.route # "host" => e.plugin = ByDomain(e.plugin.domain) /\ e.plugin.domain \notin disabled
        /\ e.route = "host" => e.plugin.domain \in DOMAIN HostPlugins
        /\ e # Untyped
    BY <1>0, <1>2, EntryOwner DEF Admits
  <2>3. /\ k.at = "resolving" /\ k.ask = ask /\ k.plugin = e.plugin /\ k.domain = e.plugin.domain
        /\ k.want = ask.credentials /\ k.given = <<>> /\ k.typed = e /\ k.barred = bar
        /\ DOMAIN k = CallFields
    BY DEF CallFields
  <2> HIDE DEF k, bar
  <2>4. OwnerKept(k)
    BY <2>b, <2>2, <2>3 DEF OwnerKept
  <2>5. GivenKept(k)
    <3>1. DOMAIN k.given = {}
      BY <2>3
    <3>2. DOMAIN k.want \subseteq SlotNames(k.typed.descriptor.slots)
      BY <1>2, <2>3 DEF ArgumentsAccepted
    <3> QED
      BY <2>3, <3>1, <3>2 DEF GivenKept
  <2>6. k.barred \in BOOLEAN /\ (k.barred => k.domain \in disabled)
    BY <2>b, <2>3
  <2>7. CallKept(k)
    BY <1>0, <2>3, <2>4, <2>5, <2>6 DEF CallKept
  <2> QED
    BY <1>0, <2>1, <2>7, OneCallSteps
<1> QED
  BY <1>1, <1>2 DEF InvokeTyped

LEMMA InvokeLegacyInv == ASSUME HostInv, NEW c \in Calls, InvokeLegacy(c) PROVE CallsInv'
<1>0. UNCHANGED <<pending, dynamic, disabled>> /\ Serving /\ CallsInv
  BY DEF InvokeLegacy, HostInv
<1>1. CASE \E a : Ends(c, a)
  BY <1>0, <1>1, EndsKept
<1>2. ASSUME NEW ask, NEW d, NEW want, Prepared(c, ask, Nobody, d, want, <<>>, Untyped) PROVE CallsInv'
  <2> DEFINE bar == d \in disabled
  <2>b. bar \in BOOLEAN /\ (bar => d \in disabled)
    OBVIOUS
  <2> DEFINE k == [at |-> "resolving", ask |-> ask, plugin |-> Nobody, domain |-> d,
                   want |-> want, given |-> <<>>, typed |-> Untyped, barred |-> bar]
  <2>1. call' = [call EXCEPT ![c] = k]
    BY <1>2 DEF Prepared
  <2>2. /\ k.at = "resolving" /\ k.plugin = Nobody /\ k.domain = d
        /\ k.want = want /\ k.given = <<>> /\ k.typed = Untyped /\ k.barred = bar
        /\ DOMAIN k = CallFields
    BY DEF CallFields
  <2> HIDE DEF k, bar
  <2>3. OwnerKept(k)
    BY <2>2 DEF OwnerKept
  <2>4. GivenKept(k)
    <3>1. DOMAIN k.given = {}
      BY <2>2
    <3> QED
      BY <2>2, <3>1 DEF GivenKept
  <2>5. k.barred \in BOOLEAN /\ (k.barred => k.domain \in disabled)
    BY <2>b, <2>2
  <2>6. CallKept(k)
    BY <1>0, <2>2, <2>3, <2>4, <2>5 DEF CallKept
  <2> QED
    BY <1>0, <2>1, <2>6, OneCallSteps
<1> QED
  BY <1>1, <1>2 DEF InvokeLegacy

\* A call on its way.
LEMMA UnderWay ==
  ASSUME CallsInv, NEW c \in Calls, call[c].at \in {"resolving", "running"}
  PROVE  LET k == call[c]
         IN /\ DOMAIN k = CallFields /\ Serving
            /\ k.barred \in BOOLEAN /\ (k.barred => k.domain \in disabled)
            /\ OwnerKept(k) /\ GivenKept(k)
            /\ k.at = "running" => k.plugin # Nobody /\ DOMAIN k.want \subseteq DOMAIN k.given
  BY DEF CallsInv, CallKept

LEMMA ResolveInv == ASSUME HostInv, NEW c \in Calls, Resolve(c) PROVE CallsInv'
<1>0. UNCHANGED <<pending, dynamic, disabled>> /\ CallsInv /\ call[c].at = "resolving"
  BY DEF Resolve, HostInv
<1>1. CASE \E a : Ends(c, a)
  BY <1>0, <1>1, EndsKept
<1>2. ASSUME NEW s \in DOMAIN call[c].want \ DOMAIN call[c].given, NEW kind,
             call[c].typed # Untyped => kind \in KindsOf(call[c].typed.descriptor.slots, s),
             call' = [call EXCEPT ![c].given = Extend(@, s, [id |-> call[c].want[s], kind |-> kind])]
      PROVE  CallsInv'
  <2> DEFINE k == call[c]
             v == [id |-> k.want[s], kind |-> kind]
             g == Extend(k.given, s, v)
             n == [k EXCEPT !.given = g]
  <2>1. call' = [call EXCEPT ![c] = n]
    BY <1>2
  <2>2. /\ DOMAIN k = CallFields /\ Serving
        /\ k.barred \in BOOLEAN /\ (k.barred => k.domain \in disabled)
        /\ OwnerKept(k) /\ GivenKept(k)
    BY <1>0, UnderWay
  <2>3. DOMAIN g = DOMAIN k.given \cup {s} /\ g[s] = v /\ \A x \in DOMAIN k.given : x # s => g[x] = k.given[x]
    BY DEF Extend
  <2>4. v.id = k.want[s] /\ v.kind = kind
    OBVIOUS
  <2> HIDE DEF v, g
  <2>5. /\ DOMAIN n = CallFields /\ n.given = g /\ n.at = k.at /\ n.ask = k.ask /\ n.plugin = k.plugin
        /\ n.domain = k.domain /\ n.want = k.want /\ n.typed = k.typed /\ n.barred = k.barred
    BY <2>2 DEF CallFields
  <2>6. s \in DOMAIN k.want /\ s \notin DOMAIN k.given /\ (k.typed # Untyped => kind \in KindsOf(k.typed.descriptor.slots, s))
    BY <1>2
  <2> HIDE DEF n, k
  <2>7. OwnerKept(n)
    BY <2>2, <2>5 DEF OwnerKept
  <2>8. GivenKept(n)
    BY <2>2, <2>3, <2>4, <2>5, <2>6 DEF GivenKept
  <2>9. k.at = "resolving"
    BY <1>0 DEF k
  <2>10. CallKept(n)
    BY <2>2, <2>5, <2>7, <2>8, <2>9 DEF CallKept
  <2> QED
    BY <1>0, <2>1, <2>10, OneCallSteps
<1> QED
  BY <1>1, <1>2 DEF Resolve

LEMMA FindOwnerInv == ASSUME HostInv, NEW c \in Calls, FindOwner(c) PROVE CallsInv'
<1>0. UNCHANGED <<pending, dynamic, disabled>> /\ CallsInv /\ call[c].at = "resolving" /\ call[c].typed = Untyped
  BY DEF FindOwner, Resolved, HostInv
<1>1. CASE \E a : Ends(c, a)
  BY <1>0, <1>1, EndsKept
<1>2. CASE call[c].domain \notin disabled /\ call' = [call EXCEPT ![c].plugin = ByDomain(call[c].domain)]
  <2> DEFINE k == call[c]
             o == ByDomain(k.domain)
             n == [k EXCEPT !.plugin = o]
  <2>1. call' = [call EXCEPT ![c] = n]
    BY <1>2
  <2>2. /\ DOMAIN k = CallFields /\ Serving
        /\ k.barred \in BOOLEAN /\ (k.barred => k.domain \in disabled)
        /\ OwnerKept(k) /\ GivenKept(k)
    BY <1>0, UnderWay
  <2>3. k.domain \notin disabled /\ k.typed = Untyped /\ k.at = "resolving"
    BY <1>0, <1>2
  <2>4. /\ DOMAIN n = CallFields /\ n.given = k.given /\ n.at = k.at /\ n.ask = k.ask /\ n.plugin = ByDomain(k.domain)
        /\ n.domain = k.domain /\ n.want = k.want /\ n.typed = k.typed /\ n.barred = k.barred
    BY <2>2 DEF CallFields
  <2> HIDE DEF n, k, o
  <2>5. OwnerKept(n)
    BY <2>2, <2>3, <2>4 DEF OwnerKept
  <2>6. GivenKept(n)
    BY <2>2, <2>4 DEF GivenKept
  <2>7. CallKept(n)
    BY <2>2, <2>3, <2>4, <2>5, <2>6 DEF CallKept
  <2> QED
    BY <1>0, <2>1, <2>7, OneCallSteps
<1> QED
  BY <1>1, <1>2 DEF FindOwner

LEMMA DispatchInv == ASSUME HostInv, NEW c \in Calls, Dispatch(c) PROVE CallsInv'
<1>0. /\ UNCHANGED <<pending, dynamic, disabled>> /\ CallsInv /\ call[c].at = "resolving"
      /\ call[c].plugin # Nobody /\ DOMAIN call[c].want \subseteq DOMAIN call[c].given
  BY DEF Dispatch, Resolved, HostInv
<1>1. CASE \E a : Ends(c, a)
  BY <1>0, <1>1, EndsKept
<1>2. CASE call' = [call EXCEPT ![c].at = "running"]
  <2> DEFINE k == call[c]
             n == [k EXCEPT !.at = "running"]
  <2>1. call' = [call EXCEPT ![c] = n]
    BY <1>2
  <2>2. /\ DOMAIN k = CallFields /\ Serving
        /\ k.barred \in BOOLEAN /\ (k.barred => k.domain \in disabled)
        /\ OwnerKept(k) /\ GivenKept(k)
    BY <1>0, UnderWay
  <2>3. k.plugin # Nobody /\ DOMAIN k.want \subseteq DOMAIN k.given
    BY <1>0
  <2>4. /\ DOMAIN n = CallFields /\ n.given = k.given /\ n.at = "running" /\ n.ask = k.ask /\ n.plugin = k.plugin
        /\ n.domain = k.domain /\ n.want = k.want /\ n.typed = k.typed /\ n.barred = k.barred
    BY <2>2 DEF CallFields
  <2> HIDE DEF n, k
  <2>5. OwnerKept(n)
    BY <2>2, <2>4 DEF OwnerKept
  <2>6. GivenKept(n)
    BY <2>2, <2>4 DEF GivenKept
  <2>7. CallKept(n)
    BY <2>2, <2>3, <2>4, <2>5, <2>6 DEF CallKept
  <2> QED
    BY <1>0, <2>1, <2>7, OneCallSteps
<1> QED
  BY <1>1, <1>2 DEF Dispatch

LEMMA AnswerInv == ASSUME HostInv, NEW c \in Calls, Answer(c) PROVE CallsInv'
<1>0. UNCHANGED <<pending, dynamic, disabled>> /\ CallsInv
  BY DEF Answer, HostInv
<1>1. \E a : Ends(c, a)
  BY DEF Answer
<1> QED
  BY <1>0, <1>1, EndsKept

\* A switch of the settings lifts the bar from the calls it lets in.
LEMMA SetDisabledInv == ASSUME HostInv, SetDisabled PROVE CallsInv'
<1>0. UNCHANGED <<pending, dynamic>> /\ CallsInv
  BY DEF SetDisabled, HostInv
<1>1. call' = [c \in Calls |->
                 IF "domain" \in DOMAIN call[c]
                 THEN [call[c] EXCEPT !.barred = @ /\ call[c].domain \in disabled']
                 ELSE call[c]]
  BY DEF SetDisabled
<1>2. ASSUME NEW c \in Calls PROVE CallKept(call[c])'
  <2> DEFINE k == call[c]
  <2>1. CASE k.at \in {"free", "done"} /\ "domain" \notin DOMAIN k
    <3>1. call'[c] = k
      BY <1>1, <2>1
    <3> QED
      BY <2>1, <3>1 DEF CallKept
  <2>2. CASE k.at \in {"resolving", "running"} /\ DOMAIN k = CallFields
    <3> DEFINE b == k.barred /\ k.domain \in disabled'
               n == [k EXCEPT !.barred = b]
    <3>1. call'[c] = n
      BY <1>1, <2>2 DEF CallFields
    <3>2. /\ DOMAIN k = CallFields /\ Serving
          /\ k.barred \in BOOLEAN /\ OwnerKept(k) /\ GivenKept(k)
          /\ k.at = "running" => k.plugin # Nobody /\ DOMAIN k.want \subseteq DOMAIN k.given
      BY <1>0, <2>2, UnderWay
    <3>3. /\ DOMAIN n = CallFields /\ n.given = k.given /\ n.at = k.at /\ n.ask = k.ask /\ n.plugin = k.plugin
          /\ n.domain = k.domain /\ n.want = k.want /\ n.typed = k.typed /\ n.barred = b
      BY <3>2 DEF CallFields
    <3>4. n.barred \in BOOLEAN /\ (n.barred => k.domain \in disabled' /\ k.barred)
      BY <3>3
    <3>5. Serving' /\ \A d : ByDomain(d)' = ByDomain(d)
      BY <1>0, <3>2 DEF Serving, ByDomain, Domains
    <3> HIDE DEF n, k, b
    <3>6. /\ IF n.typed # Untyped
             THEN n.domain \notin DOMAIN HostPlugins => n.plugin = ByDomain(n.domain) /\ ~n.barred
             ELSE n.plugin # Nobody => n.plugin = ByDomain(n.domain) /\ ~n.barred
      BY <3>2, <3>3, <3>4 DEF OwnerKept
    <3>7. GivenKept(n)
      BY <3>2, <3>3 DEF GivenKept
    <3>8. OwnerKept(call[c])' /\ GivenKept(call[c])'
      BY <3>1, <3>5, <3>6, <3>7 DEF OwnerKept, GivenKept, ByDomain, Domains
    <3>9. k.at \in {"resolving", "running"}
      BY <2>2
    <3> QED
      BY <3>1, <3>2, <3>3, <3>4, <3>5, <3>8, <3>9 DEF CallKept
  <2> QED
    BY <1>0, <2>1, <2>2 DEF CallsInv, CallKept
<1> QED
  BY <1>1, <1>2 DEF CallsInv

\* While libraries are loaded no call is on its way.
LEMMA LoadCalls == ASSUME HostInv, LoadNext PROVE CallsInv' /\ RegistryInv'
<1>1. ~Serving /\ UNCHANGED <<call, disabled>>
  BY DEF LoadNext, Serving
<1>2. \A c \in Calls : call[c].at \in {"free", "done"} /\ "domain" \notin DOMAIN call[c]
  BY <1>1 DEF HostInv, CallsInv, CallKept
<1>3. CallsInv'
  BY <1>1, <1>2 DEF HostInv, CallsInv, CallKept
<1>4. RegistryInv'
  <2>1. CASE cached' = NoRegistry
    BY <2>1 DEF RegistryInv
  <2>2. CASE UNCHANGED <<dynamic, cached>>
    BY <2>2, RegistryKept DEF HostInv
  <2> QED
    BY <2>1, <2>2 DEF LoadNext
<1> QED
  BY <1>3, <1>4

LEMMA HostInitInv == HostInit => HostInv
<1> SUFFICES ASSUME HostInit PROVE HostInv
  OBVIOUS
<1>1. RegistryInv
  BY DEF HostInit, RegistryInv
<1>2. DOMAIN call = Calls /\ \A c \in Calls : call[c] = [at |-> "free"]
  BY DEF HostInit
<1>3. CallKept([at |-> "free"])
  BY DEF CallKept
<1>4. CallsInv
  BY <1>2, <1>3 DEF CallsInv
<1> QED
  BY <1>1, <1>4, DiscoveryInitInv DEF HostInv

LEMMA HostStep == ASSUME HostInv, [HostNext]_hostVars PROVE HostInv'
<1>0. DiscoveryInv /\ RegistryInv /\ CallsInv
  BY DEF HostInv
<1>1. CASE LoadNext
  BY <1>0, <1>1, LoadDiscovery, LoadCalls DEF HostInv
<1>2. CASE SetDisabled
  BY <1>0, <1>2, DiscoveryKept, RegistryKept, SetDisabledInv DEF HostInv, SetDisabled
<1>3. CASE VaultChanges \/ UNCHANGED hostVars
  <2>1. UNCHANGED <<layout, pending, dynamic, cached, disabled, call>>
    BY <1>3 DEF VaultChanges, hostVars
  <2>2. CallsInv'
    BY <1>0, <2>1 DEF CallsInv, CallKept, OwnerKept, GivenKept, Serving, ByDomain, Domains
  <2> QED
    BY <1>0, <2>1, <2>2, DiscoveryKept, RegistryKept DEF HostInv
<1>4. ASSUME NEW c \in Calls, CallStep(c) PROVE HostInv'
  <2>1. CallsInv'
    BY <1>4, InvokeTypedInv, InvokeLegacyInv, ResolveInv, FindOwnerInv, DispatchInv, AnswerInv DEF CallStep
  <2>2. UNCHANGED <<layout, pending, dynamic>> /\ (UNCHANGED cached \/ cached' = typed_registry)
    BY <1>4 DEF CallStep, InvokeTyped, InvokeLegacy, Resolve, FindOwner, Dispatch, Answer
  <2> QED
    BY <1>0, <2>1, <2>2, DiscoveryKept, RegistryKept, RegistryBuilt DEF HostInv
<1> QED
  BY <1>1, <1>2, <1>3, <1>4 DEF HostNext

\* For any directories and libraries, any builtins, any number of calls and any
\* changes of the settings and of the vault between their steps: once the
\* libraries are loaded every way to a domain leads to the one plugin the
\* configuration prefers, a call of a domain that is and stays switched off
\* reaches no plugin, and a typed command is handed exactly the secrets its
\* request names, of the kinds its slots accept (load_dynamic_plugins_from_dir,
\* build_typed_registry, invoke_typed, invoke_credentialed_into,
\* prepare_typed_request).
THEOREM DispatchIsSound == HostSpec => []DispatchSound
<1>1. HostInv => DispatchSound
  <2> SUFFICES ASSUME HostInv PROVE DispatchSound
    OBVIOUS
  <2>0. DiscoveryInv /\ RegistryInv /\ CallsInv
    BY DEF HostInv
  <2>1. ASSUME Serving PROVE
          /\ \A d \in DOMAIN list_registered_plugins :
               /\ list_registered_plugins[d].plugin = ByDomain(d)
               /\ (\E i \in DOMAIN layout : Candidates(i, d) # {}) => ByDomain(d) = Preferred(d)
          /\ \A e \in typed_registry.entries : e.route # "host" => e.plugin = ByDomain(e.plugin.domain)
    <3>1. \A d \in DOMAIN list_registered_plugins : list_registered_plugins[d].plugin = ByDomain(d)
      BY DEF list_registered_plugins, ByDomain
    <3> QED
      BY <2>0, <2>1, <3>1, PreferredServes, EntryOwner
  <2>2. ASSUME NEW c \in Calls, call[c].at = "running"
        PROVE  /\ call[c].domain \notin DOMAIN HostPlugins => call[c].plugin = ByDomain(call[c].domain)
               /\ call[c].barred => call[c].domain \in DOMAIN HostPlugins
               /\ call[c].typed # Untyped =>
                    /\ DOMAIN call[c].given = DOMAIN call[c].ask.credentials
                    /\ \A s \in DOMAIN call[c].given :
                         /\ s \in SlotNames(call[c].typed.descriptor.slots)
                         /\ call[c].given[s].id = call[c].ask.credentials[s]
                         /\ call[c].given[s].kind \in KindsOf(call[c].typed.descriptor.slots, s)
    <3>1. OwnerKept(call[c]) /\ GivenKept(call[c]) /\ call[c].plugin # Nobody
          /\ DOMAIN call[c].want \subseteq DOMAIN call[c].given
      BY <2>0, <2>2, UnderWay
    <3> QED
      BY <3>1 DEF OwnerKept, GivenKept
  <2> QED
    BY <2>1, <2>2 DEF DispatchSound, OneOwnerPerDomain, DisabledStaysOut, SecretsAsDeclared
<1>2. HostInv /\ [HostNext]_hostVars => HostInv'
  BY HostStep
<1> QED
  BY <1>1, <1>2, HostInitInv, PTL DEF HostSpec

-----------------------------------------------------------------------------
(* The managed psql.                                                       *)

PgPoints == {"start", "cleanup", "lock", "steal", "again", "run", "over", "crashed"} \cup Downloading
Sources == {"explicit", "env", "configured", "managed", "system"}

PgTypeOK ==
  /\ pgAsk \in [PgProcs -> PostgresCli] /\ pgPc \in [PgProcs -> PgPoints]
  /\ DOMAIN pgLock = Versions /\ DOMAIN pgArchive = Versions /\ DOMAIN pgDirs = Places
  /\ pgConfig \in PathKinds /\ pgUsed \in [PgProcs -> {"none"} \cup Sources]
  /\ pgRuns \in [PgProcs -> Seq(BOOLEAN)] /\ DOMAIN pgAnswer = PgProcs
  /\ pgSweep \in [PgProcs -> SUBSET Places]

\* What is used is what was accepted.
UsedInv(p) ==
  LET a == pgAsk[p]
  IN /\ a.path # "none" => pgUsed[p] \in {"none", "explicit"}
     /\ a.path = "none" /\ a.env # "none" => pgUsed[p] \in {"none", "env"}
     /\ pgUsed[p] = "explicit" => a.path = "good"
     /\ pgUsed[p] = "env" => a.env = "good"
     /\ pgUsed[p] = "system" => SystemTool = "good"

\* The sessions so far are the first ones of the command's.
RunsInv(p) ==
  LET a == pgAsk[p]
      runs == statements(a).runs
  IN /\ Len(pgRuns[p]) <= Len(runs)
     /\ \A i \in 1 .. Len(pgRuns[p]) : pgRuns[p][i] = runs[i]
     /\ pgPc[p] = "run" => pgUsed[p] # "none" /\ (statements(a).code = "none" => Len(pgRuns[p]) < Len(runs))
     /\ pgPc[p] \notin {"run", "over"} => pgRuns[p] = <<>>
     /\ pgPc[p] # "over" => pgAnswer[p] = "none"
     /\ pgPc[p] = "cleanup" => a.cmd \in ToolCommand
     /\ pgAnswer[p] = "ok" /\ a.cmd \notin ToolCommand => Len(pgRuns[p]) = Len(runs) /\ pgUsed[p] # "none"

CommandsInv == PgTypeOK /\ \A p \in PgProcs : UsedInv(p) /\ RunsInv(p)

\* Whoever downloads has the lock, what it extracts is what it has compared, and what
\* stands in its own directory is whole until somebody takes a file of it.  Nothing is
\* said of a version whose lock was taken from a download.
Ours(p) == wanted(p) \notin pgRobbed
TurnOf(p) == Ours(p) /\ pgPc[p] \in Downloading => pgLock[wanted(p)].by = p
Whole(dir) == dir.from = "good" /\ (dir.files = Tools \/ dir.cut)
HasDll(dir) == dir.from = "good" /\ ("dll" \in dir.files \/ dir.cut)
ContentOf(p) ==
  /\ Ours(p) /\ pgPc[p] = "hash" => pgArchive[wanted(p)] = "partial"
  /\ Ours(p) /\ pgPc[p] \in {"clear", "extract", "unpack"} => pgArchive[wanted(p)] = "good"
  /\ Ours(p) /\ pgPc[p] = "extract" => pgDirs[Temp(p)].from = "none"
  /\ Ours(p) /\ pgPc[p] = "unpack" /\ pgDirs[Temp(p)].there => HasDll(pgDirs[Temp(p)])
  /\ Ours(p) /\ pgPc[p] \in {"publish", "replace", "move"} /\ pgDirs[Temp(p)].there => Whole(pgDirs[Temp(p)])
VersionOf(v) == v \notin pgRobbed /\ pgDirs[Version(v)].from # "none" => Whole(pgDirs[Version(v)])
PlaceOf(place) ==
  /\ pgDirs[place].files \subseteq Tools
  /\ ~pgDirs[place].there => pgDirs[place].from = "none" /\ pgDirs[place].files = {}

DownloadInv ==
  /\ \A p \in PgProcs : TurnOf(p) /\ ContentOf(p)
  /\ \A v \in Versions : VersionOf(v)
  /\ \A place \in Places : PlaceOf(place)

-----------------------------------------------------------------------------
(* What a command runs, and with which tool.                               *)

\* The sessions of a command: none, some that only read, or the one a
\* confirmation allows.
LEMMA StatementForms ==
  ASSUME NEW a \in PostgresCli
  PROVE  /\ \/ statements(a).runs = <<>> \/ statements(a).runs = <<TRUE>>
            \/ statements(a).runs = <<TRUE, TRUE, TRUE, TRUE>>
            \/ statements(a).runs = <<FALSE>> /\ a.yes /\ a.cmd \in {"exec", "explain"}
         /\ statements(a).code = "none" => statements(a).runs # <<>>
<1> DEFINE Fine(t) ==
       /\ \/ t.runs = <<>> \/ t.runs = <<TRUE>> \/ t.runs = <<TRUE, TRUE, TRUE, TRUE>>
          \/ t.runs = <<FALSE>> /\ a.yes /\ a.cmd \in {"exec", "explain"}
       /\ t.code = "none" => t.runs # <<>>
<1>0. a.yes \in BOOLEAN /\ a.analyze \in BOOLEAN /\ a.cmd \in PostgresCommand
  BY DEF PostgresCli
<1>1. Fine(OneRead) /\ Fine(PgRefused("INVALID_ARGUMENT")) /\ Fine(PgRefused("FILE_READ_FAILED"))
      /\ Fine(PgRefused("POSTGRES_QUERY_NOT_READ_ONLY")) /\ Fine(PgRefused("CONFIRMATION_REQUIRED"))
      /\ Fine(Sessions(<<TRUE, TRUE, TRUE, TRUE>>)) /\ Fine(Sessions(<<TRUE>>))
  BY DEF OneRead, PgRefused, Sessions
<1>2. a.yes /\ a.cmd \in {"exec", "explain"} => Fine(Sessions(<<FALSE>>))
  BY DEF Sessions
<1> HIDE DEF Fine
<1>3. \A t : Fine(t) => Fine(resolve_sql(a, t)) /\ Fine(read_only_query_sql(a, t))
  BY <1>1 DEF resolve_sql, read_only_query_sql
<1>4. Fine(execute_describe(a)) /\ Fine(execute_size(a)) /\ Fine(execute_query(a))
  BY <1>1, <1>3 DEF execute_describe, execute_size, execute_query
<1>5. a.cmd = "exec" => Fine(execute_exec(a))
  BY <1>1, <1>2, <1>3 DEF execute_exec
<1>6. a.cmd = "explain" => Fine(execute_explain(a))
  <2>1. CASE a.analyze = TRUE
    <3>1. <<~a.analyze>> = <<FALSE>>
      BY <2>1
    <3> QED
      BY <1>1, <1>2, <1>3, <2>1, <3>1 DEF execute_explain
  <2>2. CASE a.analyze = FALSE
    <3>1. <<~a.analyze>> = <<TRUE>>
      BY <2>2
    <3> QED
      BY <1>1, <1>3, <2>2, <3>1 DEF execute_explain
  <2> QED
    BY <1>0, <2>1, <2>2
<1>7. Fine(statements(a))
  BY <1>1, <1>4, <1>5, <1>6
     DEF statements, execute_ping, execute_info, execute_databases, execute_schemas, execute_relations,
         list_indexes, execute_extensions, execute_activity, execute_locks, execute_settings
<1> QED
  BY <1>7 DEF Fine

LEMMA StatementCode == ASSUME NEW a \in PostgresCli PROVE statements(a).code # "ok"
  BY DEF statements, execute_ping, execute_info, execute_databases, execute_schemas, execute_relations,
         list_indexes, execute_extensions, execute_activity, execute_locks, execute_settings, execute_describe,
         execute_size, execute_query, execute_exec, execute_explain, resolve_sql, read_only_query_sql, OneRead,
         Sessions, PgRefused

LEMMA StatementRuns ==
  ASSUME NEW a \in PostgresCli
  PROVE  /\ statements(a).runs \in Seq(BOOLEAN) /\ Len(statements(a).runs) \in Nat
         /\ statements(a).code = "none" => Len(statements(a).runs) > 0
         /\ \A i \in 1 .. Len(statements(a).runs) :
              ~statements(a).runs[i] => a.yes /\ a.cmd \in {"exec", "explain"}
<1> DEFINE r == statements(a).runs
<1>0. /\ r = <<>> \/ r = <<TRUE>> \/ r = <<TRUE, TRUE, TRUE, TRUE>>
         \/ (r = <<FALSE>> /\ a.yes /\ a.cmd \in {"exec", "explain"})
      /\ statements(a).code = "none" => r # <<>>
  BY StatementForms
<1> HIDE DEF r
<1>1. CASE r = <<>>
  <2>1. r \in Seq(BOOLEAN) /\ Len(r) = 0
    BY <1>1
  <2> QED
    BY <1>0, <1>1, <2>1 DEF r
<1>2. CASE r = <<TRUE>>
  <2>1. r \in Seq(BOOLEAN) /\ Len(r) = 1 /\ r[1]
    BY <1>2
  <2> QED
    BY <2>1 DEF r
<1>3. CASE r = <<TRUE, TRUE, TRUE, TRUE>>
  <2>1. r \in Seq(BOOLEAN) /\ Len(r) = 4
    BY <1>3
  <2>2. r[1] /\ r[2] /\ r[3] /\ r[4]
    BY <1>3
  <2>3. \A i \in 1 .. 4 : i = 1 \/ i = 2 \/ i = 3 \/ i = 4
    OBVIOUS
  <2> QED
    BY <2>1, <2>2, <2>3 DEF r
<1>4. CASE r = <<FALSE>> /\ a.yes /\ a.cmd \in {"exec", "explain"}
  <2>1. r \in Seq(BOOLEAN) /\ Len(r) = 1
    BY <1>4
  <2> QED
    BY <1>4, <2>1 DEF r
<1> QED
  BY <1>0, <1>1, <1>2, <1>3, <1>4

\* What is accepted of a candidate.
LEMMA CandidateFields == \A s, t : Candidate(s, t).source = s /\ Candidate(s, t).accepted = t
  BY DEF Candidate

\* What is accepted of a source.
Fitting(a, s) ==
  /\ s \in Sources
  /\ a.path # "none" => s = "explicit"
  /\ a.path = "none" /\ a.env # "none" => s = "env"
  /\ s = "explicit" => a.path = "good"
  /\ s = "env" => a.env = "good"
  /\ s = "system" => SystemTool = "good"

\* The candidates are at most three, and what is accepted of them is what the
\* request, the environment, the configuration, the cache or PATH has.
LEMMA CandidateForms ==
  ASSUME NEW a \in PostgresCli, NEW i \in Accepted(inspect_tool_candidates(a))
  PROVE  Fitting(a, inspect_tool_candidates(a)[i].source) /\ i \in 1 .. 3
<1> DEFINE cs == inspect_tool_candidates(a)
           good == SystemTool = "good"
<1>0. i \in DOMAIN cs /\ cs[i].accepted
  BY DEF Accepted
<1>1. CASE a.path # "none"
  <2> DEFINE ok == resolve_psql_path(a.path)
  <2>1. cs = <<Candidate("explicit", ok)>> /\ (ok => a.path = "good")
    BY <1>1 DEF inspect_tool_candidates, resolve_psql_path
  <2> HIDE DEF cs, ok
  <2>2. i = 1 /\ cs[i] = Candidate("explicit", ok)
    BY <1>0, <2>1
  <2>3. cs[i].source = "explicit" /\ a.path = "good"
    BY <1>0, <2>1, <2>2, CandidateFields
  <2> QED
    BY <2>2, <2>3 DEF Sources, Fitting, cs
<1>2. CASE a.path = "none" /\ a.env # "none"
  <2> DEFINE ok == resolve_psql_path(a.env)
  <2>1. cs = <<Candidate("env", ok)>> /\ (ok => a.env = "good")
    BY <1>2 DEF inspect_tool_candidates, resolve_psql_path
  <2> HIDE DEF cs, ok
  <2>2. i = 1 /\ cs[i] = Candidate("env", ok)
    BY <1>0, <2>1
  <2>3. cs[i].source = "env" /\ a.env = "good"
    BY <1>0, <2>1, <2>2, CandidateFields
  <2> QED
    BY <1>2, <2>2, <2>3 DEF Sources, Fitting, cs
<1>3. CASE a.path = "none" /\ a.env = "none" /\ pgConfig # "none"
  <2>1. cs = <<Candidate("configured", resolve_psql_path(pgConfig))>>
    BY <1>3 DEF inspect_tool_candidates
  <2> HIDE DEF cs
  <2>2. i = 1 /\ cs[i] = Candidate("configured", resolve_psql_path(pgConfig))
    BY <1>0, <2>1
  <2>3. cs[i].source = "configured"
    BY <2>2 DEF Candidate
  <2> QED
    BY <1>3, <2>2, <2>3 DEF Sources, Fitting, cs
<1>4. CASE a.path = "none" /\ a.env = "none" /\ pgConfig = "none"
  <2> DEFINE x == evaluate_candidate(pgDirs[Version("18.6")])
             y == evaluate_candidate(pgDirs[Version("18.4")])
             m == Managed("18.6")
             n == Managed("18.4")
             f == find_psql_in_path
  <2>1. cs = m \o n \o f
    BY <1>4 DEF inspect_tool_candidates
  <2>2. /\ m = <<>> \/ m = <<Candidate("managed", x)>>
        /\ n = <<>> \/ n = <<Candidate("managed", y)>>
        /\ f = <<>> \/ f = <<Candidate("system", good)>>
        /\ good => SystemTool = "good"
    BY DEF Managed, find_psql_in_path
  <2> HIDE DEF cs, m, n, f, good, x, y
  <2> DEFINE cx == Candidate("managed", x)
             cy == Candidate("managed", y)
             cf == Candidate("system", good)
  <2>3. m \in {<<>>, <<cx>>} /\ n \in {<<>>, <<cy>>} /\ f \in {<<>>, <<cf>>}
    BY <2>2
  <2> HIDE DEF cx, cy, cf
  <2> DEFINE T == {cx, cy, cf}
  <2>4. /\ m \in Seq(T) /\ n \in Seq(T) /\ f \in Seq(T)
        /\ Len(m) \in 0 .. 1 /\ Len(n) \in 0 .. 1 /\ Len(f) \in 0 .. 1
    <3>1. <<>> \in Seq(T) /\ Len(<<>>) \in 0 .. 1
      OBVIOUS
    <3>2. ASSUME NEW c \in T PROVE <<c>> \in Seq(T) /\ Len(<<c>>) \in 0 .. 1
      <4> HIDE DEF T
      <4> QED
        BY <3>2
    <3>3. cx \in T /\ cy \in T /\ cf \in T
      OBVIOUS
    <3> HIDE DEF T
    <3> QED
      BY <2>3, <3>1, <3>2, <3>3
  <2>5. i \in 1 .. 3 /\ cs[i] \in {cx, cy, cf}
    <3> HIDE DEF T
    <3>1. m \o n \in Seq(T) /\ Len(m \o n) \in 0 .. 2
      BY <2>4, ConcatProperties
    <3>2. cs \in Seq(T) /\ Len(cs) \in 0 .. 3
      BY <2>1, <2>4, <3>1, ConcatProperties
    <3>3. i \in 1 .. Len(cs) /\ i \in 1 .. 3
      BY <1>0, <3>2, LenProperties
    <3> QED
      BY <3>2, <3>3, ElementOfSeq DEF T
  <2>6. cs[i].source \in {"managed", "system"} /\ (cs[i].source = "system" => SystemTool = "good")
    BY <1>0, <2>2, <2>5, CandidateFields DEF cx, cy, cf
  <2> QED
    BY <1>4, <2>5, <2>6 DEF Sources, Fitting, cs
<1> QED
  BY <1>1, <1>2, <1>3, <1>4

\* The first of the accepted ones is one of them.
LEMMA FirstAccepted ==
  ASSUME NEW a \in PostgresCli, Accepted(inspect_tool_candidates(a)) # {}
  PROVE  First(Accepted(inspect_tool_candidates(a))) \in Accepted(inspect_tool_candidates(a))
<1> DEFINE S == Accepted(inspect_tool_candidates(a))
<1>1. S \subseteq 1 .. 3 /\ S # {}
  BY CandidateForms
<1> HIDE DEF S
<1>2. \E i \in S : \A j \in S : i <= j
  <2>1. CASE 1 \in S
    BY <1>1, <2>1
  <2>2. CASE 1 \notin S /\ 2 \in S
    BY <1>1, <2>2
  <2>3. CASE 1 \notin S /\ 2 \notin S
    <3>1. \A j \in S : j = 3
      BY <1>1, <2>3
    <3>2. PICK i \in S : TRUE
      BY <1>1
    <3> QED
      BY <3>1, <3>2
  <2> QED
    BY <2>1, <2>2, <2>3
<1>3. First(S) \in S
  BY <1>2 DEF First
<1> QED
  BY <1>3 DEF S

LEMMA ResolvedTool ==
  ASSUME NEW a \in PostgresCli
  PROVE  LET s == resolve_operational_tool(a) IN s \in {"missing", "download"} \/ Fitting(a, s)
<1> DEFINE cs == inspect_tool_candidates(a)
<1>1. CASE resolve_operational_tool(a) \in {"missing", "download"}
  BY <1>1
<1>2. CASE Accepted(cs) # {} /\ resolve_operational_tool(a) = cs[First(Accepted(cs))].source
  BY <1>2, FirstAccepted, CandidateForms
<1> QED
  BY <1>1, <1>2 DEF resolve_operational_tool

-----------------------------------------------------------------------------
(* The steps of a command.                                                 *)

LEMMA TypedCli ==
  ASSUME NEW a \in PostgresCli
  PROVE  typed_cli(a) \in PostgresCli /\ typed_cli(a).path = a.path /\ typed_cli(a).env = a.env /\ typed_cli(a).cmd = a.cmd
<1> DEFINE b == [[a EXCEPT !.ensure = FALSE] EXCEPT !.vault = "none"]
           c == [b EXCEPT !.passwordEnv = FALSE]
<1>1. [a EXCEPT !.ensure = FALSE] \in PostgresCli
  BY DEF PostgresCli
<1>2. b \in PostgresCli /\ b.path = a.path /\ b.env = a.env /\ b.cmd = a.cmd
  BY <1>1 DEF PostgresCli, VaultKinds
<1> HIDE DEF b
<1>3. c \in PostgresCli /\ c.path = b.path /\ c.env = b.env /\ c.cmd = b.cmd
  BY <1>2 DEF PostgresCli
<1>4. [a EXCEPT !.ensure = FALSE, !.vault = "none", !.passwordEnv = FALSE] = c
  BY DEF b
<1> QED
  BY <1>2, <1>3, <1>4 DEF typed_cli

LEMMA PgInitInv == PgInit => CommandsInv /\ DownloadInv
<1> SUFFICES ASSUME PgInit PROVE CommandsInv /\ DownloadInv
  OBVIOUS
<1>0. PICK start \in PgStarts : pgAsk = start.asks /\ pgDirs = start.dirs /\ pgConfig = start.config
  BY DEF PgInit
<1>1. PgTypeOK
  <2>1. pgAsk \in [PgProcs -> PostgresCli] /\ DOMAIN pgDirs = Places /\ pgConfig \in PathKinds
    BY <1>0, PgAssumption DEF read_tool_config, PathKinds
  <2>2. /\ pgPc \in [PgProcs -> PgPoints] /\ DOMAIN pgLock = Versions /\ DOMAIN pgArchive = Versions
        /\ pgUsed \in [PgProcs -> {"none"} \cup Sources] /\ DOMAIN pgAnswer = PgProcs
        /\ pgSweep \in [PgProcs -> SUBSET Places]
    BY DEF PgInit, PgPoints
  <2>3. pgRuns \in [PgProcs -> Seq(BOOLEAN)]
    <3>1. <<>> \in Seq(BOOLEAN)
      BY EmptySeq
    <3> QED
      BY <3>1 DEF PgInit
  <2> QED
    BY <2>1, <2>2, <2>3 DEF PgTypeOK
<1>2. ASSUME NEW p \in PgProcs PROVE UsedInv(p) /\ RunsInv(p)
  <2>1. pgPc[p] = "start" /\ pgUsed[p] = "none" /\ pgRuns[p] = <<>> /\ pgAnswer[p] = "none" /\ pgAsk[p] \in PostgresCli
    BY <1>1 DEF PgInit, PgTypeOK
  <2>2. Len(pgRuns[p]) = 0 /\ Len(statements(pgAsk[p]).runs) \in Nat
    BY <2>1, StatementRuns
  <2>3. RunsInv(p)
    BY <2>1, <2>2 DEF RunsInv
  <2> QED
    BY <2>1, <2>3 DEF UsedInv
<1>3. \A p \in PgProcs : pgPc[p] = "start"
  BY DEF PgInit
<1>4. ASSUME NEW place \in Places PROVE PlaceOf(place) /\ pgDirs[place].from = "none"
  <2>1. pgDirs[place] \in {Absent} \cup {DirOf(files, "none", TRUE) : files \in SUBSET Tools}
    BY <1>0, PgAssumption
  <2>2. CASE pgDirs[place] = Absent
    BY <2>2 DEF Absent, PlaceOf
  <2>3. ASSUME NEW files \in SUBSET Tools, pgDirs[place] = DirOf(files, "none", TRUE)
        PROVE  PlaceOf(place) /\ pgDirs[place].from = "none"
    BY <2>3 DEF DirOf, PlaceOf
  <2> QED
    BY <2>1, <2>2, <2>3
<1>5. \A v \in Versions : Version(v) \in Places
  BY DEF Places
<1> QED
  BY <1>1, <1>2, <1>3, <1>4, <1>5
     DEF CommandsInv, DownloadInv, TurnOf, ContentOf, VersionOf, Downloading

LEMMA PgTypeStep == ASSUME CommandsInv, PgNext PROVE PgTypeOK'
<1>t. PgTypeOK
  BY DEF CommandsInv
<1> USE <1>t DEF PgTypeOK
<1>f. ASSUME NEW p \in PgProcs, NEW code, PgFinish(p, code)
      PROVE  pgPc' \in [PgProcs -> PgPoints] /\ DOMAIN pgAnswer' = PgProcs
  BY <1>f DEF PgFinish, PgGoto, PgPoints
<1>g. ASSUME NEW p \in PgProcs, NEW w \in PgPoints, PgGoto(p, w), UNCHANGED pgAnswer
      PROVE  pgPc' \in [PgProcs -> PgPoints] /\ DOMAIN pgAnswer' = PgProcs
  BY <1>g DEF PgGoto
<1>w. \A w \in {"start", "cleanup", "lock", "steal", "again", "run", "over", "crashed", "check", "fetch", "hash",
                "clear", "extract", "unpack", "publish", "replace", "move"} : w \in PgPoints
  BY DEF PgPoints, Downloading
<1> DEFINE Moves == pgPc' \in [PgProcs -> PgPoints] /\ DOMAIN pgAnswer' = PgProcs /\ DOMAIN pgLock' = Versions
<1>x. ASSUME NEW p \in PgProcs, NEW code, Fails(p, code) PROVE Moves
  BY <1>f, <1>x DEF Fails, DownloadLockDrop, LockTo
<1>y. ASSUME NEW p \in PgProcs, AfterDownload(p) PROVE Moves
  BY <1>f, <1>g, <1>w, <1>y DEF AfterDownload, DownloadLockDrop, LockTo
<1>z. ASSUME NEW p \in PgProcs, NEW w \in PgPoints, GoesTo(p, w) PROVE Moves
  BY <1>g, <1>z DEF GoesTo
<1> HIDE DEF Moves
<1>p. \A place, dir : DirTo(place, dir) => DOMAIN pgDirs' = Places
  BY DEF DirTo
<1>1. ASSUME NEW p \in PgProcs, Start(p) PROVE PgTypeOK'
  <2> DEFINE a == typed_cli(pgAsk[p])
             tool == resolve_operational_tool(a)
  <2>1. a \in PostgresCli
    BY TypedCli
  <2>2. /\ pgConfig' \in PathKinds
        /\ UNCHANGED pgUsed \/ (tool \notin {"missing", "download"} /\ pgUsed' = [pgUsed EXCEPT ![p] = tool])
        /\ (\E code : PgFinish(p, code)) \/ (\E w \in PgPoints : PgGoto(p, w) /\ UNCHANGED pgAnswer)
        /\ UNCHANGED pgSweep \/ pgSweep' = [pgSweep EXCEPT ![p] = TargetsOf(a)]
    <3>1. "none" \in PathKinds /\ a.path \in PathKinds
      BY <2>1 DEF PathKinds, PostgresCli
    <3> DEFINE bound == bind_resolved_database_connection(a)
    <3>2. CASE bound # "none"
      BY <1>1, <3>2 DEF Start
    <3>3. CASE bound = "none" /\ a.cmd \in ToolCommand
      <4>1. StartTool(p, a) /\ UNCHANGED pgUsed
        BY <1>1, <3>3 DEF Start
      <4> HIDE DEF a
      <4> QED
        BY <1>w, <3>1, <4>1 DEF StartTool, write_tool_config
    <3>4. CASE bound = "none" /\ a.cmd \notin ToolCommand
      <4>1. StartQuery(p, tool) /\ UNCHANGED <<pgConfig, pgSweep>>
        BY <1>1, <3>4 DEF Start
      <4> HIDE DEF a, tool
      <4> QED
        BY <1>w, <4>1 DEF StartQuery
    <3> QED
      BY <3>2, <3>3, <3>4
  <2>3. pgPc' \in [PgProcs -> PgPoints] /\ DOMAIN pgAnswer' = PgProcs
    BY <1>f, <1>g, <2>2
  <2>4. pgUsed' \in [PgProcs -> {"none"} \cup Sources]
    <3>1. tool \in {"missing", "download"} \cup Sources
      BY <2>1, ResolvedTool DEF Fitting
    <3> HIDE DEF tool
    <3> QED
      BY <2>2, <3>1
  <2> QED
    <3>1. TargetsOf(a) \in SUBSET Places
      <4>1. a.version \in Versions => Version(a.version) \in Places
        BY DEF Places
      <4> HIDE DEF a
      <4> QED
        BY <4>1 DEF TargetsOf
    <3>2. pgSweep' \in [PgProcs -> SUBSET Places]
      <4> HIDE DEF a
      <4> QED
        BY <2>2, <3>1
    <3> QED
      BY <1>1, <2>2, <2>3, <2>4, <3>2 DEF Start, cacheVars
<1>2. ASSUME NEW p \in PgProcs, acquire_download_lock(p) \/ lock_is_stale(p) PROVE PgTypeOK'
  <2>1. pgPc' \in [PgProcs -> PgPoints] /\ DOMAIN pgAnswer' = PgProcs
    BY <1>2, <1>f, <1>g, <1>w DEF acquire_download_lock, lock_is_stale
  <2>2. DOMAIN pgLock' = Versions
    BY <1>2 DEF acquire_download_lock, lock_is_stale, LockTo
  <2> QED
    BY <1>2, <2>1, <2>2 DEF acquire_download_lock, lock_is_stale, cacheVars
<1>3. ASSUME NEW p \in PgProcs,
             \/ CheckCache(p) \/ FetchArchive(p) \/ download_archive(p) \/ ClearTemp(p) \/ extract_archive(p)
             \/ CheckUnpacked(p) \/ RemoveOld(p) \/ MoveNew(p)
      PROVE  PgTypeOK'
  <2>1. (\E code : Fails(p, code)) \/ AfterDownload(p) \/ (\E w \in PgPoints : GoesTo(p, w))
    <3>1. CASE CheckCache(p) \/ MoveNew(p)
      BY <1>w, <3>1 DEF CheckCache, MoveNew
    <3>2. CASE FetchArchive(p) \/ download_archive(p)
      BY <1>w, <3>2 DEF FetchArchive, download_archive
    <3>3. CASE ClearTemp(p) \/ extract_archive(p)
      BY <1>w, <3>3 DEF ClearTemp, extract_archive
    <3>4. CASE CheckUnpacked(p) \/ RemoveOld(p)
      BY <1>w, <3>4 DEF CheckUnpacked, RemoveOld
    <3> QED
      BY <1>3, <3>1, <3>2, <3>3, <3>4
  <2>2. Moves
    BY <1>x, <1>y, <1>z, <2>1
  <2>3. DOMAIN pgArchive' = Versions /\ DOMAIN pgDirs' = Places
    <3>1. CASE CheckCache(p) \/ FetchArchive(p) \/ download_archive(p) \/ CheckUnpacked(p)
      BY <3>1 DEF CheckCache, FetchArchive, download_archive, CheckUnpacked, ArchiveTo, cacheVars
    <3>2. CASE ClearTemp(p) \/ extract_archive(p)
      BY <1>p, <3>2 DEF ClearTemp, extract_archive, TakesFile
    <3>3. CASE RemoveOld(p)
      BY <1>p, <3>3 DEF RemoveOld, TakesFile, TakesDir
    <3>4. CASE MoveNew(p)
      BY <3>4 DEF MoveNew, ArchiveTo, cacheVars
    <3> QED
      BY <1>3, <3>1, <3>2, <3>3, <3>4
  <2>4. UNCHANGED aside
    BY <1>3 DEF CheckCache, FetchArchive, download_archive, ClearTemp, extract_archive, CheckUnpacked, RemoveOld, MoveNew
  <2> QED
    BY <2>2, <2>3, <2>4 DEF aside, Moves
<1>4. ASSUME NEW p \in PgProcs, ResolveAgain(p) PROVE PgTypeOK'
  <2> DEFINE cs == inspect_tool_candidates(pgAsk[p])
  <2>1. pgPc' \in [PgProcs -> PgPoints] /\ DOMAIN pgAnswer' = PgProcs
    BY <1>4, <1>f, <1>g, <1>w DEF ResolveAgain
  <2>2. Accepted(cs) # {} => cs[First(Accepted(cs))].source \in Sources
    BY FirstAccepted, CandidateForms DEF Fitting
  <2>3. pgUsed' \in [PgProcs -> {"none"} \cup Sources]
    BY <1>4, <2>2 DEF ResolveAgain
  <2> QED
    BY <1>4, <2>1, <2>3 DEF ResolveAgain, cacheVars
<1>5. ASSUME NEW p \in PgProcs, run_psql_capture(p) PROVE PgTypeOK'
  <2> DEFINE todo == statements(pgAsk[p])
             next == Len(pgRuns[p]) + 1
  <2>1. pgPc' \in [PgProcs -> PgPoints] /\ DOMAIN pgAnswer' = PgProcs
    BY <1>5, <1>f, <1>w DEF run_psql_capture
  <2>2. pgAsk[p] \in PostgresCli /\ todo.runs \in Seq(BOOLEAN) /\ Len(todo.runs) \in Nat /\ pgRuns[p] \in Seq(BOOLEAN)
    BY StatementRuns
  <2>3. todo.code = "none" => next \in 1 .. Len(todo.runs)
    <3>1. Len(pgRuns[p]) \in Nat /\ RunsInv(p) /\ pgPc[p] = "run"
      BY <1>5, <2>2, LenProperties DEF run_psql_capture, CommandsInv
    <3> QED
      BY <2>2, <3>1 DEF RunsInv
  <2> HIDE DEF todo, next
  <2>4. todo.code = "none" => todo.runs[next] \in BOOLEAN
    BY <2>2, <2>3, ElementOfSeq
  <2>5. todo.code = "none" => Append(pgRuns[p], todo.runs[next]) \in Seq(BOOLEAN)
    BY <2>2, <2>4, AppendProperties
  <2>6. \/ UNCHANGED pgRuns
        \/ todo.code = "none" /\ pgRuns' = [pgRuns EXCEPT ![p] = Append(pgRuns[p], todo.runs[next])]
    BY <1>5 DEF run_psql_capture, todo, next
  <2>7. pgRuns' \in [PgProcs -> Seq(BOOLEAN)]
    BY <2>5, <2>6
  <2> QED
    BY <1>5, <2>1, <2>7 DEF run_psql_capture, cacheVars
<1>6. ASSUME NEW p \in PgProcs, execute_tool_cleanup(p) PROVE PgTypeOK'
  <2>1. pgPc' \in [PgProcs -> PgPoints] /\ DOMAIN pgAnswer' = PgProcs
    BY <1>6, <1>f DEF execute_tool_cleanup
  <2>2. DOMAIN pgDirs' = Places
    BY <1>6, <1>p DEF execute_tool_cleanup, TakesFile, TakesDir
  <2>3. pgSweep' \in [PgProcs -> SUBSET Places]
    BY <1>6 DEF execute_tool_cleanup
  <2> QED
    BY <1>6, <2>1, <2>2, <2>3 DEF execute_tool_cleanup
<1>7. ASSUME NEW p \in PgProcs, CrashDownload(p) PROVE PgTypeOK'
  BY <1>7, <1>g, <1>w DEF CrashDownload, cacheVars
<1>8. ASSUME NEW v \in Versions, LockAges(v) PROVE PgTypeOK'
  BY <1>8 DEF LockAges, cacheVars
<1> QED
  BY <1>1, <1>2, <1>3, <1>4, <1>5, <1>6, <1>7, <1>8 DEF PgNext, PgStep
\* A process that moves on without running anything.
LEMMA MovesOn ==
  ASSUME CommandsInv, PgTypeOK', NEW p \in PgProcs, NEW w, PgGoto(p, w), w \notin {"run", "over", "cleanup"},
         pgPc[p] \notin {"run", "over"}, UNCHANGED <<pgAsk, pgUsed, pgRuns, pgAnswer>>
  PROVE  CommandsInv'
<1>1. \A q \in PgProcs : pgPc'[q] = IF q = p THEN w ELSE pgPc[q]
  BY DEF CommandsInv, PgTypeOK, PgGoto
<1>2. \A q \in PgProcs : UsedInv(q)' /\ RunsInv(q)'
  BY <1>1 DEF CommandsInv, UsedInv, RunsInv
<1> QED
  BY <1>2 DEF CommandsInv

\* A process that answers without having run anything to its end.
LEMMA EndsEarly ==
  ASSUME CommandsInv, PgTypeOK', NEW p \in PgProcs, NEW code, PgFinish(p, code), pgPc[p] # "over",
         code = "ok" => pgAsk[p].cmd \in ToolCommand, UNCHANGED <<pgAsk, pgUsed, pgRuns>>
  PROVE  CommandsInv'
<1>1. \A q \in PgProcs : /\ pgPc'[q] = IF q = p THEN "over" ELSE pgPc[q]
                         /\ pgAnswer'[q] = IF q = p THEN code ELSE pgAnswer[q]
  BY DEF CommandsInv, PgTypeOK, PgFinish, PgGoto
<1>2. \A q \in PgProcs : UsedInv(q)' /\ RunsInv(q)'
  BY <1>1 DEF CommandsInv, UsedInv, RunsInv
<1> QED
  BY <1>2 DEF CommandsInv

\* A process that has found its tool.
LEMMA ToolFound ==
  ASSUME CommandsInv, PgTypeOK', NEW p \in PgProcs, PgGoto(p, "run"), pgPc[p] \notin {"run", "over"},
         NEW t, pgUsed' = [pgUsed EXCEPT ![p] = t], UNCHANGED <<pgAsk, pgRuns, pgAnswer>>, Fitting(pgAsk[p], t)
  PROVE  CommandsInv'
<1>1. \A q \in PgProcs : /\ pgPc'[q] = IF q = p THEN "run" ELSE pgPc[q]
                         /\ pgUsed'[q] = IF q = p THEN t ELSE pgUsed[q]
  BY DEF CommandsInv, PgTypeOK, PgGoto
<1>2. \A q \in PgProcs : UsedInv(q)'
  BY <1>1 DEF CommandsInv, UsedInv, Fitting
<1>3. ASSUME NEW q \in PgProcs, q # p PROVE RunsInv(q)'
  BY <1>1, <1>3 DEF CommandsInv, RunsInv
<1>4. RunsInv(p)'
  <2>1. pgRuns[p] = <<>> /\ pgAnswer[p] = "none" /\ pgAsk[p] \in PostgresCli
    BY DEF CommandsInv, RunsInv, PgTypeOK
  <2>2. Len(pgRuns[p]) = 0 /\ Len(statements(pgAsk[p]).runs) \in Nat
        /\ (statements(pgAsk[p]).code = "none" => Len(statements(pgAsk[p]).runs) > 0)
    BY <2>1, StatementRuns
  <2>3. t # "none"
    BY DEF Sources, Fitting
  <2> QED
    BY <1>1, <2>1, <2>2, <2>3 DEF RunsInv
<1> QED
  BY <1>2, <1>3, <1>4 DEF CommandsInv

LEMMA StartCommands == ASSUME CommandsInv, PgTypeOK', NEW p \in PgProcs, Start(p) PROVE CommandsInv'
<1> DEFINE a == typed_cli(pgAsk[p])
           tool == resolve_operational_tool(a)
<1>0. /\ pgAsk[p] \in PostgresCli /\ a \in PostgresCli /\ a.path = pgAsk[p].path /\ a.env = pgAsk[p].env /\ a.cmd = pgAsk[p].cmd
      /\ pgPc[p] = "start" /\ UNCHANGED <<pgAsk, pgRuns>>
  BY TypedCli DEF CommandsInv, PgTypeOK, Start
<1>1. CASE \E code : PgFinish(p, code) /\ (code = "ok" => a.cmd \in ToolCommand) /\ UNCHANGED pgUsed
  BY <1>0, <1>1, EndsEarly
<1>2. CASE a.cmd \in ToolCommand /\ PgGoto(p, "cleanup") /\ UNCHANGED <<pgUsed, pgAnswer>>
  <2>1. \A q \in PgProcs : pgPc'[q] = IF q = p THEN "cleanup" ELSE pgPc[q]
    BY <1>2 DEF CommandsInv, PgTypeOK, PgGoto
  <2>2. \A q \in PgProcs : UsedInv(q)' /\ RunsInv(q)'
    BY <1>0, <1>2, <2>1 DEF CommandsInv, UsedInv, RunsInv
  <2> QED
    BY <2>2 DEF CommandsInv
<1>3. CASE PgGoto(p, "lock") /\ UNCHANGED <<pgUsed, pgAnswer>>
  BY <1>0, <1>3, MovesOn
<1>4. CASE tool \notin {"missing", "download"} /\ PgGoto(p, "run") /\ UNCHANGED pgAnswer
           /\ pgUsed' = [pgUsed EXCEPT ![p] = tool]
  <2>1. Fitting(pgAsk[p], tool)
    BY <1>0, <1>4, ResolvedTool DEF Fitting
  <2> HIDE DEF tool
  <2> QED
    BY <1>0, <1>4, <2>1, ToolFound
<1>5. \/ \E code : PgFinish(p, code) /\ (code = "ok" => a.cmd \in ToolCommand) /\ UNCHANGED pgUsed
      \/ a.cmd \in ToolCommand /\ PgGoto(p, "cleanup") /\ UNCHANGED <<pgUsed, pgAnswer>>
      \/ PgGoto(p, "lock") /\ UNCHANGED <<pgUsed, pgAnswer>>
      \/ /\ tool \notin {"missing", "download"} /\ PgGoto(p, "run") /\ UNCHANGED pgAnswer
         /\ pgUsed' = [pgUsed EXCEPT ![p] = tool]
  <2> DEFINE bound == bind_resolved_database_connection(a)
  <2>1. bound # "ok" /\ {"status", "use"} \subseteq ToolCommand
    BY DEF bind_resolved_database_connection, ToolCommand
  <2> HIDE DEF bound, tool, a
  <2> QED
    BY <2>1 DEF Start, StartTool, StartQuery, write_tool_config, bound, tool, a
<1> QED
  BY <1>1, <1>2, <1>3, <1>4, <1>5

LEMMA RunCommands == ASSUME CommandsInv, PgTypeOK', NEW p \in PgProcs, run_psql_capture(p) PROVE CommandsInv'
<1> DEFINE todo == statements(pgAsk[p])
           next == Len(pgRuns[p]) + 1
<1>0. /\ pgPc[p] = "run" /\ UNCHANGED <<pgAsk, pgUsed>> /\ pgAsk[p] \in PostgresCli
      /\ pgRuns[p] \in Seq(BOOLEAN) /\ Len(pgRuns[p]) \in Nat
  BY LenProperties DEF CommandsInv, PgTypeOK, run_psql_capture
<1>1. CASE todo.code # "none"
  <2>1. PgFinish(p, todo.code) /\ UNCHANGED pgRuns
    BY <1>1 DEF run_psql_capture
  <2>2. todo.code # "ok"
    BY <1>0, StatementCode
  <2> QED
    BY <1>0, <2>1, <2>2, EndsEarly
<1>2. CASE todo.code = "none"
  <2> DEFINE x == todo.runs[next]
             r == Append(pgRuns[p], x)
  <2>0. Len(todo.runs) \in Nat /\ todo.runs \in Seq(BOOLEAN)
    BY <1>0, StatementRuns
  <2>1. next \in 1 .. Len(todo.runs) /\ \A i \in 1 .. Len(pgRuns[p]) : pgRuns[p][i] = todo.runs[i]
    BY <1>0, <1>2, <2>0 DEF CommandsInv, RunsInv
  <2>2. Len(r) = next /\ r[next] = x /\ \A i \in 1 .. Len(pgRuns[p]) : r[i] = pgRuns[p][i]
    <3>1. x \in BOOLEAN
      BY <2>0, <2>1, ElementOfSeq
    <3> HIDE DEF x
    <3> QED
      BY <1>0, <3>1, AppendProperties
  <2>3. pgRuns' = [pgRuns EXCEPT ![p] = r]
    BY <1>2 DEF run_psql_capture
  <2> DEFINE answer == pgAnswer'[p]
  <2>4. /\ \A q \in PgProcs : pgRuns'[q] = IF q = p THEN r ELSE pgRuns[q]
        /\ \A q \in PgProcs \ {p} : pgPc'[q] = pgPc[q] /\ pgAnswer'[q] = pgAnswer[q]
        /\ \/ pgPc'[p] = "over" /\ (pgAnswer'[p] = "ok" => next = Len(todo.runs))
           \/ pgPc'[p] = "run" /\ pgAnswer'[p] = pgAnswer[p] /\ next # Len(todo.runs)
    <3>1. \A q \in PgProcs : pgRuns'[q] = IF q = p THEN r ELSE pgRuns[q]
      BY <2>3 DEF CommandsInv, PgTypeOK
    <3>2. CASE PgFinish(p, "POSTGRES_PSQL_FAILED") \/ PgFinish(p, "POSTGRES_RESPONSE_INVALID")
      BY <3>1, <3>2 DEF PgFinish, PgGoto, CommandsInv, PgTypeOK
    <3>3. CASE next = Len(todo.runs) /\ \E c : PgFinish(p, c)
      BY <3>1, <3>3 DEF PgFinish, PgGoto, CommandsInv, PgTypeOK
    <3>4. CASE next # Len(todo.runs) /\ UNCHANGED <<pgPc, pgAnswer>>
      BY <1>0, <3>1, <3>4
    <3> QED
      BY <1>2, <3>2, <3>3, <3>4 DEF run_psql_capture
  <2>5. ASSUME NEW q \in PgProcs, q # p PROVE RunsInv(q)'
    BY <1>0, <2>4, <2>5 DEF CommandsInv, RunsInv
  <2>6. ASSUME NEW q \in PgProcs PROVE UsedInv(q)'
    BY <1>0 DEF CommandsInv, UsedInv
  <2>7. RunsInv(p)'
    <3>1. pgUsed[p] # "none" /\ pgAnswer[p] = "none"
      BY <1>0 DEF CommandsInv, RunsInv
    <3>2. \A i \in 1 .. next : i = next \/ i \in 1 .. Len(pgRuns[p])
      BY <1>0
    <3>3. \A i \in 1 .. next : r[i] = todo.runs[i]
      BY <2>1, <2>2, <3>2
    <3>n. next \in Nat
      BY <1>0
    <3> HIDE DEF r, x, todo, next
    <3>4. /\ pgRuns'[p] = r /\ pgAsk'[p] = pgAsk[p] /\ pgUsed'[p] = pgUsed[p] /\ next \in Nat
      BY <1>0, <2>4, <3>n
    <3>5. Len(pgRuns'[p]) <= Len(todo.runs) /\ \A i \in 1 .. Len(pgRuns'[p]) : pgRuns'[p][i] = todo.runs[i]
      BY <2>0, <2>1, <2>2, <3>3, <3>4
    <3>6. pgPc'[p] = "run" => Len(pgRuns'[p]) < Len(todo.runs)
      BY <2>0, <2>1, <2>2, <2>4, <3>4
    <3>7. pgAnswer'[p] = "ok" => Len(pgRuns'[p]) = Len(todo.runs)
      BY <2>2, <2>4, <3>1, <3>4
    <3>8. pgPc'[p] \in {"run", "over"} /\ (pgPc'[p] # "over" => pgAnswer'[p] = "none")
      BY <2>4, <3>1
    <3> QED
      BY <3>1, <3>4, <3>5, <3>6, <3>7, <3>8 DEF RunsInv, todo
  <2> QED
    BY <2>5, <2>6, <2>7 DEF CommandsInv
<1> QED
  BY <1>1, <1>2

LEMMA CommandsStep == ASSUME CommandsInv, [PgNext]_pgVars PROVE CommandsInv'
<1>t. CASE UNCHANGED pgVars
  <2>1. PgTypeOK'
    BY <1>t DEF pgVars, CommandsInv, PgTypeOK
  <2>2. \A q \in PgProcs : UsedInv(q)' /\ RunsInv(q)'
    BY <1>t DEF pgVars, CommandsInv, UsedInv, RunsInv
  <2> QED
    BY <2>1, <2>2 DEF CommandsInv
<1>u. PgNext => PgTypeOK'
  BY PgTypeStep
<1> SUFFICES ASSUME PgNext PROVE CommandsInv'
  BY <1>t
<1>d. \A w \in Downloading \cup {"lock", "steal", "again", "crashed"} : w \notin {"run", "over", "cleanup"}
  BY DEF Downloading
<1>1. ASSUME NEW p \in PgProcs, acquire_download_lock(p) \/ lock_is_stale(p) \/ CheckCache(p) \/ FetchArchive(p)
        \/ download_archive(p) \/ ClearTemp(p) \/ extract_archive(p) \/ CheckUnpacked(p) \/ RemoveOld(p)
        \/ MoveNew(p) \/ CrashDownload(p)
      PROVE CommandsInv'
  <2>1. pgPc[p] \in Downloading \cup {"lock", "steal", "cleanup"} /\ UNCHANGED <<pgAsk, pgUsed, pgRuns>>
    BY <1>1 DEF acquire_download_lock, lock_is_stale, CheckCache, FetchArchive, download_archive, ClearTemp,
                extract_archive, CheckUnpacked, RemoveOld, MoveNew, CrashDownload, Downloading, aside
  <2>2. \/ \E w \in Downloading \cup {"lock", "steal", "again", "crashed"} : PgGoto(p, w) /\ UNCHANGED pgAnswer
        \/ \E code : PgFinish(p, code) /\ (code = "ok" => pgAsk[p].cmd \in ToolCommand)
    <3>1. "download" \in ToolCommand
      BY DEF ToolCommand
    <3>0. "check" \in Downloading
      BY DEF Downloading
    <3>2. CASE acquire_download_lock(p) \/ lock_is_stale(p) \/ CrashDownload(p)
      <4>1. CASE acquire_download_lock(p)
        <5>1. \/ PgGoto(p, "check") /\ UNCHANGED pgAnswer
              \/ PgGoto(p, "steal") /\ UNCHANGED pgAnswer
              \/ PgFinish(p, "POSTGRES_TOOL_DOWNLOAD_FAILED")
          BY <4>1 DEF acquire_download_lock
        <5> QED
          BY <3>0, <5>1
      <4>2. CASE lock_is_stale(p) \/ CrashDownload(p)
        BY <4>2 DEF lock_is_stale, CrashDownload
      <4> QED
        BY <3>2, <4>1, <4>2
    <3>3. CASE CheckCache(p) \/ MoveNew(p)
      BY <3>1, <3>3 DEF CheckCache, MoveNew, AfterDownload, Fails, GoesTo, Downloading
    <3>4. CASE FetchArchive(p) \/ download_archive(p) \/ RemoveOld(p)
      BY <3>4 DEF FetchArchive, download_archive, RemoveOld, Fails, GoesTo, Downloading
    <3>5. CASE extract_archive(p) \/ ClearTemp(p) \/ CheckUnpacked(p)
      <4>1. "clear" \in Downloading /\ "extract" \in Downloading /\ "unpack" \in Downloading
            /\ "publish" \in Downloading /\ "replace" \in Downloading
        BY DEF Downloading
      <4>2. CASE extract_archive(p)
        BY <4>1, <4>2 DEF extract_archive, Fails, GoesTo
      <4>3. CASE ClearTemp(p)
        BY <4>1, <4>3 DEF ClearTemp, Fails, GoesTo
      <4>4. CASE CheckUnpacked(p)
        BY <4>1, <4>4 DEF CheckUnpacked, Fails, GoesTo
      <4> QED
        BY <3>5, <4>2, <4>3, <4>4
    <3> QED
      BY <1>1, <3>2, <3>3, <3>4, <3>5
  <2>3. pgPc[p] \notin {"run", "over"}
    BY <1>d, <2>1
  <2> QED
    BY <1>d, <1>u, <2>1, <2>2, <2>3, MovesOn, EndsEarly
<1>2. ASSUME NEW p \in PgProcs, ResolveAgain(p) PROVE CommandsInv'
  <2> DEFINE cs == inspect_tool_candidates(pgAsk[p])
             t == cs[First(Accepted(cs))].source
  <2>0. pgPc[p] = "again" /\ UNCHANGED <<pgAsk, pgRuns>> /\ pgAsk[p] \in PostgresCli
    BY <1>2 DEF ResolveAgain, CommandsInv, PgTypeOK
  <2>1. CASE Accepted(cs) # {}
    <3>1. Fitting(pgAsk[p], t)
      BY <2>0, <2>1, FirstAccepted, CandidateForms
    <3>2. PgGoto(p, "run") /\ UNCHANGED pgAnswer /\ pgUsed' = [pgUsed EXCEPT ![p] = t]
      BY <1>2, <2>1 DEF ResolveAgain
    <3> HIDE DEF t
    <3> QED
      BY <1>u, <2>0, <3>1, <3>2, ToolFound
  <2>2. CASE Accepted(cs) = {}
    <3>1. PgFinish(p, "POSTGRES_TOOL_UNAVAILABLE") /\ UNCHANGED pgUsed
      BY <1>2, <2>2 DEF ResolveAgain
    <3> QED
      BY <1>u, <2>0, <3>1, EndsEarly
  <2> QED
    BY <2>1, <2>2
<1>3. ASSUME NEW p \in PgProcs, execute_tool_cleanup(p) PROVE CommandsInv'
  <2>1. pgPc[p] = "cleanup" /\ UNCHANGED <<pgAsk, pgUsed, pgRuns>>
    BY <1>3 DEF execute_tool_cleanup
  <2>2. pgAsk[p].cmd \in ToolCommand
    BY <2>1 DEF CommandsInv, RunsInv
  <2>3. CASE \E code : PgFinish(p, code)
    BY <1>u, <2>1, <2>2, <2>3, EndsEarly
  <2>4. CASE UNCHANGED <<pgPc, pgAnswer>>
    <3>1. \A q \in PgProcs : UsedInv(q)' /\ RunsInv(q)'
      BY <2>1, <2>4 DEF CommandsInv, UsedInv, RunsInv
    <3> QED
      BY <1>u, <3>1 DEF CommandsInv
  <2> QED
    BY <1>3, <2>3, <2>4 DEF execute_tool_cleanup
<1>4. ASSUME NEW v \in Versions, LockAges(v) PROVE CommandsInv'
  <2>1. UNCHANGED <<pgAsk, pgPc, pgUsed, pgRuns, pgAnswer>>
    BY <1>4 DEF LockAges
  <2>2. \A q \in PgProcs : UsedInv(q)' /\ RunsInv(q)'
    BY <2>1 DEF CommandsInv, UsedInv, RunsInv
  <2> QED
    BY <1>u, <2>2 DEF CommandsInv
<1> QED
  BY <1>u, <1>1, <1>2, <1>3, <1>4, StartCommands, RunCommands DEF PgNext, PgStep

\* For any number of processes, crashes and slow downloads: only a command its
\* caller confirmed opens a session that may write, a tool that was named by
\* the caller or the environment is used or the command fails, a psql that does not run is never used, and an
\* "ok" means that every session of the command ran (statements,
\* resolve_operational_tool, run_psql_capture).
THEOREM RunsAreAsAsked == PgSpec => []RunsAsAsked
<1>1. CommandsInv => RunsAsAsked
  <2> SUFFICES ASSUME CommandsInv, NEW p \in PgProcs
               PROVE  LET a == pgAsk[p]
                      IN /\ (\E i \in DOMAIN pgRuns[p] : ~pgRuns[p][i]) => a.yes /\ a.cmd \in {"exec", "explain"}
                         /\ a.path # "none" => pgUsed[p] \in {"none", "explicit"}
                         /\ a.path = "none" /\ a.env # "none" => pgUsed[p] \in {"none", "env"}
                         /\ pgUsed[p] = "explicit" => a.path = "good"
                         /\ pgUsed[p] = "env" => a.env = "good"
                         /\ pgUsed[p] = "system" => SystemTool = "good"
                         /\ pgAnswer[p] = "ok" /\ a.cmd \notin ToolCommand =>
                              Len(pgRuns[p]) = Len(statements(a).runs) /\ pgUsed[p] # "none"
    BY DEF RunsAsAsked
  <2>1. UsedInv(p) /\ RunsInv(p) /\ pgRuns[p] \in Seq(BOOLEAN) /\ pgAsk[p] \in PostgresCli
    BY DEF CommandsInv, PgTypeOK
  <2>2. ASSUME NEW i \in DOMAIN pgRuns[p], ~pgRuns[p][i] PROVE pgAsk[p].yes /\ pgAsk[p].cmd \in {"exec", "explain"}
    <3>1. i \in 1 .. Len(pgRuns[p]) /\ Len(pgRuns[p]) \in Nat /\ Len(statements(pgAsk[p]).runs) \in Nat
      BY <2>1, LenProperties, StatementRuns
    <3>2. i \in 1 .. Len(statements(pgAsk[p]).runs) /\ ~statements(pgAsk[p]).runs[i]
      BY <2>1, <2>2, <3>1 DEF RunsInv
    <3> QED
      BY <2>1, <3>2, StatementRuns
  <2> QED
    BY <2>1, <2>2 DEF UsedInv, RunsInv
<1>2. CommandsInv /\ [PgNext]_pgVars => CommandsInv'
  BY CommandsStep
<1> QED
  BY <1>1, <1>2, PgInitInv, PTL DEF PgSpec

-----------------------------------------------------------------------------
(* Downloads take turns when none outlives the lock and nobody is there to  *)
(* steal it twice: no process crashes, or there are only two.               *)

-----------------------------------------------------------------------------
(* The cache: downloads of one version take turns until a lock is taken    *)
(* from one of them.                                                       *)

LEMMA PlaceNames ==
  /\ \A p \in PgProcs : Temp(p) \in Places
  /\ \A v \in Versions : Version(v) \in Places
  /\ \A p, q : Temp(p) = Temp(q) => p = q
  /\ \A v, u : Version(v) = Version(u) => v = u
  /\ \A p, v : Temp(p) # Version(v)
<1>1. \A p \in PgProcs : Temp(p) \in Places
  BY DEF Places
<1>2. \A v \in Versions : Version(v) \in Places
  BY DEF Places
<1>3. \A p, q : Temp(p) = Temp(q) => p = q
  BY DEF Temp
<1>4. \A v, u : Version(v) = Version(u) => v = u
  BY DEF Version
<1>5. \A p, v : Temp(p) # Version(v)
  BY DEF Temp, Version
<1> QED
  BY <1>1, <1>2, <1>3, <1>4, <1>5

LEMMA WantedVersion == \A p : wanted(p) \in Versions
  BY DEF wanted, Versions

\* Nobody else is in the download of a version that was not robbed.
LEMMA OneDownloads ==
  ASSUME DownloadInv, NEW p \in PgProcs, pgPc[p] \in Downloading, Ours(p),
         NEW q \in PgProcs, q # p, wanted(q) = wanted(p)
  PROVE  pgPc[q] \notin Downloading
  BY DEF DownloadInv, TurnOf, Ours

\* A directory is as it was, has lost files, or is gone.
Shrinks(place) ==
  \/ pgDirs'[place] = pgDirs[place]
  \/ pgDirs[place].there /\ \E files \in SUBSET pgDirs[place].files :
       pgDirs'[place] = DirOf(files, pgDirs[place].from, TRUE)
  \/ pgDirs'[place] = Absent

LEMMA TakenFrom ==
  ASSUME PgTypeOK, DownloadInv, NEW place \in Places, TakesFile(place) \/ TakesDir(place)
  PROVE  \A other \in Places : Shrinks(other) /\ (other # place => pgDirs'[other] = pgDirs[other])
<1>1. CASE TakesDir(place)
  BY <1>1 DEF TakesDir, DirTo, PgTypeOK, Shrinks
<1>2. CASE TakesFile(place)
  <2>1. PICK f \in pgDirs[place].files :
          pgDirs' = [pgDirs EXCEPT ![place] = DirOf(pgDirs[place].files \ {f}, pgDirs[place].from, TRUE)]
    BY <1>2 DEF TakesFile, DirTo
  <2> DEFINE files == pgDirs[place].files \ {f}
  <2>2. files \in SUBSET pgDirs[place].files /\ pgDirs[place].there
    BY DEF DownloadInv, PlaceOf
  <2>3. /\ pgDirs'[place] = DirOf(files, pgDirs[place].from, TRUE)
        /\ \A other \in Places \ {place} : pgDirs'[other] = pgDirs[other]
    BY <2>1 DEF PgTypeOK
  <2> HIDE DEF files
  <2> QED
    BY <2>2, <2>3 DEF Shrinks
<1> QED
  BY <1>1, <1>2

\* What is true of a directory stays true while it loses files.
LEMMA ShrunkDir ==
  ASSUME NEW place \in Places, Shrinks(place), PlaceOf(place)
  PROVE  /\ PlaceOf(place)'
         /\ pgDirs'[place].from \in {"none", pgDirs[place].from}
         /\ pgDirs'[place].there \/ pgDirs'[place].from # "none" =>
              /\ pgDirs[place].there /\ pgDirs'[place].from = pgDirs[place].from
              /\ Whole(pgDirs[place]) => Whole(pgDirs'[place])
              /\ HasDll(pgDirs[place]) => HasDll(pgDirs'[place])
<1>1. CASE pgDirs'[place] = pgDirs[place]
  BY <1>1 DEF PlaceOf
<1>2. CASE pgDirs[place].there /\ \E files \in SUBSET pgDirs[place].files :
             pgDirs'[place] = DirOf(files, pgDirs[place].from, TRUE)
  <2>1. PICK files \in SUBSET pgDirs[place].files : pgDirs'[place] = DirOf(files, pgDirs[place].from, TRUE)
    BY <1>2
  <2>2. /\ pgDirs'[place].files = files /\ pgDirs'[place].from = pgDirs[place].from
        /\ pgDirs'[place].there /\ pgDirs'[place].cut
    BY <2>1 DEF DirOf
  <2> QED
    BY <1>2, <2>2 DEF PlaceOf, Whole, HasDll
<1>3. CASE pgDirs'[place] = Absent
  BY <1>3 DEF Absent, PlaceOf
<1> QED
  BY <1>1, <1>2, <1>3 DEF Shrinks

\* A step of p that leaves the download of everyone else alone.
LEMMA DownloadFrame ==
  ASSUME DownloadInv, NEW p \in PgProcs, UNCHANGED pgAsk, pgRobbed \subseteq pgRobbed',
         \A q \in PgProcs \ {p} :
           /\ pgPc'[q] = pgPc[q] /\ Shrinks(Temp(q))
           /\ Ours(q)' /\ pgPc[q] \in Downloading =>
                pgLock'[wanted(q)].by = pgLock[wanted(q)].by /\ pgArchive'[wanted(q)] = pgArchive[wanted(q)],
         \A place \in Places : PlaceOf(place)',
         \A v \in Versions : VersionOf(v)',
         TurnOf(p)', ContentOf(p)'
  PROVE  DownloadInv'
<1>1. \A q : wanted(q)' = wanted(q)
  BY DEF wanted
<1>2. ASSUME NEW q \in PgProcs, q # p PROVE TurnOf(q)' /\ ContentOf(q)'
  <2>1. Ours(q)' => Ours(q)
    BY <1>1 DEF Ours
  <2>2. TurnOf(q)'
    BY <1>1, <1>2, <2>1 DEF TurnOf, DownloadInv
  <2>3. Temp(q) \in Places /\ PlaceOf(Temp(q)) /\ Shrinks(Temp(q)) /\ pgPc'[q] = pgPc[q]
    BY <1>2, PlaceNames DEF DownloadInv
  <2> DEFINE d == pgDirs[Temp(q)]
             e == pgDirs'[Temp(q)]
  <2>4. /\ e.from \in {"none", d.from}
        /\ e.there => d.there /\ (Whole(d) => Whole(e)) /\ (HasDll(d) => HasDll(e))
    BY <2>3, ShrunkDir
  <2>5. ContentOf(q) /\ Temp(q)' = Temp(q)
    BY DEF DownloadInv, Temp
  <2>6. Ours(q)' /\ pgPc[q] \in Downloading => pgArchive'[wanted(q)] = pgArchive[wanted(q)]
    BY <1>2
  <2> HIDE DEF d, e
  <2>7. ContentOf(q)'
    BY <1>1, <2>1, <2>3, <2>4, <2>5, <2>6 DEF ContentOf, Downloading, d, e
  <2> QED
    BY <2>2, <2>7
<1> QED
  BY <1>2 DEF DownloadInv

\* A step of the download itself: alone on its version, it may do what it
\* likes with the lock and the archive.
LEMMA OwnDownload ==
  ASSUME DownloadInv, PgTypeOK, NEW p \in PgProcs, pgPc[p] \in Downloading, UNCHANGED <<pgAsk, pgRobbed>>,
         NEW w, pgPc' = [pgPc EXCEPT ![p] = w],
         pgLock' = pgLock \/ (\E lock : LockTo(p, lock)),
         pgArchive' = pgArchive \/ (\E content : ArchiveTo(p, content)),
         \A q \in PgProcs \ {p} : pgDirs'[Temp(q)] = pgDirs[Temp(q)],
         \A place \in Places : PlaceOf(place)',
         \A v \in Versions : VersionOf(v)',
         TurnOf(p)', ContentOf(p)'
  PROVE  DownloadInv'
<1>1. ASSUME NEW q \in PgProcs, q # p PROVE pgPc'[q] = pgPc[q] /\ Shrinks(Temp(q))
  BY <1>1 DEF PgTypeOK, Shrinks
<1>2. ASSUME NEW q \in PgProcs, q # p, Ours(q)', pgPc[q] \in Downloading
      PROVE  pgLock'[wanted(q)] = pgLock[wanted(q)] /\ pgArchive'[wanted(q)] = pgArchive[wanted(q)]
  <2>1. Ours(q)
    BY <1>2 DEF Ours, wanted
  <2>2. wanted(q) # wanted(p)
    BY <1>2, <2>1, OneDownloads
  <2> QED
    BY <2>2, WantedVersion DEF PgTypeOK, LockTo, ArchiveTo
<1> QED
  BY <1>1, <1>2, DownloadFrame

\* Outside a download: nothing of the cache, the locks or the robbed versions changes.
LEMMA QuietStep ==
  ASSUME CommandsInv, DownloadInv, NEW p \in PgProcs,
         Start(p) \/ ResolveAgain(p) \/ run_psql_capture(p) \/ CrashDownload(p)
  PROVE  DownloadInv'
<1>0. PgTypeOK
  BY DEF CommandsInv
<1>1. UNCHANGED <<pgAsk, pgLock, pgArchive, pgDirs, pgRobbed>>
  BY DEF Start, ResolveAgain, run_psql_capture, CrashDownload, cacheVars
<1>2. \/ UNCHANGED pgPc
      \/ \E w \in {"over", "run", "lock", "cleanup", "crashed"} : pgPc' = [pgPc EXCEPT ![p] = w]
  <2>1. CASE Start(p)
    <3> DEFINE a == typed_cli(pgAsk[p])
               tool == resolve_operational_tool(a)
    <3>1. (\E code : PgFinish(p, code)) \/ StartTool(p, a) \/ StartQuery(p, tool)
      BY <2>1 DEF Start
    <3> HIDE DEF a, tool
    <3> QED
      BY <3>1 DEF StartTool, StartQuery, write_tool_config, PgFinish, PgGoto
  <2>2. CASE ResolveAgain(p) \/ run_psql_capture(p) \/ CrashDownload(p)
    BY <2>2 DEF ResolveAgain, run_psql_capture, CrashDownload, PgFinish, PgGoto
  <2> QED
    BY <2>1, <2>2
<1>3. CASE UNCHANGED pgPc
  BY <1>1, <1>3 DEF DownloadInv, TurnOf, ContentOf, VersionOf, PlaceOf, Ours, wanted, Temp, Version
<1>4. ASSUME NEW w \in {"over", "run", "lock", "cleanup", "crashed"}, pgPc' = [pgPc EXCEPT ![p] = w]
      PROVE  DownloadInv'
  <2>1. \A q \in PgProcs \ {p} : pgPc'[q] = pgPc[q] /\ Shrinks(Temp(q))
    BY <1>0, <1>1, <1>4 DEF PgTypeOK, Shrinks
  <2>2. TurnOf(p)' /\ ContentOf(p)'
    BY <1>0, <1>4 DEF TurnOf, ContentOf, Downloading, PgTypeOK
  <2>3. (\A place \in Places : PlaceOf(place)') /\ (\A v \in Versions : VersionOf(v)')
    BY <1>1 DEF DownloadInv, PlaceOf, VersionOf, Version
  <2> QED
    BY <1>1, <2>1, <2>2, <2>3, DownloadFrame
<1> QED
  BY <1>2, <1>3, <1>4

\* The lock: taken when nobody has it, removed with the download it robs.
LEMMA LockStep ==
  ASSUME CommandsInv, DownloadInv, NEW p \in PgProcs, acquire_download_lock(p) \/ lock_is_stale(p)
  PROVE  DownloadInv'
<1>0. PgTypeOK /\ 0 \notin PgProcs /\ wanted(p) \in Versions
  BY PgAssumption, WantedVersion DEF CommandsInv
<1>1. UNCHANGED <<pgAsk, pgArchive, pgDirs>> /\ pgRobbed \subseteq pgRobbed'
  BY DEF acquire_download_lock, lock_is_stale, cacheVars
<1>2. (\A place \in Places : PlaceOf(place)') /\ (\A v \in Versions : VersionOf(v)')
  BY <1>1 DEF DownloadInv, PlaceOf, VersionOf, Version
<1>3. /\ \E w \in {"over", "check", "steal", "lock"} : pgPc' = [pgPc EXCEPT ![p] = w] /\ (w = "check" => LockTo(p, LockBy(p, FALSE)))
      /\ pgLock' = pgLock \/ (\E lock : LockTo(p, lock))
  BY DEF acquire_download_lock, lock_is_stale, PgFinish, PgGoto
<1>4. PICK w \in {"over", "check", "steal", "lock"} :
        pgPc' = [pgPc EXCEPT ![p] = w] /\ (w = "check" => LockTo(p, LockBy(p, FALSE)))
  BY <1>3
<1>5. \A q \in PgProcs \ {p} : pgPc'[q] = pgPc[q] /\ Shrinks(Temp(q))
  BY <1>0, <1>1, <1>4 DEF PgTypeOK, Shrinks
<1>6. pgPc'[p] = w /\ wanted(p)' = wanted(p)
  BY <1>0, <1>1, <1>4 DEF PgTypeOK, wanted
<1>7. TurnOf(p)' /\ ContentOf(p)'
  <2>1. ContentOf(p)'
    BY <1>6 DEF ContentOf
  <2>2. CASE w = "check"
    <3>1. pgLock'[wanted(p)] = LockBy(p, FALSE)
      BY <1>0, <1>4, <2>2 DEF LockTo, PgTypeOK
    <3>2. pgLock'[wanted(p)].by = p
      BY <3>1 DEF LockBy
    <3> QED
      BY <1>6, <2>1, <3>2 DEF TurnOf
  <2>3. CASE w # "check"
    BY <1>6, <2>1, <2>3 DEF TurnOf, Downloading
  <2> QED
    BY <2>2, <2>3
<1>8. ASSUME NEW q \in PgProcs, q # p, Ours(q)', pgPc[q] \in Downloading
      PROVE  pgLock'[wanted(q)] = pgLock[wanted(q)]
  <2>1. Ours(q) /\ wanted(q) \in Versions /\ wanted(q) \notin pgRobbed'
    BY <1>1, <1>8, WantedVersion DEF Ours, wanted
  <2>2. CASE wanted(q) # wanted(p)
    BY <1>0, <1>3, <2>1, <2>2 DEF LockTo, PgTypeOK
  <2>3. CASE wanted(q) = wanted(p)
    <3>1. pgLock[wanted(p)].by = q
      BY <1>8, <2>1, <2>3 DEF DownloadInv, TurnOf
    <3>2. pgLock[wanted(p)].by # 0
      BY <1>0, <3>1
    <3>3. CASE acquire_download_lock(p)
      <4>1. pgLock' = pgLock
        BY <3>2, <3>3 DEF acquire_download_lock
      <4> QED
        BY <4>1
    <3>4. CASE lock_is_stale(p)
      <4>1. q \in DownloadsOf(wanted(p))
        BY <1>8, <2>3 DEF DownloadsOf
      <4>2. pgLock' = pgLock
        BY <2>1, <2>3, <3>4, <4>1 DEF lock_is_stale
      <4> QED
        BY <4>2
    <3> QED
      BY <3>3, <3>4
  <2> QED
    BY <2>2, <2>3
<1> QED
  BY <1>1, <1>2, <1>5, <1>7, <1>8, DownloadFrame

\* A cleanup takes files and directories of anybody.
LEMMA CleanupStep ==
  ASSUME CommandsInv, DownloadInv, NEW p \in PgProcs, execute_tool_cleanup(p)
  PROVE  DownloadInv'
<1>0. PgTypeOK /\ pgPc[p] = "cleanup" /\ UNCHANGED <<pgAsk, pgLock, pgArchive, pgRobbed>>
  BY DEF CommandsInv, execute_tool_cleanup
<1>1. \A place \in Places : Shrinks(place)
  <2>1. CASE UNCHANGED pgDirs
    BY <2>1 DEF Shrinks
  <2>2. ASSUME NEW place \in pgSweep[p], TakesFile(place) \/ TakesDir(place)
        PROVE  \A other \in Places : Shrinks(other)
    BY <1>0, <2>2, TakenFrom DEF PgTypeOK
  <2> QED
    BY <2>1, <2>2 DEF execute_tool_cleanup
<1>2. UNCHANGED pgPc \/ pgPc' = [pgPc EXCEPT ![p] = "over"]
  BY DEF execute_tool_cleanup, PgFinish, PgGoto
<1>3. pgPc'[p] \in {"cleanup", "over"} /\ \A q \in PgProcs \ {p} : pgPc'[q] = pgPc[q] /\ Shrinks(Temp(q))
  BY <1>0, <1>1, <1>2, PlaceNames DEF PgTypeOK
<1>4. TurnOf(p)' /\ ContentOf(p)'
  BY <1>3 DEF TurnOf, ContentOf, Downloading
<1>5. \A place \in Places : PlaceOf(place)'
  BY <1>1, ShrunkDir DEF DownloadInv
<1>6. ASSUME NEW v \in Versions PROVE VersionOf(v)'
  <2>1. Version(v) \in Places /\ PlaceOf(Version(v)) /\ VersionOf(v) /\ Version(v)' = Version(v)
    BY PlaceNames DEF DownloadInv, Version
  <2> QED
    BY <1>0, <1>1, <2>1, ShrunkDir DEF VersionOf
<1> QED
  BY <1>0, <1>3, <1>4, <1>5, <1>6, DownloadFrame

LEMMA AgesStep == ASSUME CommandsInv, DownloadInv, NEW v \in Versions, LockAges(v) PROVE DownloadInv'
<1>1. UNCHANGED <<pgAsk, pgPc, pgArchive, pgDirs, pgRobbed>>
  BY DEF LockAges, cacheVars
<1>2. ASSUME NEW u \in Versions PROVE pgLock'[u].by = pgLock[u].by
  <2>1. LockBy(pgLock[v].by, TRUE).by = pgLock[v].by
    BY DEF LockBy
  <2> QED
    BY <2>1 DEF LockAges, CommandsInv, PgTypeOK
<1>3. ASSUME NEW p \in PgProcs PROVE TurnOf(p)' /\ ContentOf(p)'
  <2>1. wanted(p) \in Versions /\ wanted(p)' = wanted(p)
    BY <1>1, WantedVersion DEF wanted
  <2>2. TurnOf(p)'
    BY <1>1, <1>2, <2>1 DEF DownloadInv, TurnOf, Ours
  <2> QED
    BY <1>1, <2>1, <2>2 DEF DownloadInv, ContentOf, Ours, Temp
<1>4. (\A place \in Places : PlaceOf(place)') /\ (\A u \in Versions : VersionOf(u)')
  BY <1>1 DEF DownloadInv, PlaceOf, VersionOf, Version
<1> QED
  BY <1>3, <1>4 DEF DownloadInv

\* The steps of a download, which leave the directories of others alone.
LEMMA DownloadStep ==
  ASSUME CommandsInv, DownloadInv, NEW p \in PgProcs,
         \/ CheckCache(p) \/ FetchArchive(p) \/ download_archive(p) \/ ClearTemp(p) \/ extract_archive(p)
         \/ CheckUnpacked(p) \/ RemoveOld(p) \/ MoveNew(p)
  PROVE  DownloadInv'
<1> DEFINE v == wanted(p)
           t == Temp(p)
           d == pgDirs[t]
           place == Version(v)
<1>0. PgTypeOK /\ v \in Versions /\ t \in Places /\ place \in Places /\ t # place
      /\ (\A q \in PgProcs \ {p} : Temp(q) # t /\ Temp(q) # place /\ Temp(q) \in Places)
      /\ (\A u \in Versions : Version(u) # t /\ Version(u) \in Places /\ (u # v => Version(u) # place))
  BY WantedVersion, PlaceNames DEF CommandsInv
<1>1. pgPc[p] \in Downloading /\ UNCHANGED aside
  BY DEF CheckCache, FetchArchive, download_archive, ClearTemp, extract_archive, CheckUnpacked, RemoveOld, MoveNew,
         Downloading
<1>2. v' = v /\ Ours(p)' = Ours(p) /\ t' = t /\ place' = place
  BY <1>1 DEF aside, wanted, Ours, Temp, Version
<1>3. TurnOf(p) /\ ContentOf(p) /\ PlaceOf(t) /\ PlaceOf(place)
  BY <1>0 DEF DownloadInv
<1> HIDE DEF v, t, place
\* The process goes on to w, keeping its lock.
<1>g. ASSUME NEW w \in Downloading, GoesTo(p, w),
             pgArchive' = pgArchive \/ (\E content : ArchiveTo(p, content)),
             \A q \in PgProcs \ {p} : pgDirs'[Temp(q)] = pgDirs[Temp(q)],
             \A x \in Places : PlaceOf(x)', \A u \in Versions : VersionOf(u)', ContentOf(p)'
      PROVE  DownloadInv'
  <2>1. pgPc' = [pgPc EXCEPT ![p] = w] /\ pgLock' = pgLock
    BY <1>g DEF GoesTo, PgGoto
  <2>2. TurnOf(p)'
    BY <1>1, <1>2, <1>3, <2>1 DEF TurnOf, v
  <2> QED
    BY <1>0, <1>1, <1>g, <2>1, <2>2, OwnDownload DEF aside
\* The process leaves, dropping its lock.
<1>l. ASSUME (\E code : Fails(p, code)) \/ AfterDownload(p),
             pgArchive' = pgArchive \/ (\E content : ArchiveTo(p, content)),
             \A q \in PgProcs \ {p} : pgDirs'[Temp(q)] = pgDirs[Temp(q)],
             \A x \in Places : PlaceOf(x)', \A u \in Versions : VersionOf(u)'
      PROVE  DownloadInv'
  <2>1. PICK w \in {"over", "again"} : pgPc' = [pgPc EXCEPT ![p] = w]
    BY <1>l DEF Fails, AfterDownload, PgFinish, PgGoto
  <2>2. \E lock : LockTo(p, lock)
    BY <1>l DEF Fails, AfterDownload, DownloadLockDrop
  <2>3. pgPc'[p] = w
    BY <1>0, <2>1 DEF PgTypeOK
  <2>4. TurnOf(p)' /\ ContentOf(p)'
    BY <2>3 DEF TurnOf, ContentOf, Downloading
  <2> QED
    BY <1>0, <1>1, <1>l, <2>1, <2>2, <2>4, OwnDownload DEF aside
<1>n. ASSUME UNCHANGED pgDirs
      PROVE  /\ \A q \in PgProcs \ {p} : pgDirs'[Temp(q)] = pgDirs[Temp(q)]
             /\ \A x \in Places : PlaceOf(x)'
             /\ \A u \in Versions : VersionOf(u)'
  BY <1>1, <1>n DEF DownloadInv, PlaceOf, VersionOf, Version, aside
<1>w. \A w \in {"fetch", "hash", "clear", "extract", "unpack", "publish", "replace", "move"} : w \in Downloading
  BY DEF Downloading
<1>p. ASSUME NEW w, GoesTo(p, w) PROVE pgPc'[p] = w
  BY <1>0, <1>p DEF GoesTo, PgGoto, PgTypeOK
<1>4. CASE CheckCache(p)
  <2>1. UNCHANGED <<pgDirs, pgArchive>> /\ (AfterDownload(p) \/ GoesTo(p, "fetch"))
    BY <1>4 DEF CheckCache, cacheVars
  <2>2. GoesTo(p, "fetch") => ContentOf(p)'
    BY <1>p DEF ContentOf
  <2> QED
    BY <1>g, <1>l, <1>n, <1>w, <2>1, <2>2
<1>5. CASE FetchArchive(p)
  <2>1. CASE ArchiveTo(p, "partial") /\ GoesTo(p, "hash") /\ UNCHANGED pgDirs
    <3>1. pgPc'[p] = "hash" /\ pgArchive'[v] = "partial"
      BY <1>0, <1>p, <2>1 DEF ArchiveTo, PgTypeOK, v
    <3>2. ContentOf(p)'
      BY <1>2, <3>1 DEF ContentOf, v
    <3> QED
      BY <1>g, <1>n, <1>w, <2>1, <3>2
  <2>2. CASE Fails(p, "POSTGRES_TOOL_DOWNLOAD_FAILED") /\ UNCHANGED <<pgDirs, pgArchive>>
    BY <1>l, <1>n, <2>2
  <2> QED
    BY <1>5, <2>1, <2>2 DEF FetchArchive
<1>6. CASE download_archive(p)
  <2>1. CASE pgPc[p] = "hash" /\ ArchiveTo(p, Received(p)) /\ GoesTo(p, "clear") /\ UNCHANGED pgDirs
    <3>1. ASSUME Ours(p) PROVE Received(p) = "good"
      <4>1. pgArchive[v] = "partial"
        BY <1>3, <2>1, <3>1 DEF ContentOf, v
      <4>2. ASSUME NEW q \in PgProcs \ {p}, pgPc[q] = "hash", wanted(q) = wanted(p) PROVE FALSE
        <5>1. pgPc[q] \in Downloading
          BY <1>w, <4>2
        <5> QED
          BY <1>1, <3>1, <4>2, <5>1, OneDownloads
      <4> QED
        BY <4>1, <4>2 DEF Received, OthersWriting, v
    <3>2. pgPc'[p] = "clear" /\ pgArchive'[v] = Received(p)
      BY <1>0, <1>p, <2>1 DEF ArchiveTo, PgTypeOK, v
    <3>3. ContentOf(p)'
      BY <1>2, <3>1, <3>2 DEF ContentOf, v
    <3> QED
      BY <1>g, <1>n, <1>w, <2>1, <3>3
  <2>2. CASE /\ \E code : Fails(p, code)
             /\ UNCHANGED pgDirs /\ (UNCHANGED pgArchive \/ ArchiveTo(p, "none"))
    BY <1>l, <1>n, <2>2
  <2> QED
    BY <1>6, <2>1, <2>2 DEF download_archive
\* One directory of this download changes; those of everybody else are kept.
<1>o. ASSUME NEW dir, DirTo(t, dir), dir.files \subseteq Tools, dir.there
      PROVE  /\ pgDirs'[t] = dir
             /\ \A q \in PgProcs \ {p} : pgDirs'[Temp(q)] = pgDirs[Temp(q)]
             /\ \A x \in Places : PlaceOf(x)'
             /\ \A u \in Versions : VersionOf(u)'
  <2>1. pgDirs'[t] = dir /\ \A x \in Places \ {t} : pgDirs'[x] = pgDirs[x]
    BY <1>0, <1>o DEF DirTo, PgTypeOK
  <2>2. ASSUME NEW x \in Places PROVE PlaceOf(x)'
    <3>1. CASE x = t
      BY <1>o, <2>1, <3>1 DEF PlaceOf
    <3>2. CASE x # t
      BY <2>1, <3>2 DEF PlaceOf, DownloadInv
    <3> QED
      BY <3>1, <3>2
  <2>3. ASSUME NEW u \in Versions PROVE VersionOf(u)'
    <3>1. pgDirs'[Version(u)] = pgDirs[Version(u)] /\ UNCHANGED pgRobbed
      BY <1>0, <1>1, <2>1 DEF aside
    <3> QED
      BY <3>1 DEF VersionOf, DownloadInv, Version
  <2> QED
    BY <1>0, <2>1, <2>2, <2>3
<1>7. CASE ClearTemp(p)
  <2>0. pgPc[p] = "clear" /\ UNCHANGED pgArchive /\ (Ours(p) => pgArchive[v] = "good")
    BY <1>3, <1>7 DEF ClearTemp, ContentOf, v
  <2>1. CASE TakesFile(t) /\ GoesTo(p, "clear")
    <3>1. PICK f \in d.files : DirTo(t, DirOf(d.files \ {f}, d.from, TRUE))
      BY <2>1 DEF TakesFile
    <3> DEFINE e == DirOf(d.files \ {f}, d.from, TRUE)
    <3>2. e.files \subseteq Tools /\ e.there
      BY <1>3 DEF DirOf, PlaceOf
    <3>3. ContentOf(p)'
      BY <1>2, <1>p, <2>0, <2>1 DEF ContentOf, v
    <3> HIDE DEF e
    <3>4. DirTo(t, e)
      BY <3>1 DEF e
    <3> QED
      BY <1>g, <1>o, <1>w, <2>0, <2>1, <3>2, <3>3, <3>4
  <2>2. CASE DirTo(t, DirOf({}, "none", FALSE)) /\ GoesTo(p, "extract")
    <3> DEFINE e == DirOf({}, "none", FALSE)
    <3>1. e.files \subseteq Tools /\ e.there /\ e.from = "none"
      BY DEF DirOf
    <3> HIDE DEF e
    <3>2. DirTo(t, e)
      BY <2>2 DEF e
    <3>3. pgDirs'[t] = e
      BY <1>o, <3>1, <3>2
    <3>4. ContentOf(p)'
      BY <1>2, <1>p, <2>0, <2>2, <3>1, <3>3 DEF ContentOf, v, t
    <3> QED
      BY <1>g, <1>o, <1>w, <2>0, <2>2, <3>1, <3>2, <3>4
  <2>3. CASE (\E code : Fails(p, code)) /\ UNCHANGED pgDirs
    BY <1>l, <1>n, <2>0, <2>3
  <2> QED
    BY <1>7, <2>1, <2>2, <2>3 DEF ClearTemp, t
<1>8. CASE extract_archive(p)
  <2> DEFINE f == IF pgPc[p] = "extract" THEN "dll" ELSE "psql"
             w == IF pgPc[p] = "extract" THEN "unpack" ELSE "publish"
             archive == pgArchive[v]
             e == Unpacked(d, f, archive)
  <2>0. /\ pgPc[p] \in {"extract", "unpack"} /\ UNCHANGED pgArchive /\ (Ours(p) => archive = "good")
    BY <1>3, <1>8 DEF extract_archive, ContentOf, v
  <2>1. CASE DirTo(t, e) /\ GoesTo(p, w)
    <3>1. /\ e.there /\ e.files = d.files \cup {f}
          /\ e.from = IF d.from \in {"none", archive} THEN archive ELSE "mixed"
          /\ e.cut = (d.cut \/ ~d.there)
      BY DEF Unpacked, DirOf
    <3>2. e.files \subseteq Tools
      BY <1>3, <3>1 DEF PlaceOf, Tools
    <3>3. w \in Downloading
      BY <1>w
    <3> HIDE DEF e
    <3>4. pgDirs'[t] = e
      BY <1>o, <2>1, <3>1, <3>2
    <3>5. ContentOf(p)'
      <4>1. CASE pgPc[p] = "extract"
        <5>1. pgPc'[p] = "unpack"
          BY <1>p, <2>1, <4>1
        <5>2. Ours(p) => d.from = "none"
          BY <1>3, <4>1 DEF ContentOf, t
        <5>3. Ours(p) => HasDll(e)
          BY <2>0, <3>1, <4>1, <5>2 DEF HasDll
        <5> QED
          BY <1>2, <2>0, <3>4, <5>1, <5>3 DEF ContentOf, v, t
      <4>2. CASE pgPc[p] = "unpack"
        <5>1. pgPc'[p] = "publish"
          BY <1>p, <2>1, <4>2
        <5>2. Ours(p) /\ d.there => HasDll(d)
          BY <1>3, <4>2 DEF ContentOf, t
        <5>3. Ours(p) => Whole(e)
          <6>1. CASE d.there
            BY <2>0, <3>1, <3>2, <4>2, <5>2, <6>1 DEF HasDll, Whole, Tools
          <6>2. CASE ~d.there
            BY <1>3, <2>0, <3>1, <6>2 DEF Whole, PlaceOf
          <6> QED
            BY <6>1, <6>2
        <5> QED
          BY <1>2, <3>4, <5>1, <5>3 DEF ContentOf, v, t
      <4> QED
        BY <2>0, <4>1, <4>2
    <3> HIDE DEF w
    <3> QED
      BY <1>g, <1>o, <2>0, <2>1, <3>1, <3>2, <3>3, <3>5
  <2>2. CASE (\E code : Fails(p, code)) /\ UNCHANGED pgDirs
    BY <1>l, <1>n, <2>0, <2>2
  <2> QED
    BY <1>8, <2>1, <2>2 DEF extract_archive, t, v
<1>9. CASE CheckUnpacked(p)
  <2>1. pgPc[p] = "publish" /\ UNCHANGED <<pgDirs, pgArchive>>
        /\ (GoesTo(p, "replace") \/ (\E code : Fails(p, code)))
    BY <1>9 DEF CheckUnpacked, cacheVars
  <2>2. GoesTo(p, "replace") => ContentOf(p)'
    BY <1>2, <1>3, <1>p, <2>1 DEF ContentOf, Temp
  <2> QED
    BY <1>g, <1>l, <1>n, <1>w, <2>1, <2>2
<1>10. CASE RemoveOld(p)
  <2>0. pgPc[p] = "replace" /\ UNCHANGED pgArchive
    BY <1>10 DEF RemoveOld
  <2>1. ASSUME pgDirs'[t] = d, NEW w \in {"replace", "move"}, GoesTo(p, w) PROVE ContentOf(p)' /\ w \in Downloading
    BY <1>2, <1>3, <1>p, <1>w, <2>0, <2>1 DEF ContentOf, t
  <2>2. CASE UNCHANGED pgDirs /\ (GoesTo(p, "move") \/ (\E code : Fails(p, code)))
    BY <1>g, <1>l, <1>n, <1>w, <2>0, <2>1, <2>2
  <2>3. ASSUME NEW w \in {"replace", "move"}, GoesTo(p, w), TakesFile(place) \/ TakesDir(place) PROVE DownloadInv'
    <3>1. \A x \in Places : Shrinks(x) /\ (x # place => pgDirs'[x] = pgDirs[x])
      BY <1>0, <2>3, TakenFrom
    <3>2. \A x \in Places : PlaceOf(x)'
      BY <3>1, ShrunkDir DEF DownloadInv
    <3>3. ASSUME NEW u \in Versions PROVE VersionOf(u)'
      <4>1. Version(u) \in Places /\ PlaceOf(Version(u)) /\ VersionOf(u) /\ Version(u)' = Version(u) /\ UNCHANGED pgRobbed
        BY <1>0, <1>1 DEF DownloadInv, Version, aside
      <4> QED
        BY <3>1, <4>1, ShrunkDir DEF VersionOf
    <3>4. pgDirs'[t] = d /\ \A q \in PgProcs \ {p} : pgDirs'[Temp(q)] = pgDirs[Temp(q)]
      BY <1>0, <3>1
    <3> QED
      BY <1>g, <2>0, <2>1, <2>3, <3>2, <3>3, <3>4
  <2> QED
    BY <1>10, <2>2, <2>3 DEF RemoveOld, place, v
<1>11. CASE MoveNew(p)
  <2>0. pgPc[p] = "move"
    BY <1>11 DEF MoveNew
  <2>1. CASE /\ d.there /\ AfterDownload(p) /\ ArchiveTo(p, "none")
             /\ pgDirs' = [pgDirs EXCEPT ![place] = d, ![t] = Absent]
    <3>1. pgDirs'[place] = d /\ pgDirs'[t] = Absent /\ \A x \in Places \ {place, t} : pgDirs'[x] = pgDirs[x]
      BY <1>0, <2>1 DEF PgTypeOK
    <3>2. ASSUME NEW x \in Places PROVE PlaceOf(x)'
      <4>1. CASE x = t
        BY <3>1, <4>1 DEF PlaceOf, Absent
      <4>2. CASE x = place
        BY <1>3, <3>1, <4>2 DEF PlaceOf
      <4>3. CASE x \notin {place, t}
        BY <3>1, <4>3 DEF PlaceOf, DownloadInv
      <4> QED
        BY <4>1, <4>2, <4>3
    <3>3. ASSUME NEW u \in Versions PROVE VersionOf(u)'
      <4>0. Version(u)' = Version(u) /\ UNCHANGED pgRobbed
        BY <1>1 DEF Version, aside
      <4>1. CASE u = v
        <5>1. Ours(p) => Whole(d)
          BY <1>3, <2>0, <2>1 DEF ContentOf, t
        <5>2. pgDirs'[Version(u)] = d
          BY <3>1, <4>1 DEF place
        <5> QED
          BY <4>0, <4>1, <5>1, <5>2 DEF VersionOf, Ours, v
      <4>2. CASE u # v
        <5>1. pgDirs'[Version(u)] = pgDirs[Version(u)]
          BY <1>0, <3>1, <4>2
        <5> QED
          BY <4>0, <5>1 DEF VersionOf, DownloadInv
      <4> QED
        BY <4>1, <4>2
    <3> QED
      BY <1>0, <1>l, <2>1, <3>1, <3>2, <3>3
  <2>2. CASE (\E code : Fails(p, code)) /\ UNCHANGED <<pgDirs, pgArchive>>
    BY <1>l, <1>n, <2>2
  <2> QED
    BY <1>11, <2>1, <2>2 DEF MoveNew, cacheVars, place, t, v
<1> QED
  BY <1>4, <1>5, <1>6, <1>7, <1>8, <1>9, <1>10, <1>11

\* For any number of processes, crashes and slow downloads, and although a removal may fail
\* or stop half-way: the downloads of a version take turns and what they install was compared
\* with the pinned digest and is whole until somebody removes files of it, unless the lock of
\* that version was removed while a download held it; and every command runs as it was asked
\* (acquire_download_lock, download_archive, extract_archive, remove_cache_dir).
THEOREM ToolIsSound == PgSpec => []ToolSound
<1>1. CommandsInv /\ DownloadInv => InstalledIsVerified
  <2> SUFFICES ASSUME CommandsInv, DownloadInv PROVE InstalledIsVerified
    OBVIOUS
  <2>1. TakeTurns
    <3> SUFFICES ASSUME NEW p \in PgProcs, NEW q \in PgProcs, p \in DownloadsOf(wanted(q)),
                        q \in DownloadsOf(wanted(q)), wanted(q) \notin pgRobbed
                 PROVE  p = q
      BY DEF TakeTurns
    <3>1. pgPc[p] \in Downloading /\ pgPc[q] \in Downloading /\ wanted(p) = wanted(q) /\ Ours(p)
      BY DEF DownloadsOf, Ours
    <3> QED
      BY <3>1, OneDownloads
  <2> QED
    BY <2>1 DEF InstalledIsVerified, DownloadInv, VersionOf, Whole
<1>2. CommandsInv /\ DownloadInv /\ [PgNext]_pgVars => (CommandsInv /\ DownloadInv)'
  <2> SUFFICES ASSUME CommandsInv, DownloadInv, [PgNext]_pgVars PROVE (CommandsInv /\ DownloadInv)'
    OBVIOUS
  <2>1. CommandsInv'
    BY CommandsStep
  <2>2. CASE UNCHANGED pgVars
    BY <2>1, <2>2 DEF pgVars, DownloadInv, TurnOf, ContentOf, VersionOf, PlaceOf, Ours, wanted, Temp, Version
  <2>3. CASE PgNext
    BY <2>1, <2>3, QuietStep, LockStep, CleanupStep, AgesStep, DownloadStep DEF PgNext, PgStep
  <2> QED
    BY <2>2, <2>3
<1>3. PgSpec => []InstalledIsVerified
  BY <1>1, <1>2, PgInitInv, PTL DEF PgSpec
<1> QED
  BY <1>3, RunsAreAsAsked, PTL DEF ToolSound

-----------------------------------------------------------------------------
(* The http domain.                                                        *)

HttpOutcomes == Responses \cup Unanswered \cup {ReadFailed}
AttemptSet == [case : Nat, from : SUBSET Int, outcome : HttpOutcomes, began : Nat, answered : Nat, ended : Nat]
CaseOpen == {"prepare", "attempt", "wait", "evaluate"}
IsSpec == httpAsk.op = "assert"
AttemptsOf(k) == {i \in DOMAIN attempts : attempts[i].case = k}
ChecksOf(k) == IF IsSpec THEN httpAsk.cases[k].checks ELSE httpAsk.checks

HttpTypeOK ==
  /\ httpAsk \in HttpAsks /\ httpPc \in {"begin", "report", "over"} \cup CaseOpen
  /\ now \in Nat /\ left \in Nat /\ case \in Nat
  /\ DOMAIN origin = Names(httpAsk) /\ \A v \in DOMAIN origin : origin[v] \in Int
  /\ attempts \in Seq(AttemptSet)
  /\ results \in Seq(BOOLEAN)

\* Only the body of the last attempt can have passed the deadline.
TimeInv ==
  Deadline # 0 =>
    /\ \A i \in DOMAIN attempts : attempts[i].began < Deadline /\ attempts[i].answered <= Deadline
    /\ now > Deadline => /\ attempts # <<>> /\ now = attempts[Len(attempts)].ended
                         /\ attempts[Len(attempts)].outcome \notin Unanswered

\* The attempts come case by case; a case has its result once it is over.
PlaceInv ==
  /\ httpPc = "begin" => case = 0 /\ attempts = <<>> /\ results = <<>>
  /\ Len(results) <= case
  /\ httpPc \in CaseOpen /\ IsSpec => 1 <= case /\ case <= Len(httpAsk.cases) /\ Len(results) = case - 1
  /\ ~IsSpec => results = <<>> /\ httpPc \notin {"prepare", "report"}
  /\ httpPc \in CaseOpen /\ ~IsSpec => case = 1
  /\ httpPc = "report" => /\ Len(results) = case /\ 1 <= case
                          /\ case = Len(httpAsk.cases) \/ \E k \in DOMAIN results : ~results[k]
  /\ \A i \in DOMAIN attempts : 1 <= attempts[i].case /\ attempts[i].case <= case
  /\ httpPc = "prepare" => \A i \in DOMAIN attempts : attempts[i].case < case
  /\ httpPc \in {"wait", "evaluate"} =>
       attempts # <<>> /\ attempts[Len(attempts)].case = case /\ attempts[Len(attempts)].outcome = last

\* A case uses up its retries, each for an outcome that may be retried.
RetryInv ==
  /\ \A i, j \in DOMAIN attempts :
       i < j /\ attempts[i].case = attempts[j].case => Retryable(attempts[i].outcome)
  /\ \A k \in 1..case : Cardinality(AttemptsOf(k)) <= httpAsk.retry + 1
  /\ httpPc \in {"attempt", "wait"} => \A i \in AttemptsOf(case) : Retryable(attempts[i].outcome)
  /\ httpPc = "attempt" => Cardinality(AttemptsOf(case)) + left = httpAsk.retry
  /\ httpPc = "wait" => left > 0 /\ Cardinality(AttemptsOf(case)) + left = httpAsk.retry + 1

\* A variable has a value that was given or extracted by a case that passed.
OriginInv ==
  /\ \A v \in DOMAIN origin :
       origin[v] >= -1 /\ (origin[v] > 0 => origin[v] \in DOMAIN results /\ results[origin[v]])
  /\ httpPc \in {"attempt", "wait"} => \A v \in TheCase.uses : origin[v] # -1
  /\ \A i \in DOMAIN attempts : \A k \in attempts[i].from :
       k >= 0 /\ (k > 0 => k < attempts[i].case /\ k \in DOMAIN results /\ results[k])

\* The last attempt of case k passes its checks.
Passes(k) ==
  \E n \in AttemptsOf(k) :
    /\ \A j \in AttemptsOf(k) : j <= n
    /\ \A c \in DOMAIN ChecksOf(k) : CheckHolds(attempts[n].outcome, ChecksOf(k)[c])
VerdictInv ==
  /\ \A k \in DOMAIN results : results[k] => Passes(k)
  /\ httpAnswer = "ok" =>
       /\ httpPc = "over"
       /\ IsSpec => Len(results) = Len(httpAsk.cases) /\ case = Len(results)
       /\ \A k \in 1..case : Passes(k)

HttpInv == HttpTypeOK /\ TimeInv /\ PlaceInv /\ RetryInv /\ OriginInv /\ VerdictInv

-----------------------------------------------------------------------------
(* Error codes.                                                            *)

\* Every nonempty set of natural numbers has a least element.
LEMMA LeastNat ==
  ASSUME NEW T \in SUBSET Nat, T # {}
  PROVE  \E m \in T : \A n \in T : m <= n
<1> DEFINE Less == {ss \in Nat \X Nat : ss[1] < ss[2]}
<1>1. IsWellFoundedOn(Less, Nat)
  BY NatLessThanWellFounded DEF OpToRel
<1>2. \E x \in T : \A y \in T : <<y, x>> \notin Less
  <2> HIDE DEF Less
  <2> QED
    BY <1>1, WFMin
<1>3. \A x, y \in Nat : y < x => <<y, x>> \in Less
  OBVIOUS
<1> HIDE DEF Less
<1>4. PICK x \in T : \A y \in T : <<y, x>> \notin Less
  BY <1>2
<1>5. \A y \in T : ~(y < x) /\ x \in Nat /\ y \in Nat
  BY <1>3, <1>4
<1>6. \A y \in T : x <= y
  BY <1>5
<1> QED
  BY <1>6

\* The first error is one of the codes, and there is none only if no code is one.
LEMMA FirstErrorIs ==
  ASSUME NEW codes, DOMAIN codes \subseteq Nat
  PROVE  /\ FirstError(codes) = "none" => \A i \in DOMAIN codes : codes[i] = "none"
         /\ FirstError(codes) # "none" => \E i \in DOMAIN codes : FirstError(codes) = codes[i]
<1> DEFINE bad == {i \in DOMAIN codes : codes[i] # "none"}
           m == CHOOSE i \in bad : \A j \in bad : i <= j
<1>1. CASE bad = {}
  BY <1>1 DEF FirstError
<1>2. CASE bad # {}
  <2>1. \E i \in bad : \A j \in bad : i <= j
    BY <1>2, LeastNat
  <2>2. m \in bad
    BY <2>1
  <2>3. FirstError(codes) = codes[m]
    BY <1>2 DEF FirstError
  <2> QED
    BY <2>2, <2>3
<1> QED
  BY <1>1, <1>2

LEMMA FirstErrorNotOk ==
  ASSUME NEW codes, DOMAIN codes \subseteq Nat, \A i \in DOMAIN codes : codes[i] # "ok"
  PROVE  FirstError(codes) # "ok"
<1>1. CASE FirstError(codes) = "none"
  BY <1>1
<1>2. CASE FirstError(codes) # "none"
  BY <1>2, FirstErrorIs
<1> QED
  BY <1>1, <1>2

LEMMA ExpectationsNotOk ==
  ASSUME NEW checks, DOMAIN checks \subseteq Nat
  PROVE  RequestExpectations(checks) # "ok"
<1> DEFINE codes == [i \in DOMAIN checks |->
     CASE checks[i].on = "status" -> parse_status_expectation(checks[i])
       [] checks[i].on = "header" -> parse_header(checks[i].form)
       [] checks[i].on = "json" -> parse_json_expectation_expression(checks[i].form)
       [] OTHER -> "none"]
<1>0. \A t : Bad(t) \in {"none", "INVALID_ARGUMENT"}
  BY DEF Bad
<1>1. \A i \in DOMAIN codes : codes[i] \in {"none", "INVALID_ARGUMENT"}
  BY <1>0 DEF parse_status_expectation, parse_header, parse_json_expectation_expression
<1>2. DOMAIN codes \subseteq Nat /\ \A i \in DOMAIN codes : codes[i] # "ok"
  BY <1>1
<1>3. RequestExpectations(checks) = FirstError(codes)
  BY DEF RequestExpectations
<1> HIDE DEF codes
<1> QED
  BY <1>2, <1>3, FirstErrorNotOk

LEMMA SpecExpectationsNotOk ==
  ASSUME NEW c, DOMAIN c.checks \subseteq Nat
  PROVE  parse_spec_expectations(c) # "ok"
<1> DEFINE codes == [i \in DOMAIN c.checks |->
     CASE c.checks[i].on = "status" -> parse_status_expectation(c.checks[i])
       [] c.checks[i].on = "json" -> parse_json_expectation_expression(c.checks[i].form)
       [] OTHER -> "none"]
           both == <<interpolate_string(c.wants), FirstError(codes)>>
<1>0. \A t : Bad(t) \in {"none", "INVALID_ARGUMENT"}
  BY DEF Bad
<1>1. \A i \in DOMAIN codes : codes[i] \in {"none", "INVALID_ARGUMENT"}
  BY <1>0 DEF parse_status_expectation, parse_json_expectation_expression
<1>2. DOMAIN codes \subseteq Nat /\ \A i \in DOMAIN codes : codes[i] # "ok"
  BY <1>1
<1>3. parse_spec_expectations(c) = FirstError(both)
  BY DEF parse_spec_expectations
<1> HIDE DEF codes
<1>4. FirstError(codes) # "ok"
  BY <1>2, FirstErrorNotOk
<1>5. interpolate_string(c.wants) # "ok"
  BY DEF interpolate_string, Bad
<1>6. DOMAIN both \subseteq Nat /\ \A i \in DOMAIN both : both[i] # "ok"
  BY <1>4, <1>5
<1> HIDE DEF both
<1> QED
  BY <1>3, <1>6, FirstErrorNotOk

LEMMA AuthNotOk == ASSUME NEW x, NEW y, NEW z PROVE parse_auth(x, y, z) # "ok"
<1> DEFINE auths == <<Bad((x # "none" /\ (y # "none" \/ z # "none")) \/ (y # "none" /\ z # "none")), Bad(x = "blank"), parse_basic_auth(y)>>
<1>0. \A t : Bad(t) \in {"none", "INVALID_ARGUMENT"}
  BY DEF Bad
<1>1. DOMAIN auths \subseteq Nat /\ \A i \in DOMAIN auths : auths[i] # "ok"
  BY <1>0 DEF parse_basic_auth
<1>2. parse_auth(x, y, z) = FirstError(auths)
  BY DEF parse_auth
<1> HIDE DEF auths
<1> QED
  BY <1>1, <1>2, FirstErrorNotOk

LEMMA CodesNotOk ==
  ASSUME NEW a
  PROVE  /\ SpecError(a) # "ok" /\ CredentialError(a) # "ok" /\ parse_curl_replay(a.curl) # "ok"
         /\ \A o : build_request_config(o) # "ok"
<1>0. \A t : Bad(t) \in {"none", "INVALID_ARGUMENT"}
  BY DEF Bad
<1>1. SpecError(a) # "ok"
  <2> DEFINE codes == <<resolve_assert_report_mode(a), read_spec_file(a), Bad(a.spec \in {"version", "empty"}),
                        parse_extractors(a), Bad(a.spec = "var")>>
  <2>1. DOMAIN codes \subseteq Nat /\ \A i \in DOMAIN codes : codes[i] # "ok"
    BY <1>0 DEF resolve_assert_report_mode, read_spec_file, parse_extractors
  <2>2. SpecError(a) = FirstError(codes)
    BY DEF SpecError
  <2> HIDE DEF codes
  <2> QED
    BY <2>1, <2>2, FirstErrorNotOk
<1>2. CredentialError(a) # "ok"
  <2> DEFINE codes == <<basic_from_resolved_secrets(a.opts.vault),
                        Bad(a.opts.vault # "none" /\ a.op \notin SlotOps)>>
  <2>1. DOMAIN codes \subseteq Nat /\ \A i \in DOMAIN codes : codes[i] # "ok"
    BY <1>0 DEF basic_from_resolved_secrets
  <2>2. bind_resolved_credentials(a) = FirstError(codes)
    BY DEF bind_resolved_credentials
  <2> HIDE DEF codes
  <2>3. bind_resolved_credentials(a) # "ok"
    BY <2>1, <2>2, FirstErrorNotOk
  <2>4. resolved_basic_credential(a.opts.vault) # "ok"
    BY DEF resolved_basic_credential, basic_from_resolved_secrets
  <2> QED
    BY <2>3, <2>4 DEF CredentialError
<1>3. parse_curl_replay(a.curl) # "ok"
  <2> DEFINE c == a.curl
             codes == <<Bad(c.form \in {"unparsable", "empty", "unsupported", "novalue", "nourl"}),
               parse_header(c.header), parse_basic_auth(c.basic)>>
  <2>1. DOMAIN codes \subseteq Nat /\ \A i \in DOMAIN codes : codes[i] # "ok"
    BY <1>0 DEF parse_header, parse_basic_auth
  <2>2. parse_curl_replay(c) = FirstError(codes)
    BY DEF parse_curl_replay
  <2> HIDE DEF codes
  <2> QED
    BY <2>1, <2>2, FirstErrorNotOk
<1>4. ASSUME NEW o PROVE build_request_config(o) # "ok"
  <2> DEFINE codes == <<normalize_method(o.method), Bad(o.url = "blank"), parse_header(o.headers),
               Bad(o.vault # "none" /\ o.headers = "authorization"), parse_key_value_pair(o.query),
               parse_auth(o.bearer, o.basic, o.vault), parse_payload(o.payload), Bad(o.cap = 0)>>
  <2>3. parse_auth(o.bearer, o.basic, o.vault) # "ok"
    BY AuthNotOk
  <2>4. DOMAIN codes \subseteq Nat /\ \A i \in DOMAIN codes : codes[i] # "ok"
    BY <1>0, <2>3 DEF normalize_method, parse_header, parse_key_value_pair, parse_payload
  <2>5. build_request_config(o) = FirstError(codes)
    BY DEF build_request_config
  <2> HIDE DEF codes
  <2> QED
    BY <2>4, <2>5, FirstErrorNotOk
<1> QED
  BY <1>1, <1>2, <1>3, <1>4

-----------------------------------------------------------------------------
(* The steps.                                                              *)

LEMMA SameAttempts ==
  ASSUME UNCHANGED <<httpAsk, attempts>>
  PROVE  \A k : AttemptsOf(k)' = AttemptsOf(k) /\ (Passes(k)' <=> Passes(k))
<1>1. \A k : AttemptsOf(k)' = AttemptsOf(k)
  BY DEF AttemptsOf
<1>2. \A k : ChecksOf(k)' = ChecksOf(k)
  BY DEF ChecksOf, IsSpec
<1> QED
  BY <1>1, <1>2 DEF Passes

LEMMA AttemptTypes ==
  ASSUME HttpTypeOK
  PROVE  /\ DOMAIN attempts = 1..Len(attempts) /\ Len(attempts) \in Nat
         /\ \A i \in DOMAIN attempts : /\ attempts[i].case \in Nat /\ attempts[i].from \in SUBSET Int
                                       /\ attempts[i].outcome \in HttpOutcomes
<1> DEFINE S == AttemptSet
<1>1. attempts \in Seq(S)
  BY DEF HttpTypeOK
<1>2. \A x \in S : x.case \in Nat /\ x.from \in SUBSET Int /\ x.outcome \in HttpOutcomes
  BY DEF AttemptSet
<1> HIDE DEF S
<1>3. DOMAIN attempts = 1..Len(attempts) /\ Len(attempts) \in Nat /\ \A i \in 1..Len(attempts) : attempts[i] \in S
  BY <1>1, LenProperties, ElementOfSeq
<1> QED
  BY <1>2, <1>3

\* The command ends without an "ok".
LEMMA HttpEnds ==
  ASSUME HttpInv, httpPc' = "over", httpAnswer' # "ok",
         UNCHANGED <<httpAsk, now, left, case, origin, attempts, results>>
  PROVE  HttpInv'
<1>0. \A k : AttemptsOf(k)' = AttemptsOf(k) /\ (Passes(k)' <=> Passes(k))
  BY SameAttempts
<1>1. HttpTypeOK' /\ TimeInv'
  BY DEF HttpInv, HttpTypeOK, TimeInv, Deadline
<1>2. PlaceInv'
  BY DEF HttpInv, PlaceInv, CaseOpen, IsSpec
<1>3. RetryInv'
  BY <1>0 DEF HttpInv, RetryInv
<1>4. OriginInv'
  BY DEF HttpInv, OriginInv
<1>5. VerdictInv'
  BY <1>0 DEF HttpInv, VerdictInv
<1> QED
  BY <1>1, <1>2, <1>3, <1>4, <1>5 DEF HttpInv

LEMMA HttpInitInv == HttpInit => HttpInv
<1> SUFFICES ASSUME HttpInit PROVE HttpInv
  OBVIOUS
<1>0. attempts = <<>> /\ results = <<>> /\ DOMAIN attempts = {} /\ DOMAIN results = {} /\ Len(results) = 0
  BY DEF HttpInit
<1>1. HttpTypeOK /\ TimeInv
  <2>1. attempts \in Seq(AttemptSet) /\ results \in Seq(BOOLEAN)
    BY <1>0, EmptySeq
  <2>2. DOMAIN origin = Names(httpAsk) /\ \A v \in DOMAIN origin : origin[v] \in {0, -1}
    BY DEF HttpInit
  <2>3. httpAsk \in HttpAsks /\ now = 0 /\ httpAsk.deadline \in Nat
    BY HttpAssumption DEF HttpInit
  <2> QED
    BY <1>0, <2>1, <2>2, <2>3 DEF HttpInit, HttpTypeOK, TimeInv, Deadline
<1>2. PlaceInv
  BY <1>0 DEF HttpInit, PlaceInv, CaseOpen
<1>3. RetryInv
  BY <1>0 DEF HttpInit, RetryInv
<1>4. OriginInv
  <2>1. \A v \in DOMAIN origin : origin[v] \in {0, -1}
    BY DEF HttpInit
  <2> QED
    BY <1>0, <2>1 DEF HttpInit, OriginInv
<1>5. VerdictInv
  BY <1>0 DEF HttpInit, VerdictInv
<1> QED
  BY <1>1, <1>2, <1>3, <1>4, <1>5 DEF HttpInv

\* A spec that passes the checks has a case.
LEMMA SpecHasCases ==
  ASSUME NEW a \in HttpAsks, a.op = "assert", SpecError(a) = "none"
  PROVE  Len(a.cases) \in Nat /\ 1 <= Len(a.cases)
<1> DEFINE codes == <<resolve_assert_report_mode(a), read_spec_file(a), Bad(a.spec \in {"version", "empty"}),
                      parse_extractors(a), Bad(a.spec = "var")>>
<1>1. DOMAIN codes = 1..5 /\ SpecError(a) = FirstError(codes)
  BY DEF SpecError
<1>2. \A i \in 1..5 : codes[i] = "none"
  <2> HIDE DEF codes
  <2>1. DOMAIN codes \subseteq Nat
    BY <1>1
  <2> QED
    BY <1>1, <2>1, FirstErrorIs
<1>3. codes[1] = "none" /\ codes[2] = "none" /\ codes[3] = "none" /\ codes[4] = "none" /\ codes[5] = "none"
  <2> HIDE DEF codes
  <2> QED
    BY <1>2
<1>4. a.spec = "good"
  BY <1>3, HttpAssumption DEF resolve_assert_report_mode, read_spec_file, parse_extractors, Bad, HttpSpecForms
<1> QED
  BY <1>4, HttpAssumption

LEMMA BeginStep == ASSUME HttpInv, HttpBegin PROVE HttpInv'
<1> DEFINE a == httpAsk
           codes == <<CredentialError(a), IF a.op = "replay" THEN parse_curl_replay(a.curl) ELSE "none",
                      RequestExpectations(a.checks), build_request_config(Options(a))>>
           specCodes == <<CredentialError(a), SpecError(a)>>
           code == IF a.op = "assert" THEN FirstError(specCodes) ELSE FirstError(codes)
<1>0. a \in HttpAsks /\ httpPc = "begin" /\ UNCHANGED <<httpAsk, now, origin, attempts, results>> /\ DOMAIN a.checks \subseteq Nat
  BY HttpAssumption DEF HttpInv, HttpTypeOK, HttpBegin
<1>1. code # "ok"
  <2>1. DOMAIN codes \subseteq Nat /\ \A i \in DOMAIN codes : codes[i] # "ok"
    BY <1>0, CodesNotOk, ExpectationsNotOk
  <2>2. DOMAIN specCodes \subseteq Nat /\ \A i \in DOMAIN specCodes : specCodes[i] # "ok"
    BY CodesNotOk
  <2> HIDE DEF codes, specCodes
  <2>3. FirstError(codes) # "ok" /\ FirstError(specCodes) # "ok"
    BY <2>1, <2>2, FirstErrorNotOk
  <2> QED
    BY <2>3
<1>2. CASE code # "none"
  <2>1. HttpDone(code) /\ UNCHANGED <<case, left>>
    BY <1>2 DEF HttpBegin
  <2> HIDE DEF code
  <2> QED
    BY <1>0, <1>1, <2>1, HttpEnds DEF HttpDone
<1>3. CASE code = "none"
  <2>1. /\ httpPc' = IF a.op = "assert" THEN "prepare" ELSE "attempt"
        /\ case' = 1 /\ left' = a.retry /\ UNCHANGED httpAnswer
    BY <1>3 DEF HttpBegin
  <2>2. a.op = "assert" => 1 <= Len(a.cases)
    <3>1. DOMAIN specCodes = 1..2 /\ specCodes[2] = SpecError(a)
      OBVIOUS
    <3> HIDE DEF specCodes
    <3>2. a.op = "assert" => SpecError(a) = "none"
      BY <1>3, <3>1, FirstErrorIs
    <3> QED
      BY <1>0, <3>2, SpecHasCases
  <2> HIDE DEF code
  <2>3. attempts = <<>> /\ results = <<>> /\ Len(results) = 0 /\ DOMAIN attempts = {} /\ DOMAIN results = {}
    BY <1>0 DEF HttpInv, PlaceInv
  <2>4. \A k : AttemptsOf(k)' = {} /\ Cardinality(AttemptsOf(k)') = 0
    BY <1>0, <2>3, FS_EmptySet DEF AttemptsOf
  <2>5. a.retry \in Nat
    BY <1>0, HttpAssumption
  <2>6. HttpTypeOK' /\ TimeInv'
    BY <1>0, <2>1, <2>5 DEF HttpInv, HttpTypeOK, TimeInv, Deadline, CaseOpen
  <2>7. PlaceInv'
    BY <1>0, <2>1, <2>2, <2>3 DEF HttpInv, PlaceInv, CaseOpen, IsSpec
  <2>8. RetryInv'
    BY <1>0, <2>1, <2>3, <2>4, <2>5 DEF RetryInv
  <2>9. OriginInv'
    BY <1>0, <2>1, <2>3 DEF HttpInv, OriginInv, TheCase
  <2>10. VerdictInv'
    BY <1>0, <2>1, <2>3 DEF HttpInv, VerdictInv
  <2> QED
    BY <2>6, <2>7, <2>8, <2>9, <2>10 DEF HttpInv
<1> QED
  BY <1>2, <1>3

LEMMA PrepareStep == ASSUME HttpInv, build_case_request PROVE HttpInv'
<1> DEFINE c == httpAsk.cases[case]
           q == c.request
           codes == <<Bad(q.name = "blank"), normalize_method(q.method), resolve_case_url(q.target),
                      interpolate_string(c.uses), Bad(q.cap = 0), parse_auth(q.bearer, q.basic, "none"),
                      parse_payload(q.payload), parse_spec_expectations(c)>>
           code == FirstError(codes)
<1>0. /\ httpAsk \in HttpAsks /\ httpPc = "prepare" /\ UNCHANGED <<httpAsk, now, case, origin, attempts, results>>
      /\ IsSpec /\ case \in 1..Len(httpAsk.cases) /\ httpAsk.retry \in Nat /\ case \in DOMAIN httpAsk.cases
      /\ DOMAIN c.checks \subseteq Nat
  BY HttpAssumption DEF HttpInv, HttpTypeOK, PlaceInv, CaseOpen, build_case_request
<1>1. DOMAIN codes = 1..8 /\ codes[4] = interpolate_string(c.uses) /\ \A i \in DOMAIN codes : codes[i] # "ok"
  <2>2. parse_auth(q.bearer, q.basic, "none") # "ok" /\ parse_spec_expectations(c) # "ok"
    BY <1>0, AuthNotOk, SpecExpectationsNotOk
  <2>3. parse_payload(q.payload) # "ok"
    BY DEF parse_payload
  <2>4. interpolate_string(c.uses) # "ok" /\ normalize_method(q.method) # "ok" /\ resolve_case_url(q.target) # "ok"
    BY DEF normalize_method, resolve_case_url, interpolate_string, Bad
  <2>5. Bad(q.name = "blank") # "ok" /\ Bad(q.cap = 0) # "ok"
    BY DEF Bad
  <2> QED
    BY <2>2, <2>3, <2>4, <2>5
<1>2. CASE code # "none"
  <2>1. HttpDone(code) /\ UNCHANGED left
    BY <1>2 DEF build_case_request
  <2> HIDE DEF codes
  <2>2. code # "ok"
    BY <1>1, FirstErrorNotOk
  <2> HIDE DEF code
  <2> QED
    BY <1>0, <2>1, <2>2, HttpEnds DEF HttpDone
<1>3. CASE code = "none"
  <2>1. httpPc' = "attempt" /\ left' = httpAsk.retry /\ UNCHANGED httpAnswer
    BY <1>3 DEF build_case_request
  <2> HIDE DEF codes
  <2>2. codes[4] = "none"
    BY <1>1, <1>3, FirstErrorIs
  <2>3. \A v \in c.uses : origin[v] # -1
    BY <1>1, <2>2 DEF interpolate_string, Bad
  <2> HIDE DEF code
  <2>4. \A k : AttemptsOf(k)' = AttemptsOf(k) /\ (Passes(k)' <=> Passes(k))
    BY <1>0, SameAttempts
  <2>5. AttemptsOf(case) = {} /\ Cardinality(AttemptsOf(case)) = 0
    <3>1. \A i \in DOMAIN attempts : attempts[i].case < case /\ attempts[i].case \in Nat
      BY <1>0, AttemptTypes DEF HttpInv, PlaceInv
    <3>2. AttemptsOf(case) = {}
      BY <1>0, <3>1 DEF AttemptsOf
    <3> QED
      BY <3>2, FS_EmptySet
  <2>6. HttpTypeOK' /\ TimeInv'
    BY <1>0, <2>1 DEF HttpInv, HttpTypeOK, TimeInv, Deadline, CaseOpen
  <2>7. PlaceInv'
    BY <1>0, <2>1 DEF HttpInv, PlaceInv, CaseOpen, IsSpec
  <2>8. RetryInv'
    <3>1. AttemptsOf(case)' = AttemptsOf(case)
      BY <1>0 DEF AttemptsOf
    <3> QED
      BY <1>0, <2>1, <2>4, <2>5, <3>1 DEF HttpInv, RetryInv
  <2>9. OriginInv'
    BY <1>0, <2>1, <2>3 DEF HttpInv, OriginInv, TheCase, IsSpec
  <2>10. VerdictInv'
    BY <1>0, <2>1, <2>4 DEF HttpInv, VerdictInv, IsSpec
  <2> QED
    BY <2>6, <2>7, <2>8, <2>9, <2>10 DEF HttpInv
<1> QED
  BY <1>2, <1>3

LEMMA AttemptsFinite == ASSUME HttpTypeOK, NEW k PROVE IsFiniteSet(AttemptsOf(k)) /\ Cardinality(AttemptsOf(k)) \in Nat
<1>1. AttemptsOf(k) \subseteq 1..Len(attempts) /\ Len(attempts) \in Nat
  BY AttemptTypes DEF AttemptsOf
<1>2. IsFiniteSet(1..Len(attempts))
  BY <1>1, FS_Interval
<1> QED
  BY <1>1, <1>2, FS_Subset, FS_CardinalityType

LEMMA SendStep == ASSUME HttpInv, send_request PROVE HttpInv'
<1>0. /\ httpPc = "attempt" /\ UNCHANGED <<httpAsk, left, case, origin, results>>
      /\ HttpTypeOK /\ httpAsk \in HttpAsks /\ httpAsk.deadline \in Nat /\ httpAsk.retry \in Nat
      /\ now \in Nat /\ left \in Nat /\ case \in Nat
  BY HttpAssumption DEF send_request, HttpInv, HttpTypeOK
<1>1. CASE Deadline # 0 /\ now >= Deadline
  <2>1. HttpDone("HTTP_TIMEOUT") /\ UNCHANGED <<now, attempts>>
    BY <1>1 DEF send_request
  <2> QED
    BY <1>0, <2>1, HttpEnds DEF HttpDone
<1>2. CASE ~(Deadline # 0 /\ now >= Deadline)
  <2>0. AttemptOutcomes \subseteq HttpOutcomes
    BY DEF AttemptOutcomes, HttpOutcomes, Unanswered
  <2>1. PICK r \in HttpOutcomes, t \in 1..AttemptTimeout, b \in 0..MaxReads * AttemptTimeout :
            /\ r \in Unanswered => b = 0
            /\ now' = now + t + b
            /\ last' = r
            /\ attempts' = Append(attempts, Attempt(r, t, b))
            /\ httpPc' = IF Retryable(r) /\ left > 0 THEN "wait" ELSE "evaluate"
            /\ UNCHANGED httpAnswer
    BY <1>2, <2>0 DEF send_request
  <2>b. /\ t \in Nat /\ b \in Nat
        /\ Deadline # 0 => now < Deadline /\ now + t <= Deadline
    <3>1. AttemptTimeout \in Nat /\ (Deadline # 0 => now < Deadline /\ AttemptTimeout <= Deadline - now)
      BY <1>0, <1>2, HttpAssumption DEF AttemptTimeout, remaining_deadline, Deadline
    <3>2. Deadline \in Nat
      BY <1>0 DEF Deadline
    <3> QED
      BY <1>0, <2>1, <3>1, <3>2
  <2> DEFINE n == Len(attempts) + 1
             from == {origin[v] : v \in TheCase.uses}
             new == Attempt(r, t, b)
  <2>2. TheCase.uses \subseteq DOMAIN origin
    <3>1. CASE IsSpec
      <4>1. case \in DOMAIN httpAsk.cases
        BY <1>0, <3>1, HttpAssumption DEF HttpInv, PlaceInv, CaseOpen
      <4>2. httpAsk.cases[case].uses \subseteq Names(httpAsk)
        BY <4>1 DEF Names
      <4> QED
        BY <1>0, <3>1, <4>2 DEF TheCase, IsSpec, HttpTypeOK
    <3>2. CASE ~IsSpec
      BY <3>2 DEF TheCase, IsSpec
    <3> QED
      BY <3>1, <3>2
  <2>3. from \in SUBSET Int
    BY <1>0, <2>2 DEF HttpTypeOK
  <2>4. \A v \in TheCase.uses : origin[v] # -1 /\ v \in DOMAIN origin
    BY <1>0, <2>2 DEF HttpInv, OriginInv
  <2>5. \A k \in from : k >= 0 /\ (k > 0 => k \in DOMAIN results /\ results[k])
    BY <1>0, <2>3, <2>4 DEF HttpInv, OriginInv, HttpTypeOK
  <2>6. \A k \in from : k > 0 => k < case
    <3>1. CASE IsSpec
      <4>1. Len(results) = case - 1 /\ DOMAIN results = 1..Len(results)
        BY <1>0, <3>1, LenProperties DEF HttpInv, PlaceInv, CaseOpen, HttpTypeOK
      <4> QED
        BY <1>0, <2>3, <2>5, <4>1
    <3>2. CASE ~IsSpec
      BY <3>2 DEF TheCase, IsSpec
    <3> QED
      BY <3>1, <3>2
  <2> HIDE DEF from
  <2>7. new \in AttemptSet
    BY <1>0, <2>1, <2>3, <2>b DEF Attempt, AttemptSet, from
  <2>8. /\ new.case = case /\ new.from = from /\ new.outcome = r /\ attempts' = Append(attempts, new)
        /\ new.began = now /\ new.answered = now + t /\ new.ended = now + t + b
    BY <2>1 DEF Attempt, from
  <2> HIDE DEF new
  <2>9. /\ attempts' \in Seq(AttemptSet)
        /\ Len(attempts') = n /\ attempts'[n] = new /\ \A i \in 1..Len(attempts) : attempts'[i] = attempts[i]
        /\ DOMAIN attempts' = 1..n /\ DOMAIN attempts = 1..Len(attempts) /\ Len(attempts) \in Nat
    BY <1>0, <2>7, <2>8, AppendProperties, LenProperties DEF HttpTypeOK
  <2>t. \A i \in DOMAIN attempts : attempts[i].case \in Nat
    BY <1>0, AttemptTypes
  <2>p. /\ 1 <= case
        /\ \A i \in DOMAIN attempts : 1 <= attempts[i].case /\ attempts[i].case <= case
    BY <1>0 DEF HttpInv, PlaceInv, CaseOpen
  <2>10. HttpTypeOK'
    <3>1. now' \in Nat
      BY <1>0, <2>1, <2>b
    <3> QED
      BY <1>0, <2>1, <2>9, <3>1 DEF HttpTypeOK, CaseOpen
  <2>d. TimeInv'
    <3>1. Deadline' = Deadline /\ Deadline \in Nat
      BY <1>0 DEF Deadline
    <3>2. ASSUME Deadline # 0, NEW i \in DOMAIN attempts'
          PROVE  attempts'[i].began < Deadline /\ attempts'[i].answered <= Deadline
      <4>1. CASE i = n
        BY <2>8, <2>9, <2>b, <3>2, <4>1
      <4>2. CASE i # n
        <5>1. i \in DOMAIN attempts /\ attempts'[i] = attempts[i]
          BY <2>9, <4>2
        <5> QED
          BY <3>2, <5>1 DEF HttpInv, TimeInv
      <4> QED
        BY <4>1, <4>2
    <3>3. attempts' # <<>> /\ now' = attempts'[Len(attempts')].ended /\ attempts'[Len(attempts')].outcome = r
      BY <2>1, <2>8, <2>9
    <3>4. ASSUME Deadline # 0, now' > Deadline PROVE r \notin Unanswered
      BY <1>0, <2>1, <2>b, <3>1, <3>4
    <3> QED
      BY <3>1, <3>2, <3>3, <3>4 DEF TimeInv
  <2>11. PlaceInv'
    <3>1. \A i \in DOMAIN attempts' : 1 <= attempts'[i].case /\ attempts'[i].case <= case
      BY <1>0, <2>8, <2>9, <2>p
    <3>2. attempts' # <<>> /\ attempts'[Len(attempts')].case = case' /\ attempts'[Len(attempts')].outcome = last'
      BY <1>0, <2>1, <2>8, <2>9
    <3>3. httpPc' \in {"wait", "evaluate"}
      BY <2>1
    <3> QED
      BY <1>0, <3>1, <3>2, <3>3 DEF HttpInv, PlaceInv, CaseOpen, IsSpec
  <2>12. /\ \A k : k # case => AttemptsOf(k)' = AttemptsOf(k)
         /\ AttemptsOf(case)' = AttemptsOf(case) \cup {n} /\ n \notin AttemptsOf(case)
    BY <1>0, <2>8, <2>9 DEF AttemptsOf
  <2>13. Cardinality(AttemptsOf(case)') = Cardinality(AttemptsOf(case)) + 1
    <3> DEFINE S == AttemptsOf(case)
    <3>1. IsFiniteSet(S) /\ n \notin S /\ AttemptsOf(case)' = S \cup {n}
      BY <1>0, <2>12, AttemptsFinite
    <3> HIDE DEF S
    <3>2. Cardinality(S \cup {n}) = Cardinality(S) + 1
      BY <3>1, FS_AddElement
    <3> QED
      BY <3>1, <3>2 DEF S
  <2>14. RetryInv'
    <3>0. \A i \in AttemptsOf(case) : Retryable(attempts[i].outcome)
      BY <1>0 DEF HttpInv, RetryInv
    <3>1. ASSUME NEW i \in DOMAIN attempts', NEW j \in DOMAIN attempts', i < j, attempts'[i].case = attempts'[j].case
          PROVE  Retryable(attempts'[i].outcome)
      <4>1. i \in DOMAIN attempts /\ attempts'[i] = attempts[i]
        BY <2>9, <3>1
      <4>2. CASE j = n
        BY <2>8, <2>9, <3>0, <3>1, <4>1, <4>2 DEF AttemptsOf
      <4>3. CASE j # n
        <5>1. j \in DOMAIN attempts /\ attempts'[j] = attempts[j]
          BY <2>9, <4>3
        <5> QED
          BY <3>1, <4>1, <5>1 DEF HttpInv, RetryInv
      <4> QED
        BY <4>2, <4>3
    <3>2. Cardinality(AttemptsOf(case)) + left = httpAsk.retry /\ Cardinality(AttemptsOf(case)) \in Nat
      BY <1>0, AttemptsFinite DEF HttpInv, RetryInv
    <3>3. Cardinality(AttemptsOf(case)') <= httpAsk.retry + 1
          /\ Cardinality(AttemptsOf(case)') + left = httpAsk.retry + 1
      BY <1>0, <2>13, <3>2
    <3>4. \A k \in 1..case : Cardinality(AttemptsOf(k)') <= httpAsk.retry + 1
      <4> SUFFICES ASSUME NEW k \in 1..case PROVE Cardinality(AttemptsOf(k)') <= httpAsk.retry + 1
        OBVIOUS
      <4>1. CASE k = case
        <5>1. AttemptsOf(k)' = AttemptsOf(case)'
          BY <1>0, <4>1 DEF AttemptsOf
        <5> QED
          BY <3>3, <5>1
      <4>2. CASE k # case
        BY <2>12, <4>2 DEF HttpInv, RetryInv
      <4> QED
        BY <4>1, <4>2
    <3>5. ASSUME httpPc' = "wait" PROVE left > 0 /\ Retryable(r)
      BY <2>1, <3>5
    <3>6. ASSUME httpPc' = "wait" PROVE \A i \in AttemptsOf(case)' : Retryable(attempts'[i].outcome)
      <4> SUFFICES ASSUME NEW i \in AttemptsOf(case)' PROVE Retryable(attempts'[i].outcome)
        OBVIOUS
      <4>1. CASE i = n
        BY <2>8, <2>9, <3>5, <3>6, <4>1
      <4>2. CASE i \in AttemptsOf(case)
        <5>1. attempts'[i] = attempts[i]
          BY <2>9, <4>2 DEF AttemptsOf
        <5> QED
          BY <3>0, <4>2, <5>1
      <4> QED
        BY <2>12, <4>1, <4>2
    <3>7. httpPc' # "attempt"
      BY <2>1
    <3> QED
      BY <1>0, <3>1, <3>3, <3>4, <3>5, <3>6, <3>7 DEF RetryInv
  <2>15. OriginInv'
    <3>1. TheCase' = TheCase
      BY <1>0 DEF TheCase
    <3>2. \A i \in DOMAIN attempts' : \A k \in attempts'[i].from :
            k >= 0 /\ (k > 0 => k < attempts'[i].case /\ k \in DOMAIN results /\ results[k])
      <4> SUFFICES ASSUME NEW i \in DOMAIN attempts' PROVE \A k \in attempts'[i].from :
            k >= 0 /\ (k > 0 => k < attempts'[i].case /\ k \in DOMAIN results /\ results[k])
        OBVIOUS
      <4>1. CASE i = n
        BY <2>5, <2>6, <2>8, <2>9, <4>1
      <4>2. CASE i # n
        <5>1. i \in DOMAIN attempts /\ attempts'[i] = attempts[i]
          BY <2>9, <4>2
        <5> QED
          BY <5>1 DEF HttpInv, OriginInv
      <4> QED
        BY <4>1, <4>2
    <3> QED
      BY <1>0, <2>4, <3>1, <3>2 DEF HttpInv, OriginInv
  <2>16. VerdictInv'
    <3>1. ASSUME NEW k \in DOMAIN results, results[k] PROVE Passes(k)'
      <4>1. k # case
        BY <1>0, <3>1, LenProperties DEF HttpInv, HttpTypeOK, PlaceInv, CaseOpen
      <4>2. PICK m \in AttemptsOf(k) :
              /\ \A j \in AttemptsOf(k) : j <= m
              /\ \A c \in DOMAIN ChecksOf(k) : CheckHolds(attempts[m].outcome, ChecksOf(k)[c])
        BY <3>1 DEF HttpInv, VerdictInv, Passes
      <4>3. attempts'[m] = attempts[m]
        BY <2>9 DEF AttemptsOf
      <4>4. ChecksOf(k)' = ChecksOf(k)
        BY <1>0 DEF ChecksOf, IsSpec
      <4> QED
        BY <2>12, <4>1, <4>2, <4>3, <4>4 DEF Passes
    <3>2. httpAnswer' # "ok"
      BY <1>0, <2>1 DEF HttpInv, VerdictInv
    <3> QED
      BY <1>0, <3>1, <3>2 DEF VerdictInv
  <2> QED
    BY <2>10, <2>11, <2>14, <2>15, <2>16, <2>d DEF HttpInv
<1> QED
  BY <1>1, <1>2

LEMMA WaitStep == ASSUME HttpInv, wait_for_retry PROVE HttpInv'
<1>0. /\ httpPc = "wait" /\ UNCHANGED <<httpAsk, case, origin, last, attempts, results>>
      /\ HttpTypeOK /\ httpAsk \in HttpAsks /\ httpAsk.deadline \in Nat /\ httpAsk.delay \in Nat
      /\ now \in Nat /\ left \in Nat
  BY HttpAssumption DEF wait_for_retry, HttpInv, HttpTypeOK
<1>1. CASE Deadline # 0 /\ (now >= Deadline \/ httpAsk.delay >= Deadline - now)
  <2>1. HttpDone("HTTP_TIMEOUT") /\ UNCHANGED <<now, left>>
    BY <1>1 DEF wait_for_retry
  <2> QED
    BY <1>0, <2>1, HttpEnds DEF HttpDone
<1>2. CASE ~(Deadline # 0 /\ (now >= Deadline \/ httpAsk.delay >= Deadline - now))
  <2>1. left' = left - 1 /\ now' = now + httpAsk.delay /\ httpPc' = "attempt" /\ UNCHANGED httpAnswer
    BY <1>2 DEF wait_for_retry
  <2>2. \A k : AttemptsOf(k)' = AttemptsOf(k) /\ (Passes(k)' <=> Passes(k))
    BY <1>0, SameAttempts
  <2>3. AttemptsOf(case)' = AttemptsOf(case)
    BY <1>0 DEF AttemptsOf
  <2>4. left > 0 /\ Cardinality(AttemptsOf(case)) + left = httpAsk.retry + 1 /\ Cardinality(AttemptsOf(case)) \in Nat
    BY <1>0, AttemptsFinite DEF HttpInv, RetryInv
  <2>5. HttpTypeOK'
    <3>1. now' \in Nat /\ left' \in Nat
      BY <1>0, <2>1, <2>4
    <3> QED
      BY <1>0, <2>1, <3>1 DEF HttpTypeOK, CaseOpen
  <2>t. TimeInv'
    <3>1. Deadline' = Deadline /\ (Deadline # 0 => now' <= Deadline)
      BY <1>0, <1>2, <2>1 DEF Deadline
    <3> QED
      BY <1>0, <2>1, <3>1 DEF HttpInv, TimeInv, Deadline
  <2>6. PlaceInv'
    BY <1>0, <2>1 DEF HttpInv, PlaceInv, CaseOpen, IsSpec
  <2>7. RetryInv'
    <3>1. Cardinality(AttemptsOf(case)) + left' = httpAsk.retry
      <4> DEFINE made == Cardinality(AttemptsOf(case))
                 most == httpAsk.retry
      <4>1. made \in Nat /\ left \in Nat /\ most \in Nat /\ made + left = most + 1 /\ left' = left - 1
        BY <1>0, <2>1, <2>4, HttpAssumption DEF HttpTypeOK
      <4> HIDE DEF made, most
      <4>2. made + left' = most
        BY <4>1
      <4> QED
        BY <4>2 DEF made, most
    <3> QED
      BY <1>0, <2>1, <2>2, <2>3, <3>1 DEF HttpInv, RetryInv
  <2>8. OriginInv'
    BY <1>0, <2>1 DEF HttpInv, OriginInv, TheCase
  <2>9. VerdictInv'
    BY <1>0, <2>1, <2>2 DEF HttpInv, VerdictInv, IsSpec
  <2> QED
    BY <2>5, <2>6, <2>7, <2>8, <2>9, <2>t DEF HttpInv
<1> QED
  BY <1>1, <1>2

\* An outcome without a status is one of the failures, whose code is the command's answer.
LEMMA FailureNotOk == ASSUME NEW r \in HttpOutcomes, r.code = 0 PROVE r.body # "ok"
  BY HttpAssumption DEF HttpOutcomes, Unanswered, ReadFailed, Lost

\* At the evaluation the last attempt is the case's, and it passes if no check fails on it.
LEMMA LastPasses ==
  ASSUME HttpInv, httpPc = "evaluate"
  PROVE  /\ last \in HttpOutcomes /\ 1 <= case /\ case \in Nat
         /\ evaluate_assertions(last, ChecksOf(case)) = {} => Passes(case)
<1> DEFINE n == Len(attempts)
<1>1. /\ DOMAIN attempts = 1..n /\ n \in Nat
      /\ \A i \in DOMAIN attempts : attempts[i].outcome \in HttpOutcomes
  BY AttemptTypes DEF HttpInv
<1>2. attempts # <<>> /\ attempts[n].case = case /\ attempts[n].outcome = last
  BY DEF HttpInv, PlaceInv
<1>3. n # 0
  BY <1>2, EmptySeq DEF HttpInv, HttpTypeOK
<1>4. n \in AttemptsOf(case) /\ \A j \in AttemptsOf(case) : j <= n
  BY <1>1, <1>2, <1>3 DEF AttemptsOf
<1>5. 1 <= case /\ case \in Nat
  BY DEF HttpInv, HttpTypeOK, PlaceInv, CaseOpen
<1>6. ASSUME evaluate_assertions(last, ChecksOf(case)) = {} PROVE Passes(case)
  BY <1>2, <1>4, <1>6 DEF evaluate_assertions, Passes
<1> QED
  BY <1>1, <1>2, <1>4, <1>5, <1>6 DEF AttemptsOf

LEMMA RequestStep == ASSUME HttpInv, run_request_command PROVE HttpInv'
<1>0. /\ httpPc = "evaluate" /\ ~IsSpec /\ httpPc' = "over"
      /\ UNCHANGED <<httpAsk, now, left, case, origin, attempts, results>>
  BY DEF run_request_command, HttpDone, IsSpec
<1>1. case = 1 /\ ChecksOf(case) = httpAsk.checks
  BY <1>0 DEF HttpInv, PlaceInv, CaseOpen, ChecksOf
<1>2. CASE httpAnswer' # "ok"
  BY <1>0, <1>2, HttpEnds
<1>3. CASE httpAnswer' = "ok"
  <2>1. last \in HttpOutcomes
    BY <1>0, LastPasses
  <2>2. evaluate_assertions(last, httpAsk.checks) = {}
    <3>1. CASE last.code = 0
      <4>1. httpAnswer' = last.body
        BY <3>1 DEF run_request_command, HttpDone
      <4> QED
        BY <1>3, <2>1, <3>1, <4>1, FailureNotOk
    <3>2. CASE last.code # 0 /\ evaluate_assertions(last, httpAsk.checks) # {}
      <4>1. httpAnswer' = "HTTP_ASSERTION_FAILED"
        BY <3>2 DEF run_request_command, HttpDone
      <4> QED
        BY <1>3, <4>1
    <3> QED
      BY <3>1, <3>2
  <2>3. Passes(1)
    BY <1>0, <1>1, <2>2, LastPasses
  <2>4. \A k : AttemptsOf(k)' = AttemptsOf(k) /\ (Passes(k)' <=> Passes(k))
    BY <1>0, SameAttempts
  <2>5. HttpTypeOK' /\ TimeInv'
    BY <1>0 DEF HttpInv, HttpTypeOK, TimeInv, Deadline
  <2>6. PlaceInv'
    BY <1>0 DEF HttpInv, PlaceInv, CaseOpen, IsSpec
  <2>7. RetryInv'
    BY <1>0, <2>4 DEF HttpInv, RetryInv
  <2>8. OriginInv'
    BY <1>0 DEF HttpInv, OriginInv
  <2>9. VerdictInv'
    <3>1. \A k \in 1..case : Passes(k)
      BY <1>1, <2>3
    <3>2. \A k \in 1..case : Passes(k)'
      BY <2>4, <3>1
    <3>3. \A k \in DOMAIN results : results[k] => Passes(k)'
      BY <2>4 DEF HttpInv, VerdictInv
    <3> QED
      BY <1>0, <3>2, <3>3 DEF VerdictInv, IsSpec
  <2> QED
    BY <2>5, <2>6, <2>7, <2>8, <2>9 DEF HttpInv
<1> QED
  BY <1>2, <1>3

LEMMA AssertStep == ASSUME HttpInv, run_assert PROVE HttpInv'
<1> DEFINE c == TheCase
           got == extract_response_values(last, c.extract)
           passed == evaluate_assertions(last, c.checks) = {} /\ got = c.extract
<1>0. /\ httpPc = "evaluate" /\ IsSpec /\ UNCHANGED <<httpAsk, now, left, attempts>>
      /\ httpAsk \in HttpAsks /\ HttpTypeOK
  BY DEF run_assert, HttpInv, HttpTypeOK, IsSpec
<1>1. /\ case \in Nat /\ 1 <= case /\ case <= Len(httpAsk.cases) /\ Len(httpAsk.cases) \in Nat
      /\ Len(results) = case - 1 /\ DOMAIN results = 1..Len(results) /\ httpAsk.retry \in Nat
  BY <1>0, HttpAssumption, LenProperties DEF HttpInv, HttpTypeOK, PlaceInv, CaseOpen
<1>2. CASE last.code = 0
  <2>1. HttpDone(last.body) /\ UNCHANGED <<case, origin, results>>
    BY <1>2 DEF run_assert
  <2>2. last.body # "ok"
    BY <1>0, <1>2, LastPasses, FailureNotOk
  <2> QED
    BY <1>0, <2>1, <2>2, HttpEnds DEF HttpDone
<1>3. CASE last.code # 0
  <2>1. /\ results' = Append(results, passed)
        /\ origin' = [v \in DOMAIN origin |-> IF passed /\ v \in got THEN case ELSE origin[v]]
        /\ IF case = Len(httpAsk.cases) \/ (httpAsk.fail_fast /\ ~passed)
           THEN httpPc' = "report" /\ UNCHANGED case
           ELSE httpPc' = "prepare" /\ case' = case + 1
        /\ UNCHANGED httpAnswer
    BY <1>3 DEF run_assert
  <2>2. passed \in BOOLEAN
    OBVIOUS
  <2>3. passed => Passes(case)
    <3>1. c.checks = ChecksOf(case)
      BY <1>0 DEF TheCase, ChecksOf, IsSpec
    <3> QED
      BY <1>0, <3>1, LastPasses
  <2> HIDE DEF passed, got
  <2>4. /\ results' \in Seq(BOOLEAN) /\ Len(results') = case /\ DOMAIN results' = 1..case
        /\ results'[case] = passed /\ \A k \in DOMAIN results : results'[k] = results[k] /\ k \in DOMAIN results'
    <3>1. /\ Len(results') = Len(results) + 1 /\ results' \in Seq(BOOLEAN)
          /\ results'[Len(results) + 1] = passed /\ \A k \in 1..Len(results) : results'[k] = results[k]
      BY <1>0, <2>1, <2>2, AppendProperties DEF HttpTypeOK
    <3>2. DOMAIN results' = 1..Len(results')
      BY <3>1, LenProperties
    <3> QED
      BY <1>1, <3>1, <3>2
  <2>5. \/ httpPc' = "report" /\ case' = case /\ (case = Len(httpAsk.cases) \/ ~passed)
        \/ httpPc' = "prepare" /\ case' = case + 1 /\ case # Len(httpAsk.cases)
    BY <2>1
  <2>6. \A k : AttemptsOf(k)' = AttemptsOf(k) /\ (Passes(k)' <=> Passes(k))
    BY <1>0, SameAttempts
  <2>7. \A i \in DOMAIN attempts : attempts[i].case \in Nat /\ 1 <= attempts[i].case /\ attempts[i].case <= case
    BY <1>0, AttemptTypes DEF HttpInv, PlaceInv
  <2>8. HttpTypeOK'
    <3>1. DOMAIN origin' = DOMAIN origin /\ \A v \in DOMAIN origin' : origin'[v] \in Int
      BY <1>0, <1>1, <2>1 DEF HttpTypeOK
    <3>2. case' \in Nat /\ httpPc' \in {"report", "prepare"}
      BY <1>1, <2>5
    <3> QED
      BY <1>0, <2>4, <3>1, <3>2 DEF HttpTypeOK, CaseOpen
  <2>t. TimeInv'
    BY <1>0 DEF HttpInv, TimeInv, Deadline
  <2>9. PlaceInv'
    <3>1. CASE httpPc' = "report"
      <4>1. case' = Len(httpAsk'.cases) \/ \E k \in DOMAIN results' : ~results'[k]
        BY <1>0, <1>1, <2>4, <2>5, <3>1
      <4> QED
        BY <1>0, <1>1, <2>4, <2>5, <2>7, <3>1, <4>1 DEF PlaceInv, CaseOpen, IsSpec
    <3>2. CASE httpPc' = "prepare"
      <4>1. case' = case + 1 /\ case' <= Len(httpAsk.cases)
        BY <1>1, <2>5, <3>2
      <4>2. \A i \in DOMAIN attempts : attempts[i].case < case' /\ attempts[i].case <= case'
        BY <1>1, <2>7, <4>1
      <4> QED
        BY <1>0, <1>1, <2>4, <2>7, <3>2, <4>1, <4>2 DEF PlaceInv, CaseOpen, IsSpec
    <3> QED
      BY <2>5, <3>1, <3>2
  <2>10. RetryInv'
    <3>1. ASSUME NEW k \in 1..case' PROVE Cardinality(AttemptsOf(k)') <= httpAsk.retry + 1
      <4>1. CASE k \in 1..case
        BY <2>6, <4>1 DEF HttpInv, RetryInv
      <4>2. CASE k = case + 1
        <5>1. AttemptsOf(k) = {}
          BY <1>1, <2>7, <4>2 DEF AttemptsOf
        <5>2. Cardinality(AttemptsOf(k)') = 0
          BY <2>6, <5>1, FS_EmptySet
        <5> QED
          BY <1>1, <5>2
      <4> QED
        BY <1>1, <2>5, <4>1, <4>2
    <3>2. httpPc' \notin {"attempt", "wait"}
      BY <2>5
    <3>3. \A i, j \in DOMAIN attempts :
            i < j /\ attempts[i].case = attempts[j].case => Retryable(attempts[i].outcome)
      BY DEF HttpInv, RetryInv
    <3> QED
      BY <1>0, <3>1, <3>2, <3>3 DEF RetryInv
  <2>11. OriginInv'
    <3>1. ASSUME NEW v \in DOMAIN origin'
          PROVE  origin'[v] >= -1 /\ (origin'[v] > 0 => origin'[v] \in DOMAIN results' /\ results'[origin'[v]])
      <4>0. v \in DOMAIN origin
        BY <2>1
      <4>1. CASE passed /\ v \in got
        <5>1. origin'[v] = case
          BY <2>1, <4>0, <4>1
        <5>2. case >= -1 /\ case \in DOMAIN results'
          BY <1>1, <2>4
        <5>3. results'[case]
          BY <2>4, <4>1
        <5> QED
          BY <5>1, <5>2, <5>3
      <4>2. CASE ~(passed /\ v \in got)
        <5>1. origin'[v] = origin[v]
          BY <2>1, <4>0, <4>2
        <5>2. origin[v] >= -1 /\ (origin[v] > 0 => origin[v] \in DOMAIN results /\ results[origin[v]])
          BY <4>0 DEF HttpInv, OriginInv
        <5> QED
          BY <2>4, <5>1, <5>2
      <4> QED
        BY <4>1, <4>2
    <3>2. \A i \in DOMAIN attempts : \A k \in attempts[i].from :
            k >= 0 /\ (k > 0 => k < attempts[i].case /\ k \in DOMAIN results' /\ results'[k])
      BY <2>4 DEF HttpInv, OriginInv
    <3>3. httpPc' \notin {"attempt", "wait"}
      BY <2>5
    <3> QED
      BY <1>0, <3>1, <3>2, <3>3 DEF OriginInv
  <2>12. VerdictInv'
    <3>1. ASSUME NEW k \in DOMAIN results', results'[k] PROVE Passes(k)'
      <4>1. CASE k \in DOMAIN results
        BY <2>4, <2>6, <3>1, <4>1 DEF HttpInv, VerdictInv
      <4>2. CASE k = case
        <5>1. passed
          BY <2>4, <3>1, <4>2
        <5> QED
          BY <2>3, <2>6, <4>2, <5>1
      <4> QED
        BY <1>1, <2>4, <4>1, <4>2
    <3>2. httpAnswer' # "ok"
      BY <1>0, <2>1 DEF HttpInv, VerdictInv
    <3> QED
      BY <3>1, <3>2 DEF VerdictInv
  <2> QED
    BY <2>8, <2>9, <2>10, <2>11, <2>12, <2>t DEF HttpInv
<1> QED
  BY <1>2, <1>3

LEMMA ReportStep == ASSUME HttpInv, execute_assert PROVE HttpInv'
<1>0. /\ httpPc = "report" /\ IsSpec /\ httpPc' = "over"
      /\ UNCHANGED <<httpAsk, now, left, case, origin, attempts, results>>
      /\ Len(results) = case /\ DOMAIN results = 1..case
  BY LenProperties DEF execute_assert, HttpDone, HttpInv, HttpTypeOK, PlaceInv
<1>1. CASE httpAnswer' # "ok"
  BY <1>0, <1>1, HttpEnds
<1>2. CASE httpAnswer' = "ok"
  <2>1. \A k \in DOMAIN results : results[k]
    BY <1>2 DEF execute_assert, HttpDone
  <2>2. case = Len(httpAsk.cases)
    BY <1>0, <2>1 DEF HttpInv, PlaceInv
  <2>3. \A k : AttemptsOf(k)' = AttemptsOf(k) /\ (Passes(k)' <=> Passes(k))
    BY <1>0, SameAttempts
  <2>4. HttpTypeOK' /\ TimeInv'
    BY <1>0 DEF HttpInv, HttpTypeOK, TimeInv, Deadline
  <2>5. PlaceInv'
    BY <1>0 DEF HttpInv, PlaceInv, CaseOpen, IsSpec
  <2>6. RetryInv'
    BY <1>0, <2>3 DEF HttpInv, RetryInv
  <2>7. OriginInv'
    BY <1>0 DEF HttpInv, OriginInv
  <2>8. VerdictInv'
    <3>1. \A k \in 1..case : Passes(k)'
      BY <1>0, <2>1, <2>3 DEF HttpInv, VerdictInv
    <3> QED
      BY <1>0, <2>2, <3>1 DEF VerdictInv, IsSpec
  <2> QED
    BY <2>4, <2>5, <2>6, <2>7, <2>8 DEF HttpInv
<1> QED
  BY <1>1, <1>2

LEMMA HttpStep == ASSUME HttpInv, [HttpNext]_httpVars PROVE HttpInv'
<1>1. CASE UNCHANGED httpVars
  <2>1. /\ UNCHANGED <<httpAsk, httpPc, now, left, case, origin, last, attempts, results, httpAnswer>>
    BY <1>1 DEF httpVars
  <2>2. \A k : AttemptsOf(k)' = AttemptsOf(k) /\ (Passes(k)' <=> Passes(k))
    BY <2>1, SameAttempts
  <2>3. HttpTypeOK' /\ TimeInv' /\ PlaceInv' /\ OriginInv'
    BY <2>1 DEF HttpInv, HttpTypeOK, TimeInv, PlaceInv, OriginInv, Deadline, CaseOpen, IsSpec, TheCase
  <2>4. RetryInv'
    <3>1. AttemptsOf(case)' = AttemptsOf(case)
      BY <2>1 DEF AttemptsOf
    <3> QED
      BY <2>1, <2>2, <3>1 DEF HttpInv, RetryInv
  <2>5. VerdictInv'
    BY <2>1, <2>2 DEF HttpInv, VerdictInv, IsSpec
  <2> QED
    BY <2>3, <2>4, <2>5 DEF HttpInv
<1>2. CASE HttpNext
  BY <1>2, BeginStep, PrepareStep, SendStep, WaitStep, RequestStep, AssertStep, ReportStep DEF HttpNext
<1> QED
  BY <1>1, <1>2

\* The invariant gives the promise about the requests and about the verdict.
LEMMA HttpInvSound == ASSUME HttpInv PROVE AssertSound
<1>1. RetriesInBounds
  <2>1. \A k \in 1..case : Cardinality({i \in DOMAIN attempts : attempts[i].case = k}) <= httpAsk.retry + 1
    BY DEF HttpInv, RetryInv, AttemptsOf
  <2>2. \A i, j \in DOMAIN attempts :
          i < j /\ attempts[i].case = attempts[j].case => Retryable(attempts[i].outcome)
    BY DEF HttpInv, RetryInv
  <2> QED
    BY <2>1, <2>2 DEF HttpInv, TimeInv, RetriesInBounds
<1>2. VerdictFromLastResponse
  <2> DEFINE lastOf(k) == CHOOSE i \in DOMAIN attempts :
                     attempts[i].case = k /\ \A j \in DOMAIN attempts : attempts[j].case = k => j <= i
             checksOf(k) == IF httpAsk.op = "assert" THEN httpAsk.cases[k].checks ELSE httpAsk.checks
  <2>0. DOMAIN attempts = 1..Len(attempts) /\ Len(attempts) \in Nat
    BY AttemptTypes DEF HttpInv
  <2>1. ASSUME httpAnswer = "ok", NEW k \in 1..case, NEW c \in DOMAIN checksOf(k)
        PROVE  CheckHolds(attempts[lastOf(k)].outcome, checksOf(k)[c])
    <3>1. checksOf(k) = ChecksOf(k)
      BY DEF ChecksOf, IsSpec
    <3>2. PICK n \in AttemptsOf(k) :
            /\ \A j \in AttemptsOf(k) : j <= n
            /\ \A d \in DOMAIN ChecksOf(k) : CheckHolds(attempts[n].outcome, ChecksOf(k)[d])
      BY <2>1 DEF HttpInv, VerdictInv, Passes
    <3>3. n \in DOMAIN attempts /\ attempts[n].case = k /\ \A j \in DOMAIN attempts : attempts[j].case = k => j <= n
      BY <3>2 DEF AttemptsOf
    <3>4. /\ lastOf(k) \in DOMAIN attempts /\ attempts[lastOf(k)].case = k
          /\ \A j \in DOMAIN attempts : attempts[j].case = k => j <= lastOf(k)
      BY <3>3
    <3> HIDE DEF lastOf, checksOf
    <3>5. lastOf(k) = n
      BY <2>0, <3>3, <3>4
    <3> QED
      BY <2>1, <3>1, <3>2, <3>5
  <2>2. httpAnswer = "ok" /\ httpAsk.op = "assert" => Len(results) = Len(httpAsk.cases)
    BY DEF HttpInv, VerdictInv, IsSpec
  <2>3. \A i \in DOMAIN attempts : \A k \in attempts[i].from : k >= 0 /\ (k > 0 => k < attempts[i].case /\ results[k])
    BY DEF HttpInv, OriginInv
  <2> QED
    BY <2>1, <2>2, <2>3 DEF VerdictFromLastResponse
<1> QED
  BY <1>1, <1>2 DEF AssertSound

\* Whatever the servers answer and however long it takes them: every attempt begins before
\* the deadline and is answered within it, no wait goes past it, and past it (where only the
\* body of a response can take the command) nothing is sent; a case is tried again only after an outcome that may be retried and
\* at most as often as asked, "ok" means that every check of every case held of the case's
\* last response, and no request uses a value of a case that failed (send_with_retry,
\* run_request_command, run_assert).
THEOREM AssertIsSound == HttpSpec => []AssertSound
<1>1. HttpInit => HttpInv
  BY HttpInitInv
<1>2. HttpInv /\ [HttpNext]_httpVars => HttpInv'
  BY HttpStep
<1>3. HttpInv => AssertSound
  BY HttpInvSound
<1> QED
  BY <1>1, <1>2, <1>3, PTL DEF HttpSpec

-----------------------------------------------------------------------------
(* The forge plugins.                                                      *)

\* The token of a call is bound to the authority of its API URL, and is one it may have.
TokenBound ==
  forgeToken.token # "none" =>
    /\ forgeToken.authority = secure_authority(forgeAsk.api) /\ forgeToken.authority # "none"
    /\ forgeToken.token = "ambient" =>
         \/ forgeAsk.api.host \in HomeAuthorities(forgeAsk.forge) \cup {"loopback"}
         \/ forgeAsk.api.host = forgeAsk.remote /\ forgeAsk.where # "given"
    /\ forgeToken.token = "explicit" => forgeAsk.inline \/ forgeAsk.vault = "good"

ForgeTokenInv == forgeAsk \in ForgeAsks /\ TokenBound /\ TokenWhereAllowed

\* What invoke resolves for a call.
LEMMA ResolvedIsBound ==
  ASSUME NEW a \in ForgeAsks, connection_token(a).code = "none", Repository(a).code = "none"
  PROVE  LET cred == resolve_token(a, connection_token(a).explicit).cred
         IN  cred.token # "none" =>
               /\ cred.authority = secure_authority(a.api) /\ cred.authority # "none"
               /\ cred.token = "ambient" =>
                    \/ a.api.host \in HomeAuthorities(a.forge) \cup {"loopback"}
                    \/ a.api.host = a.remote /\ a.where # "given"
               /\ cred.token = "explicit" => a.inline \/ a.vault = "good"
<1> DEFINE explicit == connection_token(a).explicit
           authority == secure_authority(a.api)
           cred == resolve_token(a, explicit).cred
<1>0. /\ a.api.host \in {"api.github", "github", "gitlab", "mirror", "loopback"} /\ a.inline \in BOOLEAN
      /\ a.where \in {"given", "badarg", "home", "elsewhere", "undetected"}
      /\ a.vault \in {"none", "good", "kind", "blank", "unresolved", "otherid"}
  BY ForgeAssumption DEF ConnectionArgs, Urls
<1>1. explicit \in BOOLEAN /\ (explicit => a.inline \/ a.vault = "good")
  BY <1>0 DEF connection_token, resolved_token, token_from_resolved_secrets
<1>2. authority # "none" => authority = a.api.host
  BY DEF secure_authority
<1>3. accepts_ambient_credentials(a, a.api.host) =>
         \/ a.api.host \in HomeAuthorities(a.forge) \cup {"loopback"}
         \/ a.api.host = a.remote /\ a.where # "given"
  BY <1>0 DEF accepts_ambient_credentials, is_loopback_authority, Repository, resolve_repo,
              resolve_host_and_project, Found, NotFound
<1> HIDE DEF explicit, authority
<1>4. cred.token # "none" =>
        /\ cred.authority = authority /\ authority # "none"
        /\ cred.token = "explicit" => explicit
        /\ cred.token = "ambient" => accepts_ambient_credentials(a, authority)
  <2>1. CASE authority = "none"
    BY <2>1 DEF resolve_token, NoTokenHere, authority
  <2>2. CASE authority # "none" /\ explicit
    BY <2>2 DEF resolve_token, TokenFor, authority
  <2>3. CASE authority # "none" /\ ~explicit /\ ~accepts_ambient_credentials(a, authority)
    BY <2>3, <1>1 DEF resolve_token, NoTokenHere, authority
  <2>4. CASE authority # "none" /\ ~explicit /\ accepts_ambient_credentials(a, authority)
    <3>1. cred = TokenFor(IF a.env \/ git_credential_token(a) THEN "ambient" ELSE "none", authority)
      BY <2>4, <1>1 DEF resolve_token, authority
    <3> QED
      BY <2>4, <3>1 DEF TokenFor
  <2> QED
    BY <1>1, <2>1, <2>2, <2>3, <2>4
<1> QED
  BY <1>1, <1>2, <1>3, <1>4 DEF explicit, authority

\* A request carries the token only where it is bound to, and a redirect of GitHub's does
\* not take it further.
LEMMA SendKeepsToken ==
  ASSUME ForgeTokenInv, NEW to, NEW hops \in Redirects, NEW turned, send(to, hops, turned),
         UNCHANGED <<forgeAsk, forgeToken>>
  PROVE  ForgeTokenInv'
<1> DEFINE url == Asked(to)
           token == apply(url, to)
           first == [url |-> url, token |-> token, at |-> forgeClock, hop |-> 0, turned |-> FALSE]
           Later(k) == [url |-> hops[k], token |-> IF Carried(url, hops, k) THEN token ELSE "none",
                        at |-> forgeClock, hop |-> k, turned |-> turned]
           ForHost(host) ==
             /\ host = forgeAsk.api.host
             /\ token = "ambient" =>
                  \/ host \in HomeAuthorities(forgeAsk.forge) \cup {"loopback"}
                  \/ host = forgeAsk.remote /\ forgeAsk.where # "given"
<1>0. sentTo' = sentTo \cup {first} \cup {Later(k) : k \in DOMAIN hops}
  BY DEF send, Followed
<1>a. TokenBound /\ TokenWhereAllowed /\ forgeAsk \in ForgeAsks
  BY DEF ForgeTokenInv
<1>1. ASSUME token # "none"
      PROVE  token = forgeToken.token /\ secure_authority(url) = forgeToken.authority
  <2>1. CASE to = "graphql"
    BY <1>1, <2>1 DEF apply, authorized_token
  <2>2. CASE to # "graphql" /\ forgeAsk.forge = "github"
    <3>1. token = forgeToken.token
      BY <2>2 DEF apply, github_api
    <3>2. url = forgeAsk.api
      BY <2>2 DEF Asked
    <3> QED
      BY <1>a, <1>1, <3>1, <3>2 DEF TokenBound
  <2>3. CASE to # "graphql" /\ forgeAsk.forge # "github"
    BY <1>1, <2>3 DEF apply, gitlab_api
  <2> QED
    BY <2>1, <2>2, <2>3
<1> HIDE DEF url, token
<1>2. ASSUME token # "none"
      PROVE  /\ url.scheme = "https" \/ url.host = "loopback"
             /\ ForHost(url.host)
             /\ token = "explicit" => forgeAsk.inline \/ forgeAsk.vault = "good"
  <2>1. secure_authority(url) = secure_authority(forgeAsk.api) /\ secure_authority(url) # "none"
    BY <1>a, <1>1, <1>2 DEF TokenBound
  <2>2. url.host = forgeAsk.api.host /\ (url.scheme = "https" \/ url.host = "loopback")
    BY <2>1 DEF secure_authority, is_loopback_authority
  <2> QED
    BY <1>a, <1>1, <1>2, <2>2 DEF TokenBound
<1>3. ASSUME NEW k \in DOMAIN hops, Later(k).token # "none", forgeAsk.forge = "github"
      PROVE  hops[k].host = url.host
  <2>1. k \in 1..k
    <3>1. hops \in Seq(Urls)
      BY ForgeAssumption
    <3> QED
      BY <3>1
  <2>2. Carried(url, hops, k)
    BY <1>3
  <2> QED
    BY <1>3, <2>1, <2>2 DEF Carried
<1>4. TokenWhereAllowed'
  <2> SUFFICES ASSUME NEW s \in sentTo', s.token # "none"
               PROVE  /\ s.hop = 0 => s.url.scheme = "https" \/ s.url.host = "loopback"
                      /\ (s.hop = 0 \/ forgeAsk.forge = "github") =>
                           /\ s.url.host = forgeAsk.api.host
                           /\ s.token = "ambient" =>
                                \/ s.url.host \in HomeAuthorities(forgeAsk.forge) \cup {"loopback"}
                                \/ s.url.host = forgeAsk.remote /\ forgeAsk.where # "given"
                      /\ s.token = "explicit" => forgeAsk.inline \/ forgeAsk.vault = "good"
    BY DEF TokenWhereAllowed
  <2>1. CASE s \in sentTo
    BY <1>a, <2>1 DEF TokenWhereAllowed
  <2>2. CASE s = first
    <3>1. s.url = url /\ s.token = token
      BY <2>2
    <3> QED
      BY <1>2, <3>1
  <2>3. ASSUME NEW k \in DOMAIN hops, s = Later(k)
        PROVE  /\ s.hop = 0 => s.url.scheme = "https" \/ s.url.host = "loopback"
               /\ (s.hop = 0 \/ forgeAsk.forge = "github") =>
                    /\ s.url.host = forgeAsk.api.host
                    /\ s.token = "ambient" =>
                         \/ s.url.host \in HomeAuthorities(forgeAsk.forge) \cup {"loopback"}
                         \/ s.url.host = forgeAsk.remote /\ forgeAsk.where # "given"
               /\ s.token = "explicit" => forgeAsk.inline \/ forgeAsk.vault = "good"
    <3>1. s.url = hops[k] /\ s.hop = k /\ s.token = token /\ token # "none"
      BY <2>3
    <3>2. k # 0
      <4>1. hops \in Seq(Urls)
        BY ForgeAssumption
      <4> QED
        BY <4>1
    <3>3. forgeAsk.forge = "github" => ForHost(hops[k].host)
      BY <1>2, <1>3, <2>3, <3>1
    <3> QED
      BY <1>2, <3>1, <3>2, <3>3
  <2> QED
    BY <1>0, <2>1, <2>2, <2>3
<1>5. TokenBound'
  BY <1>a DEF TokenBound
<1> QED
  BY <1>a, <1>4, <1>5 DEF ForgeTokenInv

LEMMA InvokeKeepsToken == ASSUME ForgeTokenInv, invoke PROVE ForgeTokenInv'
<1> DEFINE a == forgeAsk
           secret == connection_token(a)
           resolved == resolve_token(a, secret.explicit)
<1>0. a \in ForgeAsks /\ UNCHANGED <<forgeAsk, sentTo>> /\ TokenBound /\ TokenWhereAllowed
  BY DEF ForgeTokenInv, invoke
<1>1. TokenWhereAllowed'
  BY <1>0 DEF TokenWhereAllowed
<1>2. \/ UNCHANGED forgeToken
      \/ secret.code = "none" /\ Repository(a).code = "none" /\ forgeToken' = resolved.cred
  BY DEF invoke
<1>3. TokenBound'
  <2>1. CASE UNCHANGED forgeToken
    BY <1>0, <2>1 DEF TokenBound
  <2>2. CASE secret.code = "none" /\ Repository(a).code = "none" /\ forgeToken' = resolved.cred
    BY <1>0, <2>2, ResolvedIsBound DEF TokenBound
  <2> QED
    BY <1>2, <2>1, <2>2
<1> QED
  BY <1>0, <1>1, <1>3 DEF ForgeTokenInv

\* No request a plugin makes carries a token in clear off this machine or to an authority it
\* is not bound to, the GraphQL URL's included, and one the caller did not give for the call
\* reaches only the forge, this machine or the host of the git remote, whatever the URLs,
\* remotes, credentials and redirects (resolve, accepts_ambient_credentials,
\* Authorization::apply).  A redirect takes GitHub's to no other host; of GitLab's after a
\* redirect the theorem says only whose it is.
THEOREM TokensGoWhereAllowed == ForgeSpec => []TokenWhereAllowed
<1>1. ForgeInit => ForgeTokenInv
  BY DEF ForgeInit, ForgeTokenInv, TokenBound, NoTokenHere, TokenWhereAllowed
<1>2. ForgeTokenInv /\ [ForgeNext]_forgeVars => ForgeTokenInv'
  <2> SUFFICES ASSUME ForgeTokenInv, [ForgeNext]_forgeVars PROVE ForgeTokenInv'
    OBVIOUS
  <2>0. ASSUME UNCHANGED <<forgeAsk, forgeToken, sentTo>> PROVE ForgeTokenInv'
    BY <2>0 DEF ForgeTokenInv, TokenBound, TokenWhereAllowed
  <2>1. CASE invoke
    BY <2>1, InvokeKeepsToken
  <2>2. CASE Request
    <3>1. PICK fate \in Fates \cup {Turned}, hops \in Redirects :
            send(plan(forgeAsk).steps[forgeAt].to, hops, fate = Turned)
      BY <2>2 DEF Request
    <3>2. UNCHANGED <<forgeAsk, forgeToken>>
      BY <2>2 DEF Request
    <3> QED
      BY <3>1, <3>2, SendKeepsToken
  <2>3. CASE list_github_issues \/ Probe \/ download_logs
    <3>1. SendRead /\ UNCHANGED <<forgeAsk, forgeToken>>
      BY <2>3 DEF list_github_issues, Probe, download_logs
    <3>2. PICK hops \in Redirects : send("api", hops, FALSE)
      BY <3>1 DEF SendRead
    <3> QED
      BY <3>1, <3>2, SendKeepsToken
  <2>4. CASE Sleep \/ scan_line \/ CancelForge \/ PublishIssue \/ RunEnds
    BY <2>0, <2>4 DEF Sleep, scan_line, CancelForge, PublishIssue, RunEnds
  <2>5. CASE UNCHANGED forgeVars
    BY <2>0, <2>5 DEF forgeVars
  <2> QED
    BY <2>1, <2>2, <2>3, <2>4, <2>5 DEF ForgeNext, ForgeStep
<1>3. ForgeTokenInv => TokenWhereAllowed
  BY DEF ForgeTokenInv
<1> QED
  BY <1>1, <1>2, <1>3, PTL DEF ForgeSpec

-----------------------------------------------------------------------------
(* Waiting for a run or a pipeline.                                        *)

WaitInv ==
  /\ forgeAsk \in ForgeAsks /\ runState \in {"running", "success", "failed"}
  /\ forgeAsk.cmd = "wait" =>
       /\ forgeClock \in Nat
       /\ forgeStage \in {"invoked", "probing", "sleeping", "answered"}
       /\ forgeStage \in {"invoked", "probing"} => forgeClock = 0 \/ forgeClock < forgeAsk.timeout
       /\ forgeStage = "sleeping" => forgeClock < forgeAsk.timeout
       /\ forgeStage # "answered" => forgeAnswer.code = "none"
  /\ WaitAsAnswered

\* A wait goes from its checks to its first probe, and is refused for none of the reasons
\* a wait ends for.
LEMMA WaitRefusals ==
  ASSUME NEW a \in ForgeAsks, a.cmd = "wait"
  PROVE  /\ plan(a).code = "none" /\ plan(a).then = "probing"
         /\ connection_token(a).code \notin {"ok", "RUN_FAILED", "TIMEOUT", "CANCELLED"}
         /\ Repository(a).code \notin {"ok", "RUN_FAILED", "TIMEOUT", "CANCELLED"}
<1>1. plan(a) = GoesOn("probing")
  BY DEF plan, github_execute, execute_run, wait_run, gitlab_execute, execute_pipeline, wait_pipeline
<1>2. plan(a).code = "none" /\ plan(a).then = "probing"
  BY <1>1 DEF GoesOn, Steps
<1>3. connection_token(a).code \notin {"ok", "RUN_FAILED", "TIMEOUT", "CANCELLED"}
  BY DEF connection_token, resolved_token, token_from_resolved_secrets
<1>4. Repository(a).code \notin {"ok", "RUN_FAILED", "TIMEOUT", "CANCELLED"}
  BY DEF Repository, resolve_repo, resolve_host_and_project, Found, NotFound
<1> QED
  BY <1>2, <1>3, <1>4

\* A wait that is done says so of a run that is done, and so on, whatever becomes of its
\* requests and however long they and its sleeps take: "ok" and RUN_FAILED of a run that
\* ended so, TIMEOUT once the time is over, CANCELLED when the call was; and it asks
\* nothing once its time is over (until_ready).
THEOREM WaitsAreHonest == ForgeSpec => []WaitAsAnswered
<1>1. ForgeInit => WaitInv
  BY DEF ForgeInit, WaitInv, WaitAsAnswered, NotAnswered
<1>2. WaitInv /\ [ForgeNext]_forgeVars => WaitInv'
  <2> SUFFICES ASSUME WaitInv, [ForgeNext]_forgeVars PROVE WaitInv'
    OBVIOUS
  <2>a. forgeAsk \in ForgeAsks /\ forgeAsk.timeout \in Nat \ {0} /\ forgeAsk.interval \in Nat \ {0}
        /\ MaxDelay \in Nat /\ (forgeAsk.cmd = "wait" => forgeClock \in Nat)
    BY ForgeAssumption DEF WaitInv, WaitArgs
  <2>1. CASE invoke
    <3>0. forgeStage = "invoked" /\ UNCHANGED <<forgeAsk, forgeClock, forgeStop, runState, sentTo>>
      BY <2>1 DEF invoke, forgeWorld
    <3>1. CASE forgeAsk.cmd # "wait"
      BY <3>0, <3>1 DEF WaitInv, WaitAsAnswered
    <3>2. CASE forgeAsk.cmd = "wait"
      <4> DEFINE a == forgeAsk
                 secret == connection_token(a)
                 resolved == resolve_token(a, secret.explicit)
                 refusal == CASE forgeStop -> "CANCELLED"
                   [] ~forgeStop /\ secret.code # "none" -> secret.code
                   [] OTHER -> IF Repository(a).code # "none" THEN Repository(a).code
                               ELSE IF ~resolved.ok THEN "INSECURE_TOKEN_TARGET" ELSE plan(a).code
      <4>1. refusal \notin {"ok", "RUN_FAILED", "TIMEOUT"} /\ (refusal = "CANCELLED" => forgeStop)
        BY <2>a, <3>2, WaitRefusals
      <4>2. \/ forgeStage' = "answered" /\ forgeAnswer'.code = refusal
            \/ forgeStage' = "probing" /\ UNCHANGED forgeAnswer
        <5>1. plan(a).then = "probing"
          BY <2>a, <3>2, WaitRefusals
        <5> QED
          BY <2>1, <5>1 DEF invoke, invocation_response
      <4> HIDE DEF refusal
      <4> QED
        BY <3>0, <3>2, <4>1, <4>2 DEF WaitInv, WaitAsAnswered
    <3> QED
      BY <3>1, <3>2
  <2>2. CASE Request \/ list_github_issues \/ download_logs
    <3>1. forgeStage \in {"requests", "listing", "download"} /\ UNCHANGED <<forgeAsk, forgeClock, runState>>
      BY <2>2 DEF Request, list_github_issues, download_logs, forgeWorld
    <3> QED
      BY <3>1 DEF WaitInv, WaitAsAnswered
  <2>3. CASE scan_line \/ PublishIssue
    <3>1. forgeStage \in {"reading", "listing"} /\ UNCHANGED <<forgeAsk, forgeClock, runState>>
      BY <2>3 DEF scan_line, PublishIssue, forgeWorld
    <3> QED
      BY <3>1 DEF WaitInv, WaitAsAnswered
  <2>4. CASE Probe
    <3>0. forgeStage = "probing" /\ UNCHANGED <<forgeAsk, forgeStop, runState>> /\ SendRead
      BY <2>4 DEF Probe, forgeWorld
    <3>1. forgeAsk.cmd = "wait" => forgeClock' \in Nat
      BY <2>a, <2>4 DEF Probe
    <3>2. CASE forgeAsk.cmd # "wait"
      BY <2>a, <3>0, <3>1, <3>2 DEF WaitInv, WaitAsAnswered
    <3>3. CASE forgeAsk.cmd = "wait"
      <4>1. \A s \in sentTo' : s.at = 0 \/ s.at < forgeAsk.timeout
        <5>1. \A s \in sentTo' : s \in sentTo \/ s.at = forgeClock
          BY <3>0 DEF SendRead, send, Followed
        <5> QED
          BY <3>0, <3>3, <5>1 DEF WaitInv, WaitAsAnswered
      <4>2. \/ forgeStage' = "answered" /\ forgeAnswer'.code = Verdict /\ Terminal(runState)
            \/ forgeStage' = "answered" /\ forgeAnswer'.code = "TIMEOUT" /\ WaitOver(forgeClock')
            \/ forgeStage' = "sleeping" /\ UNCHANGED forgeAnswer /\ ~WaitOver(forgeClock')
            \/ forgeStage' = "answered" /\ forgeAnswer'.code \in {"API_FAILED", "RESPONSE_INVALID", "HTTP_FAILED"}
        BY <2>4 DEF Probe, invocation_response, FailureCode
      <4>3. CASE forgeStage' = "answered" /\ forgeAnswer'.code = Verdict /\ Terminal(runState)
        BY <2>a, <3>0, <3>1, <3>3, <4>1, <4>3 DEF WaitInv, WaitAsAnswered, Verdict, Terminal
      <4>4. CASE forgeStage' = "answered" /\ forgeAnswer'.code = "TIMEOUT" /\ WaitOver(forgeClock')
        BY <2>a, <3>0, <3>1, <3>3, <4>1, <4>4 DEF WaitInv, WaitAsAnswered, WaitOver
      <4>5. CASE forgeStage' = "sleeping" /\ UNCHANGED forgeAnswer /\ ~WaitOver(forgeClock')
        BY <2>a, <3>0, <3>1, <3>3, <4>1, <4>5 DEF WaitInv, WaitAsAnswered, WaitOver
      <4>6. CASE forgeStage' = "answered" /\ forgeAnswer'.code \in {"API_FAILED", "RESPONSE_INVALID", "HTTP_FAILED"}
        BY <2>a, <3>0, <3>1, <3>3, <4>1, <4>6 DEF WaitInv, WaitAsAnswered
      <4> QED
        BY <4>2, <4>3, <4>4, <4>5, <4>6
    <3> QED
      BY <3>2, <3>3
  <2>5. CASE Sleep
    <3> DEFINE remaining == forgeAsk.timeout - forgeClock
               nap == IF forgeAsk.interval < remaining THEN forgeAsk.interval ELSE remaining
    <3>0. forgeStage = "sleeping" /\ UNCHANGED <<forgeAsk, forgeStop, runState, sentTo>>
      BY <2>5 DEF Sleep, forgeWorld
    <3>1. CASE forgeAsk.cmd # "wait"
      BY <2>a, <3>0, <3>1 DEF WaitInv, WaitAsAnswered
    <3>2. CASE forgeAsk.cmd = "wait"
      <4>1. forgeClock < forgeAsk.timeout
        BY <3>0, <3>2 DEF WaitInv
      <4>2. forgeClock' \in Nat
        <5>1. nap \in Nat
          BY <2>a, <3>2, <4>1
        <5>2. forgeClock' = forgeClock \/ \E delay \in 0..MaxDelay : forgeClock' = forgeClock + nap + delay
          BY <2>5 DEF Sleep
        <5> HIDE DEF nap
        <5> QED
          BY <2>a, <3>2, <5>1, <5>2
      <4>3. \/ forgeStage' = "answered" /\ forgeAnswer'.code = "CANCELLED" /\ forgeStop
            \/ forgeStage' = "answered" /\ forgeAnswer'.code = "TIMEOUT" /\ WaitOver(forgeClock')
            \/ forgeStage' = "probing" /\ UNCHANGED forgeAnswer /\ ~WaitOver(forgeClock')
        BY <2>5 DEF Sleep, invocation_response
      <4> QED
        BY <2>a, <3>0, <3>2, <4>2, <4>3 DEF WaitInv, WaitAsAnswered, WaitOver
    <3> QED
      BY <3>1, <3>2
  <2>6. CASE CancelForge
    BY <2>6 DEF CancelForge, forgeWorld, WaitInv, WaitAsAnswered, WaitOver, Terminal
  <2>7. CASE RunEnds
    BY <2>7 DEF RunEnds, WaitInv, WaitAsAnswered
  <2>8. CASE UNCHANGED forgeVars
    BY <2>8 DEF forgeVars, WaitInv, WaitAsAnswered, WaitOver, Terminal
  <2> QED
    BY <2>1, <2>2, <2>3, <2>4, <2>5, <2>6, <2>7, <2>8 DEF ForgeNext, ForgeStep
<1>3. WaitInv => WaitAsAnswered
  BY DEF WaitInv
<1> QED
  BY <1>1, <1>2, <1>3, PTL DEF ForgeSpec

-----------------------------------------------------------------------------
(* The executor.                                                           *)

(* Type correctness apart from the bound on permits, which needs the count. *)

\* Everything TypeOK says except that permits stays below MaxActive.
Shape ==
  /\ closed \in BOOLEAN
  /\ closePc \in {"open", "snapshot", "stopping"}
  /\ closeSet \subseteq Exec
  /\ permits \in Nat
  /\ tracked \in [Ids -> Exec \cup {NoExec}]
  /\ pc \in [Exec -> CallPoints]
  /\ sender \in [Exec -> {"held", "taken", "sent"}]
  /\ outcome \in [Exec -> Outcomes]
  /\ handler \in [Exec -> {"none", "queued", "started", "scoped", "exited"}]
  /\ targets \subseteq Exec
  /\ pendingCancel \subseteq Exec
  /\ cancelledIds \subseteq Ids

\* The tracked map and the program counters of run_execution agree.
Tracking ==
  /\ \A e \in Exec : pc[e] \in Registered => tracked[IdOf[e]] = e
  /\ \A i \in Ids : tracked[i] # NoExec =>
       pc[tracked[i]] \in Registered /\ IdOf[tracked[i]] = i

\* The sender is gone exactly when an answer is decided, and a call past the
\* select has lost its sender.
Answering ==
  \A e \in Exec :
    /\ sender[e] = "held" <=> outcome[e] = "none"
    /\ pc[e] \in AfterAnswer => sender[e] # "held"

\* What cancel() and cancel_all() have copied was registered once.
Copied ==
  \A e \in targets \cup closeSet :
    pc[e] \in Registered \cup {"releasing", "signalling", "done"}

\* close() closes admission before it takes its snapshot.
Closing ==
  /\ closePc # "open" => closed
  /\ CloseStopsEverything

IInv ==
  Shape /\ SlotAccounting /\ Tracking /\ Answering /\ Copied /\ Closing

USE ExecutorAssumption

-----------------------------------------------------------------------------

\* Each step keeps every variable in its range.
LEMMA ShapeStep ==
  ASSUME Shape, [Next]_vars
  PROVE  Shape'
<1> USE DEF Shape, Goto, submission
<1> USE DEF CallPoints, BeforePermit, HoldsPermit, Registered, Selecting
<1>1. ASSUME NEW e \in Exec, Submission(e) PROVE Shape'
  <2>1. CASE SubmitCheck(e) BY <2>1 DEF SubmitCheck
  <2>2. CASE AcquirePermit(e) BY <2>2 DEF AcquirePermit
  <2>3. CASE Register(e) BY <2>3 DEF Register, ReturnPermit
  <2> QED BY <1>1, <2>1, <2>2, <2>3 DEF Submission
<1>2. ASSUME NEW e \in Exec, Task(e) PROVE Shape'
  <2>1. CASE StopSeen(e) BY <2>1 DEF StopSeen
  <2>2. CASE DeadlineFires(e)
        BY <2>2 DEF DeadlineFires, Take, Outcomes, StopOutcomes
  <2>3. CASE HandlerJoined(e)
        BY <2>3 DEF HandlerJoined, Take, Outcomes, StopOutcomes
  <2>4. CASE PublishOwn(e) BY <2>4 DEF PublishOwn
  <2>5. CASE PublishCancelled(e) BY <2>5 DEF PublishCancelled
  <2>6. CASE Drained(e) BY <2>6 DEF Drained
  <2>7. CASE Abandon(e) BY <2>7 DEF Abandon
  <2>8. CASE RemoveTracked(e) BY <2>8 DEF RemoveTracked
  <2>9. CASE ReleasePermit(e) BY <2>9 DEF ReleasePermit, ReturnPermit
  <2>10. CASE SignalPhysical(e) BY <2>10 DEF SignalPhysical
  <2> QED BY <1>2, <2>1, <2>2, <2>3, <2>4, <2>5, <2>6, <2>7, <2>8, <2>9, <2>10
          DEF Task
<1>3. ASSUME NEW e \in Exec, Pool(e) PROVE Shape'
  BY <1>3 DEF Pool, HandlerStart, HandlerRefuse, ScopeEnter, ScopeDrop,
              CancelTyped, SetHandler
<1>4. ASSUME NEW e \in Exec, CancelStop(e) \/ CloseStop(e) PROVE Shape'
  BY <1>4 DEF CancelStop, CloseStop, StopCancelled, Take, Outcomes, StopOutcomes
<1>5. ASSUME NEW i \in Ids, CancelLookup(i) PROVE Shape'
  BY <1>5 DEF CancelLookup
<1>6. CASE CloseSwap BY <1>6 DEF CloseSwap
<1>7. CASE CloseSnapshot BY <1>7 DEF CloseSnapshot
<1>8. CASE UNCHANGED vars BY <1>8 DEF vars
<1> QED BY <1>1, <1>2, <1>3, <1>4, <1>5, <1>6, <1>7, <1>8 DEF Next

-----------------------------------------------------------------------------
(* The count of permits.  A step moves at most one call, so the set of      *)
(* holders changes by at most one element.                                  *)

\* Where a call moves, the number of permit holders follows.
LEMMA HoldersStep ==
  ASSUME Shape, NEW e \in Exec, NEW p \in CallPoints, Goto(e, p)
  PROVE  /\ Cardinality(Holders) \in Nat
         /\ Cardinality(Holders') \in Nat
         /\ (pc[e] \in HoldsPermit <=> p \in HoldsPermit)
              => Cardinality(Holders') = Cardinality(Holders)
         /\ pc[e] \notin HoldsPermit /\ p \in HoldsPermit
              => Cardinality(Holders') = Cardinality(Holders) + 1
         /\ pc[e] \in HoldsPermit /\ p \notin HoldsPermit
              => Cardinality(Holders') = Cardinality(Holders) - 1
<1>1. IsFiniteSet(Holders) /\ IsFiniteSet(Holders')
  BY FS_Subset DEF Holders
<1>2. Cardinality(Holders) \in Nat /\ Cardinality(Holders') \in Nat
  BY <1>1, FS_CardinalityType
<1>3. CASE pc[e] \in HoldsPermit <=> p \in HoldsPermit
  <2>1. Holders' = Holders BY <1>3 DEF Shape, Goto, Holders
  <2> QED BY <1>2, <1>3, <2>1
<1>4. CASE pc[e] \notin HoldsPermit /\ p \in HoldsPermit
  <2>1. Holders' = Holders \cup {e} /\ e \notin Holders
    BY <1>4 DEF Shape, Goto, Holders
  <2>2. Cardinality(Holders') = Cardinality(Holders) + 1
    BY <1>1, <2>1, FS_AddElement
  <2> QED BY <1>2, <1>4, <2>2
<1>5. CASE pc[e] \in HoldsPermit /\ p \notin HoldsPermit
  <2>1. Holders' = Holders \ {e} /\ e \in Holders
    BY <1>5 DEF Shape, Goto, Holders
  <2>2. Cardinality(Holders') = Cardinality(Holders) - 1
    BY <1>1, <2>1, FS_RemoveElement
  <2> QED BY <1>2, <1>5, <2>2
<1> QED BY <1>3, <1>4, <1>5

\* A step that moves no call leaves the holders alone.
LEMMA HoldersSame ==
  ASSUME UNCHANGED <<pc, permits>>, SlotAccounting
  PROVE  SlotAccounting'
BY DEF SlotAccounting, Holders

\* The permits missing from the semaphore are the ones that calls hold.
LEMMA SlotStep ==
  ASSUME Shape, SlotAccounting, [Next]_vars
  PROVE  SlotAccounting'
<1> USE DEF CallPoints, BeforePermit, HoldsPermit, Registered, Selecting,
            submission
<1>1. ASSUME NEW e \in Exec, Submission(e) PROVE SlotAccounting'
  <2>1. CASE SubmitCheck(e)
    BY <2>1, HoldersStep DEF SubmitCheck, SlotAccounting
  <2>2. CASE AcquirePermit(e)
    BY <2>2, HoldersStep DEF AcquirePermit, SlotAccounting, Shape
  <2>3. CASE Register(e)
    BY <2>3, HoldersStep DEF Register, ReturnPermit, SlotAccounting, Shape
  <2> QED BY <1>1, <2>1, <2>2, <2>3 DEF Submission
<1>2. ASSUME NEW e \in Exec, Task(e) PROVE SlotAccounting'
  <2>1. CASE StopSeen(e) BY <2>1, HoldersStep DEF StopSeen, SlotAccounting
  <2>2. CASE DeadlineFires(e)
    BY <2>2, HoldersStep DEF DeadlineFires, SlotAccounting
  <2>3. CASE HandlerJoined(e)
    BY <2>3, HoldersStep DEF HandlerJoined, SlotAccounting
  <2>4. CASE PublishOwn(e) BY <2>4, HoldersStep DEF PublishOwn, SlotAccounting
  <2>5. CASE PublishCancelled(e) BY <2>5, HoldersSame DEF PublishCancelled
  <2>6. CASE Drained(e) BY <2>6, HoldersStep DEF Drained, SlotAccounting
  <2>7. CASE Abandon(e) BY <2>7, HoldersStep DEF Abandon, SlotAccounting
  <2>8. CASE RemoveTracked(e)
    BY <2>8, HoldersStep DEF RemoveTracked, SlotAccounting
  <2>9. CASE ReleasePermit(e)
    BY <2>9, HoldersStep DEF ReleasePermit, ReturnPermit, SlotAccounting, Shape
  <2>10. CASE SignalPhysical(e)
    BY <2>10, HoldersStep DEF SignalPhysical, SlotAccounting
  <2> QED BY <1>2, <2>1, <2>2, <2>3, <2>4, <2>5, <2>6, <2>7, <2>8, <2>9, <2>10
          DEF Task
<1>3. ASSUME NEW e \in Exec, Pool(e) PROVE SlotAccounting'
  BY <1>3, HoldersSame DEF Pool, HandlerStart, HandlerRefuse, ScopeEnter,
                           ScopeDrop, CancelTyped
<1>4. ASSUME NEW e \in Exec, CancelStop(e) \/ CloseStop(e)
      PROVE  SlotAccounting'
  BY <1>4, HoldersSame DEF CancelStop, CloseStop
<1>5. ASSUME NEW i \in Ids, CancelLookup(i) PROVE SlotAccounting'
  BY <1>5, HoldersSame DEF CancelLookup
<1>6. CASE CloseSwap BY <1>6, HoldersSame DEF CloseSwap
<1>7. CASE CloseSnapshot BY <1>7, HoldersSame DEF CloseSnapshot
<1>8. CASE UNCHANGED vars BY <1>8, HoldersSame DEF vars
<1> QED BY <1>1, <1>2, <1>3, <1>4, <1>5, <1>6, <1>7, <1>8 DEF Next

-----------------------------------------------------------------------------
(* Tracking, answering and closing *)

\* Register is the only step that adds a tracked entry and RemoveTracked the
\* only one that removes it.
LEMMA TrackingStep ==
  ASSUME Shape, Tracking, [Next]_vars
  PROVE  Tracking'
<1> USE DEF Shape, Tracking, Goto, submission, Registered, Selecting
<1>1. ASSUME NEW e \in Exec, Submission(e) PROVE Tracking'
  BY <1>1 DEF Submission, SubmitCheck, AcquirePermit, Register,
              AdmissionRefused
<1>2. ASSUME NEW e \in Exec, Task(e) PROVE Tracking'
  <2>1. CASE RemoveTracked(e) BY <2>1 DEF RemoveTracked
  <2>2. CASE ~RemoveTracked(e)
    BY <1>2, <2>2 DEF Task, StopSeen, DeadlineFires, HandlerJoined,
       PublishOwn, PublishCancelled, Drained, Abandon, ReleasePermit,
       SignalPhysical
  <2> QED BY <2>1, <2>2
<1>3. ASSUME NEW e \in Exec, Pool(e) PROVE Tracking'
  BY <1>3 DEF Pool, HandlerStart, HandlerRefuse, ScopeEnter, ScopeDrop,
              CancelTyped
<1>4. ASSUME NEW e \in Exec, CancelStop(e) \/ CloseStop(e) PROVE Tracking'
  BY <1>4 DEF CancelStop, CloseStop
<1>5. ASSUME NEW i \in Ids, CancelLookup(i) PROVE Tracking'
  BY <1>5 DEF CancelLookup
<1>6. CASE CloseSwap BY <1>6 DEF CloseSwap
<1>7. CASE CloseSnapshot BY <1>7 DEF CloseSnapshot
<1>8. CASE UNCHANGED vars BY <1>8 DEF vars
<1> QED BY <1>1, <1>2, <1>3, <1>4, <1>5, <1>6, <1>7, <1>8 DEF Next

\* Only complete takes a sender, and no branch of run_execution passes the
\* select without one of the completions having taken it.
LEMMA AnsweringStep ==
  ASSUME Shape, Answering, [Next]_vars
  PROVE  Answering'
<1> USE DEF Shape, Answering, Goto, submission, AfterAnswer, Take,
            StopOutcomes
<1>1. ASSUME NEW e \in Exec, Submission(e) PROVE Answering'
  BY <1>1 DEF Submission, SubmitCheck, AcquirePermit, Register
<1>2. ASSUME NEW e \in Exec, Task(e) PROVE Answering'
  <2>1. CASE DeadlineFires(e) BY <2>1 DEF DeadlineFires
  <2>2. CASE HandlerJoined(e) BY <2>2 DEF HandlerJoined
  <2>3. CASE PublishOwn(e) \/ PublishCancelled(e)
    BY <2>3 DEF PublishOwn, PublishCancelled
  <2>4. CASE StopSeen(e) \/ Drained(e) \/ Abandon(e) \/ RemoveTracked(e)
             \/ ReleasePermit(e) \/ SignalPhysical(e)
    BY <2>4 DEF StopSeen, Drained, Abandon, RemoveTracked, ReleasePermit,
                SignalPhysical
  <2> QED BY <1>2, <2>1, <2>2, <2>3, <2>4 DEF Task
<1>3. ASSUME NEW e \in Exec, Pool(e) PROVE Answering'
  BY <1>3 DEF Pool, HandlerStart, HandlerRefuse, ScopeEnter, ScopeDrop,
              CancelTyped
<1>4. ASSUME NEW e \in Exec, CancelStop(e) \/ CloseStop(e) PROVE Answering'
  BY <1>4 DEF CancelStop, CloseStop, StopCancelled
<1>5. ASSUME NEW i \in Ids, CancelLookup(i) PROVE Answering'
  BY <1>5 DEF CancelLookup
<1>6. CASE CloseSwap BY <1>6 DEF CloseSwap
<1>7. CASE CloseSnapshot BY <1>7 DEF CloseSnapshot
<1>8. CASE UNCHANGED vars BY <1>8 DEF vars
<1> QED BY <1>1, <1>2, <1>3, <1>4, <1>5, <1>6, <1>7, <1>8 DEF Next

\* A copied execution only moves forward.
LEMMA CopiedStep ==
  ASSUME Shape, Tracking, Copied, [Next]_vars
  PROVE  Copied'
<1> USE DEF Shape, Copied, Goto, submission, Registered, Selecting
<1>1. ASSUME NEW e \in Exec, Submission(e) PROVE Copied'
  BY <1>1 DEF Submission, SubmitCheck, AcquirePermit, Register
<1>2. ASSUME NEW e \in Exec, Task(e) PROVE Copied'
  BY <1>2 DEF Task, StopSeen, DeadlineFires, HandlerJoined, PublishOwn,
     PublishCancelled, Drained, Abandon, RemoveTracked, ReleasePermit,
     SignalPhysical
<1>3. ASSUME NEW e \in Exec, Pool(e) PROVE Copied'
  BY <1>3 DEF Pool, HandlerStart, HandlerRefuse, ScopeEnter, ScopeDrop,
              CancelTyped
<1>4. ASSUME NEW e \in Exec, CancelStop(e) \/ CloseStop(e) PROVE Copied'
  BY <1>4 DEF CancelStop, CloseStop
<1>5. ASSUME NEW i \in Ids, CancelLookup(i) PROVE Copied'
  BY <1>5 DEF CancelLookup, Tracking
<1>6. CASE CloseSwap BY <1>6 DEF CloseSwap
<1>7. CASE CloseSnapshot BY <1>7 DEF CloseSnapshot, Tracking
<1>8. CASE UNCHANGED vars BY <1>8 DEF vars
<1> QED BY <1>1, <1>2, <1>3, <1>4, <1>5, <1>6, <1>7, <1>8 DEF Next

\* After the snapshot nothing is registered, and what was in it is stopped.
LEMMA ClosingStep ==
  ASSUME Shape, Closing, [Next]_vars
  PROVE  Closing'
<1> USE DEF Shape, Closing, CloseStopsEverything, Goto, submission, Take
<1>1. ASSUME NEW e \in Exec, Submission(e) PROVE Closing'
  BY <1>1 DEF Submission, SubmitCheck, AcquirePermit, Register,
              AdmissionRefused
<1>2. ASSUME NEW e \in Exec, Task(e) PROVE Closing'
  BY <1>2 DEF Task, StopSeen, DeadlineFires, HandlerJoined, PublishOwn,
     PublishCancelled, Drained, Abandon, RemoveTracked, ReleasePermit,
     SignalPhysical
<1>3. ASSUME NEW e \in Exec, Pool(e) PROVE Closing'
  BY <1>3 DEF Pool, HandlerStart, HandlerRefuse, ScopeEnter, ScopeDrop,
              CancelTyped
<1>4. ASSUME NEW e \in Exec, CancelStop(e) \/ CloseStop(e) PROVE Closing'
  BY <1>4 DEF CancelStop, CloseStop, StopCancelled
<1>5. ASSUME NEW i \in Ids, CancelLookup(i) PROVE Closing'
  BY <1>5 DEF CancelLookup
<1>6. CASE CloseSwap BY <1>6 DEF CloseSwap
<1>7. CASE CloseSnapshot BY <1>7 DEF CloseSnapshot
<1>8. CASE UNCHANGED vars BY <1>8 DEF vars
<1> QED BY <1>1, <1>2, <1>3, <1>4, <1>5, <1>6, <1>7, <1>8 DEF Next

-----------------------------------------------------------------------------
(* Theorems *)

\* IInv is an inductive invariant of the executor.
THEOREM Inductive == Spec => []IInv
<1>1. Init => IInv
  <2> SUFFICES ASSUME Init PROVE IInv OBVIOUS
  <2>1. Shape BY DEF Init, Shape, CallPoints, BeforePermit, Outcomes
  <2>2. SlotAccounting
    <3>1. Holders = {}
      BY DEF Init, Holders, HoldsPermit, Registered, Selecting
    <3> QED BY <3>1, FS_EmptySet DEF Init, SlotAccounting
  <2>3. Tracking BY DEF Init, Tracking, Registered, Selecting
  <2>4. Answering BY DEF Init, Answering, AfterAnswer
  <2>5. Closing BY DEF Init, Closing, CloseStopsEverything
  <2>6. Copied BY DEF Init, Copied
  <2> QED BY <2>1, <2>2, <2>3, <2>4, <2>5, <2>6 DEF IInv
<1>2. IInv /\ [Next]_vars => IInv'
  BY ShapeStep, SlotStep, TrackingStep, AnsweringStep,
     CopiedStep, ClosingStep DEF IInv
<1> QED BY <1>1, <1>2, PTL DEF Spec

\* Every variable keeps its type: in particular permits never exceeds
\* MaxActive, because the missing permits are counted by their holders.
THEOREM TypeCorrect == Spec => []TypeOK
<1>1. IInv => TypeOK
  <2> SUFFICES ASSUME IInv PROVE TypeOK OBVIOUS
  <2>1. Cardinality(Holders) \in Nat
    BY FS_Subset, FS_CardinalityType DEF Holders
  <2>2. permits \in 0..MaxActive
    BY <2>1 DEF IInv, Shape, SlotAccounting
  <2> QED BY <2>2 DEF IInv, Shape, TypeOK
<1> QED BY <1>1, Inductive, PTL

\* active_count is exact for every number of calls and slots.
THEOREM SlotsExact == Spec => []SlotAccounting
<1>1. IInv => SlotAccounting BY DEF IInv
<1> QED BY <1>1, Inductive, PTL

\* cancel(id) and remove_tracked are unambiguous: two live executions never
\* share a request id.
THEOREM IdsUnambiguous == Spec => []OneLivePerId
<1>1. IInv => OneLivePerId BY DEF IInv, Tracking, OneLivePerId
<1> QED BY <1>1, Inductive, PTL

\* No slot is released before the caller's answer has been decided.
THEOREM AnswerFirst == Spec => []AnsweredBeforeReleased
<1>1. IInv => AnsweredBeforeReleased
  BY DEF IInv, Answering, AnsweredBeforeReleased
<1> QED BY <1>1, Inductive, PTL

\* close leaves no execution unstopped, whatever submits race with it.
THEOREM CloseIsComplete == Spec => []CloseStopsEverything
<1>1. IInv => CloseStopsEverything BY DEF IInv, Closing
<1> QED BY <1>1, Inductive, PTL

\* A decided answer never changes.
THEOREM AnswersFinal == Spec => AnswerIsFinal
<1>1. ASSUME IInv, [Next]_vars, NEW e \in Exec, outcome[e] # "none"
      PROVE  outcome'[e] = outcome[e]
  <2>1. sender[e] # "held" BY <1>1 DEF IInv, Answering
  <2> USE <1>1, <2>1 DEF IInv, Shape, Take, submission
  <2>2. ASSUME NEW f \in Exec, Submission(f) \/ Pool(f)
        PROVE  outcome'[e] = outcome[e]
    BY <2>2 DEF Submission, SubmitCheck, AcquirePermit, Register, Pool,
       HandlerStart, HandlerRefuse, ScopeEnter, ScopeDrop, CancelTyped
  <2>3. ASSUME NEW f \in Exec, Task(f) PROVE outcome'[e] = outcome[e]
    BY <2>3 DEF Task, StopSeen, DeadlineFires, HandlerJoined, PublishOwn,
       PublishCancelled, Drained, Abandon, RemoveTracked, ReleasePermit,
       SignalPhysical
  <2>4. ASSUME NEW f \in Exec, CancelStop(f) \/ CloseStop(f)
        PROVE  outcome'[e] = outcome[e]
    BY <2>4 DEF CancelStop, CloseStop, StopCancelled
  <2>5. CASE (\E i \in Ids : CancelLookup(i)) \/ CloseSwap \/ CloseSnapshot
             \/ UNCHANGED vars
    BY <2>5 DEF CancelLookup, CloseSwap, CloseSnapshot, vars
  <2> QED BY <2>2, <2>3, <2>4, <2>5 DEF Next
<1>2. IInv /\ [Next]_vars =>
        [\A e \in Exec : outcome[e] # "none" => outcome'[e] = outcome[e]]_vars
  BY <1>1
<1> QED BY <1>2, Inductive, PTL DEF Spec, AnswerIsFinal

-----------------------------------------------------------------------------
(* Refinement *)

\* The points of submit and run_execution, as one flat set.
USE DEF CallPoints, BeforePermit, HoldsPermit, Registered, Selecting

\* A step that keeps closed, pc and outcome is invisible to clients.
LEMMA Invisible ==
  ASSUME UNCHANGED <<closed, pc, outcome>>
  PROVE  UNCHANGED Lifecycle!lifecycleVars
BY DEF Lifecycle!lifecycleVars, PhaseOf

\* A move between two points of the same phase is invisible to clients.
LEMMA SamePhase ==
  ASSUME Shape, NEW e \in Exec, NEW p \in CallPoints, Goto(e, p),
         UNCHANGED <<closed, outcome>>,
         \/ pc[e] \in Registered /\ p \in Registered
         \/ pc[e] \in {"idle", "checked", "permitted"}
            /\ p \in {"idle", "checked", "permitted"}
         \/ pc[e] \in {"releasing", "signalling"}
            /\ p \in {"releasing", "signalling"}
  PROVE  UNCHANGED Lifecycle!lifecycleVars
<1>1. \A f \in Exec : PhaseOf(f)' = PhaseOf(f)
  BY DEF Shape, Goto, PhaseOf
<1>2. [f \in Exec |-> PhaseOf(f)]' = [f \in Exec |-> PhaseOf(f)]
  BY <1>1
<1> QED BY <1>2 DEF Lifecycle!lifecycleVars

\* A move of one call is a change of one element of the abstract phase.
LEMMA PhaseMoves ==
  ASSUME Shape, NEW e \in Exec, NEW p \in CallPoints, Goto(e, p)
  PROVE  [f \in Exec |-> PhaseOf(f)]' =
           [[f \in Exec |-> PhaseOf(f)] EXCEPT ![e] = PhaseOf(e)']
BY ZenonT(60) DEF Shape, Goto, PhaseOf

\* The executor implements the lifecycle that the MCP session and the job
\* registry rely on, for every number of calls, ids and slots.
THEOREM Refinement == Spec => ImplementsLifecycle
<1>1. Init => Lifecycle!LifecycleInit
  BY DEF Init, Lifecycle!LifecycleInit, PhaseOf
<1>2. ASSUME IInv, [Next]_vars
      PROVE  [Lifecycle!LifecycleNext]_(Lifecycle!lifecycleVars)
  <2> DEFINE Good == [Lifecycle!LifecycleNext]_(Lifecycle!lifecycleVars)
  <2> SUFFICES Good OBVIOUS
  <2>0. Shape BY <1>2 DEF IInv
  <2> USE <2>0 DEF submission
  <2> HIDE DEF Good
  <2>1. ASSUME UNCHANGED Lifecycle!lifecycleVars PROVE Good
    BY <2>1 DEF Good
  <2>2. ASSUME NEW e \in Exec, pc[e] \in {"idle", "checked", "permitted"},
               Goto(e, "rejected"), UNCHANGED <<closed, outcome>>
        PROVE  Good
    <3>1. PhaseOf(e) = "new" /\ PhaseOf(e)' = "refused"
      BY <2>2 DEF Shape, Goto, PhaseOf
    <3>2. Lifecycle!Refuse(e)
      BY <2>2, <3>1, PhaseMoves DEF Lifecycle!Refuse
    <3> QED BY <3>2 DEF Good, Lifecycle!LifecycleNext
  <2>3. ASSUME NEW e \in Exec, pc[e] \in Registered,
               outcome[e] = "none", Goto(e, pc[e]) \/ Goto(e, "expiring")
                                    \/ Goto(e, "finishing"),
               NEW a \in Outcomes \ {"none"},
               outcome' = [outcome EXCEPT ![e] = a], UNCHANGED closed
        PROVE  Good
    <3>1. [f \in Exec |-> PhaseOf(f)]' = [f \in Exec |-> PhaseOf(f)]
      <4>1. \A f \in Exec : PhaseOf(f)' = PhaseOf(f)
        BY <2>3 DEF Shape, Goto, PhaseOf
      <4> QED BY <4>1
    <3>2. PhaseOf(e) = "live" BY <2>3 DEF PhaseOf
    <3>3. Lifecycle!Decide(e)
      BY <2>3, <3>1, <3>2
      DEF Lifecycle!Decide, Lifecycle!Answers, Outcomes, StopOutcomes
    <3> QED BY <3>3 DEF Good, Lifecycle!LifecycleNext, Lifecycle!Advance
  <2>4. ASSUME NEW e \in Exec, Submission(e) PROVE Good
    <3>1. CASE SubmitCheck(e)
      BY <3>1, <2>1, <2>2, SamePhase DEF SubmitCheck
    <3>2. CASE AcquirePermit(e)
      BY <3>2, <2>1, <2>2, SamePhase DEF AcquirePermit
    <3>3. CASE Register(e) /\ AdmissionRefused(e)
      BY <3>3, <2>2 DEF Register
    <3>4. CASE Register(e) /\ ~AdmissionRefused(e)
      <4>1. /\ pc[e] = "permitted" /\ ~closed /\ tracked[IdOf[e]] = NoExec
            /\ Goto(e, "running") /\ UNCHANGED <<closed, outcome>>
        BY <3>4 DEF Register, AdmissionRefused
      <4>2. PhaseOf(e) = "new" /\ PhaseOf(e)' = "live"
        BY <4>1 DEF Shape, Goto, PhaseOf
      <4>3. Lifecycle!Live = {f \in Exec : pc[f] \in Registered}
        BY DEF Lifecycle!Live, Shape, PhaseOf
      <4>4. \A f \in Lifecycle!Live : IdOf[f] # IdOf[e]
        BY <1>2, <4>1, <4>3 DEF IInv, Tracking
      <4>5. Cardinality(Lifecycle!Live) < MaxActive
        <5>1. Lifecycle!Live \subseteq Holders \ {e} /\ e \in Holders
          BY <4>1, <4>3 DEF Holders
        <5>2. IsFiniteSet(Holders) BY FS_Subset DEF Holders
        <5>3. Cardinality(Holders \ {e}) = Cardinality(Holders) - 1
              /\ IsFiniteSet(Holders \ {e})
          BY <5>1, <5>2, FS_RemoveElement
        <5>4. Cardinality(Lifecycle!Live) <= Cardinality(Holders \ {e})
              /\ IsFiniteSet(Lifecycle!Live)
          BY <5>1, <5>3, FS_Subset
        <5>5. Cardinality(Holders) \in Nat /\ Cardinality(Lifecycle!Live) \in Nat
          BY <5>2, <5>4, FS_CardinalityType
        <5> QED BY <1>2, <5>3, <5>4, <5>5 DEF IInv, Shape, SlotAccounting
      <4>6. Lifecycle!Cardinality(Lifecycle!Live) = Cardinality(Lifecycle!Live)
        BY DEF Cardinality, Lifecycle!Cardinality
      <4>7. Lifecycle!Accept(e)
        BY <4>1, <4>2, <4>4, <4>5, <4>6, PhaseMoves DEF Lifecycle!Accept
      <4> QED BY <4>7 DEF Good, Lifecycle!LifecycleNext
    <3> QED BY <2>4, <3>1, <3>2, <3>3, <3>4 DEF Submission
  <2>5. ASSUME NEW e \in Exec, Task(e) PROVE Good
    <3>1. CASE StopSeen(e) BY <3>1, <2>1, SamePhase DEF StopSeen
    <3>2. CASE DeadlineFires(e)
      <4>1. CASE sender[e] = "held"
        <5>1. outcome[e] = "none" BY <1>2, <4>1 DEF IInv, Answering
        <5> QED BY <3>2, <4>1, <5>1, <2>3
            DEF DeadlineFires, Take, Outcomes, StopOutcomes
      <4>2. CASE sender[e] # "held"
        BY <3>2, <4>2, <2>1, SamePhase DEF DeadlineFires
      <4> QED BY <4>1, <4>2
    <3>3. CASE HandlerJoined(e)
      <4>1. CASE sender[e] = "held"
        <5>1. outcome[e] = "none" BY <1>2, <4>1 DEF IInv, Answering
        <5> QED BY <3>3, <4>1, <5>1, <2>3
            DEF HandlerJoined, Take, Outcomes, StopOutcomes
      <4>2. CASE sender[e] # "held"
        BY <3>3, <4>2, <2>1, SamePhase DEF HandlerJoined
      <4> QED BY <4>1, <4>2
    <3>4. CASE PublishOwn(e) BY <3>4, <2>1, SamePhase DEF PublishOwn
    <3>5. CASE PublishCancelled(e) BY <3>5, <2>1, Invisible DEF PublishCancelled
    <3>6. CASE Drained(e) BY <3>6, <2>1, SamePhase DEF Drained
    <3>7. CASE Abandon(e) BY <3>7, <2>1, SamePhase DEF Abandon
    <3>8. CASE RemoveTracked(e)
      <4>1. PhaseOf(e) = "live" /\ PhaseOf(e)' = "released"
        BY <3>8 DEF RemoveTracked, Shape, Goto, PhaseOf
      <4>2. outcome[e] # "none"
        BY <1>2, <3>8 DEF IInv, Answering, AfterAnswer, RemoveTracked
      <4>3. Lifecycle!Release(e)
        BY <3>8, <4>1, <4>2, PhaseMoves DEF RemoveTracked, Lifecycle!Release
      <4> QED BY <4>3 DEF Good, Lifecycle!LifecycleNext, Lifecycle!Advance
    <3>9. CASE ReleasePermit(e) BY <3>9, <2>1, SamePhase DEF ReleasePermit
    <3>10. CASE SignalPhysical(e)
      <4>1. PhaseOf(e) = "released" /\ PhaseOf(e)' = "signalled"
        BY <3>10 DEF SignalPhysical, Shape, Goto, PhaseOf
      <4>2. Lifecycle!Signal(e)
        BY <3>10, <4>1, PhaseMoves DEF SignalPhysical, Lifecycle!Signal
      <4> QED BY <4>2 DEF Good, Lifecycle!LifecycleNext, Lifecycle!Advance
    <3> QED BY <2>5, <3>1, <3>2, <3>3, <3>4, <3>5, <3>6, <3>7, <3>8, <3>9,
               <3>10 DEF Task
  <2>6. ASSUME NEW e \in Exec, Pool(e) PROVE Good
    BY <2>6, <2>1, Invisible DEF Pool, HandlerStart, HandlerRefuse,
       ScopeEnter, ScopeDrop, CancelTyped
  <2>7. ASSUME NEW e \in Exec, CancelStop(e) \/ CloseStop(e) PROVE Good
    <3>1. CASE sender[e] = "held"
      <4>1. outcome[e] = "none" BY <1>2, <3>1 DEF IInv, Answering
      <4>2. pc[e] \in Registered /\ pc[e] \in CallPoints
        BY <1>2, <2>7, <3>1
        DEF IInv, Answering, AfterAnswer, Copied, CancelStop, CloseStop
      <4>3. Goto(e, pc[e]) /\ UNCHANGED closed
        BY <2>7 DEF CancelStop, CloseStop, Shape, Goto
      <4>4. outcome' = [outcome EXCEPT ![e] = "cancelled"]
        BY <2>7, <3>1 DEF CancelStop, CloseStop, StopCancelled, Take
      <4> QED BY <4>1, <4>2, <4>3, <4>4, <2>3 DEF Outcomes, StopOutcomes
    <3>2. CASE sender[e] # "held"
      BY <2>7, <3>2, <2>1, Invisible DEF CancelStop, CloseStop, StopCancelled
    <3> QED BY <3>1, <3>2
  <2>8. CASE CloseSwap
    <3>1. UNCHANGED [f \in Exec |-> PhaseOf(f)]
      BY <2>8 DEF CloseSwap, PhaseOf
    <3>2. Lifecycle!StopAdmitting
      BY <2>8, <3>1 DEF CloseSwap, Lifecycle!StopAdmitting
    <3> QED BY <3>2 DEF Good, Lifecycle!LifecycleNext
  <2>9. CASE (\E i \in Ids : CancelLookup(i)) \/ CloseSnapshot
             \/ UNCHANGED vars
    BY <2>9, <2>1, Invisible DEF CancelLookup, CloseSnapshot, vars
  <2> QED BY <1>2, <2>4, <2>5, <2>6, <2>7, <2>8, <2>9 DEF Next
<1> QED BY <1>1, <1>2, Inductive, PTL DEF Spec, ImplementsLifecycle,
        Lifecycle!LifecycleSpec

-----------------------------------------------------------------------------
(* Cancellation of the right handler.  The registry a plugin polls is keyed  *)
(* by the request id alone, so this needs callers that never reuse an id.    *)

\* No two calls of submit carry the same request id.
FreshIds == \A e, f \in Exec : IdOf[e] = IdOf[f] => e = f

\* A cancel_typed is spawned, and an id recorded as cancelled, only for an
\* execution whose answer already says cancelled or timed out.
Requested ==
  \A e \in Exec :
    pc[e] = "expiring" \/ e \in pendingCancel \/ IdOf[e] \in cancelledIds
      => outcome[e] \in StopOutcomes

\* The answer is decided before the plugin is told, and is not taken back.
LEMMA RequestedStep ==
  ASSUME FreshIds, Shape, Answering, Requested, [Next]_vars
  PROVE  Requested'
<1> USE DEF Shape, Requested, Goto, submission, Take, StopOutcomes
<1>1. ASSUME NEW e \in Exec, Submission(e) PROVE Requested'
  BY <1>1 DEF Submission, SubmitCheck, AcquirePermit, Register
<1>2. ASSUME NEW e \in Exec, Task(e) PROVE Requested'
  <2>1. CASE DeadlineFires(e) BY <2>1 DEF DeadlineFires, Answering
  <2>2. CASE HandlerJoined(e) BY <2>2 DEF HandlerJoined, Answering
  <2>3. CASE PublishOwn(e) BY <2>3 DEF PublishOwn
  <2>4. CASE PublishCancelled(e) BY <2>4 DEF PublishCancelled
  <2>5. CASE StopSeen(e) \/ Drained(e) \/ Abandon(e) \/ RemoveTracked(e)
             \/ ReleasePermit(e) \/ SignalPhysical(e)
    BY <2>5 DEF StopSeen, Drained, Abandon, RemoveTracked, ReleasePermit,
                SignalPhysical
  <2> QED BY <1>2, <2>1, <2>2, <2>3, <2>4, <2>5 DEF Task
<1>3. ASSUME NEW e \in Exec, Pool(e) PROVE Requested'
  <2>1. CASE CancelTyped(e) BY <2>1 DEF CancelTyped, FreshIds
  <2>2. CASE ScopeDrop(e) BY <2>2 DEF ScopeDrop
  <2>3. CASE HandlerStart(e) \/ HandlerRefuse(e) \/ ScopeEnter(e)
    BY <2>3 DEF HandlerStart, HandlerRefuse, ScopeEnter
  <2> QED BY <1>3, <2>1, <2>2, <2>3 DEF Pool
<1>4. ASSUME NEW e \in Exec, CancelStop(e) \/ CloseStop(e) PROVE Requested'
  BY <1>4 DEF CancelStop, CloseStop, StopCancelled, Answering
<1>5. ASSUME NEW i \in Ids, CancelLookup(i) PROVE Requested'
  BY <1>5 DEF CancelLookup
<1>6. CASE CloseSwap BY <1>6 DEF CloseSwap
<1>7. CASE CloseSnapshot BY <1>7 DEF CloseSnapshot
<1>8. CASE UNCHANGED vars BY <1>8 DEF vars
<1> QED BY <1>1, <1>2, <1>3, <1>4, <1>5, <1>6, <1>7, <1>8 DEF Next

\* With request ids that are never reused, a handler that polls is_cancelled
\* is told to stop only if its own execution was cancelled or timed out: a
\* late cancel_typed of one call never reaches the handler of another.
THEOREM CancellationReachesItsOwn ==
  ASSUME FreshIds
  PROVE  Spec => []NoStrayCancellation
<1>1. Init => Requested BY DEF Init, Requested
<1>2. IInv /\ Requested /\ [Next]_vars => Requested'
  BY RequestedStep DEF IInv
<1>3. Requested => NoStrayCancellation
  BY DEF Requested, NoStrayCancellation
<1> QED BY <1>1, <1>2, <1>3, Inductive, PTL DEF Spec
=============================================================================
