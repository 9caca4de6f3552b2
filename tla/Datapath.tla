------------------------------ MODULE Datapath ------------------------------
(***************************************************************************)
(* Packets through the kernel programs (bpf/egress.bpf.c) and the events   *)
(* they leave, through the ring buffer, the reader (internal/egress) and   *)
(* the annotating sink (internal/enforce/sink.go).  The maps, the          *)
(* enforcement switch and the sink's engine change under all of this at    *)
(* any time: the Programmer, the DNS learner and the policy source do      *)
(* that, and modules of their own say how.                                 *)
(***************************************************************************)
EXTENDS AgentMaps

CONSTANTS
  Sockets,      \* what egress sees of a socket's packets: [version, proto, src,
                \* cgroup, addr, port], and what connect4 sees of its connect:
                \* [task, user_ip4, user_port]; an IPv6 socket has addr = NoAddr,
                \* which no IPv4 range holds
  Payloads,     \* what a packet carries: [looks, readable, domain, method, path]
  MapStates,    \* what the verdict maps may hold
  PodTable,     \* what ByCgroupID knows: cgroup -> PodInfo
  SkippedCidrs, SkippedSuffixes,   \* the configured filter
  DNSPort, RingSize,
  MaxPackets    \* how many packets there are (bound)

ASSUME DatapathAssumption ==
  /\ RingSize \in Nat \ {0} /\ MaxPackets \in Nat
  /\ \A m \in MapStates : \A k \in DOMAIN m : m[k] \in Actions

VARIABLES
  mode,        \* how the agent was started: [enforcing, dry]; never changes
  cfg,         \* enforce_cfg[0] as [enabled, dry]
  writing,     \* what is being written to it, or NoCfg
  inside,      \* the sockets whose hook has loaded enabled = 1 and runs on
  torn,        \* history: those of them that met the switch being thrown
  sock,        \* each socket: "new", "open" (connect succeeded) or "refused"
  ring,        \* the events ring buffer
  seen,        \* the reader's de-duplication set
  eng,         \* the policy of the sink's engine
  out,         \* the last event that was logged, and the one it came from
  begun,       \* the TCP sockets whose SYN the egress hook has seen
  packets,     \* how many packets it has seen
  blocked,     \* history: a hook that was not torn dropped or refused something
  denials,     \* history: how often a SYN or a connect was given Deny
  overrun,     \* history: those whose event found the ring buffer full
  skipped,     \* history: those whose event the filter took
  shown        \* history: those that were logged

cvars == <<cfg, writing>>
kvars == <<maps, cvars, inside, torn, sock, begun, packets, blocked, denials,
           overrun>>
uvars == <<seen, eng, out, skipped, shown>>
vars == <<mode, kvars, uvars, ring>>

Nothing == [kind |-> "none"]

Off == [enabled |-> 0, dry |-> 0]
NoCfg == [enabled |-> 2, dry |-> 2]

Init ==
  /\ mode \in [enforcing : BOOLEAN, dry : {0, 1}]
  /\ maps \in MapStates
  /\ cfg = Off
  /\ writing = NoCfg
  /\ inside = {} /\ torn = {}
  /\ sock = [s \in Sockets |-> "new"]
  /\ ring = <<>>
  /\ seen = {}
  /\ eng \in Policies
  /\ out = Nothing
  /\ begun = {} /\ packets = 0
  /\ blocked = FALSE
  /\ denials = 0 /\ overrun = 0 /\ skipped = 0 /\ shown = 0

-----------------------------------------------------------------------------
(* The kernel's side.                                                      *)

\* A hook that judges socket s is about to run: IPv4 only, and connect4 judges
\* TCP only.
Judged(s) == s.version = 4 /\ (sock[s] = "new" => s.proto = "tcp")

\* enforce_enabled loads `enabled`, and `dry_run` only after that (verdict_pass).
enforce_enabled(s) ==
  /\ sock[s] \in {"new", "open"} /\ packets < MaxPackets
  /\ Judged(s)
  /\ s \notin inside
  /\ cfg.enabled = 1
  /\ inside' = inside \cup {s}
  /\ torn' = IF writing = NoCfg THEN torn ELSE torn \cup {s}
  /\ UNCHANGED <<mode, maps, cvars, sock, begun, packets, blocked, denials, overrun,
                 uvars, ring>>

\* The hook has loaded `enabled`, or loads a 0 now, or does not look at it.
Loaded(s) == s \in inside \/ cfg.enabled = 0 \/ ~Judged(s)

\* The hook returns.
Leaves(s, pass) ==
  /\ inside' = inside \ {s}
  /\ torn' = torn \ {s}
  /\ blocked' = (blocked \/ (~pass /\ s \notin torn))

\* The verdict of the egress hook goes by the packet.
Verdict(s) ==
  IF s \in inside THEN verdict_for(maps, s.cgroup, s.addr, s.port) ELSE ActionAllow

\* Fault: `dry_run` is not looked at.
verdict_pass_wet(act) == act # ActionDeny

verdict_pass(act) == act = ActionDeny => cfg.dry = 1

EventOf(kind, s, p, act) ==
  [kind |-> kind, src |-> s.src, cgroup |-> s.cgroup, addr |-> s.addr,
   port |-> s.port, action |-> act, readable |-> p.readable, domain |-> p.domain,
   method |-> p.method, path |-> p.path]

NoPayload ==
  [looks |-> "none", readable |-> FALSE, domain |-> <<>>, method |-> "", path |-> <<>>]

\* The events of a packet: DNS for udp:53, CONNECT for a SYN, and TLS or HTTP
\* for a payload that looks like it.
EventsOf(s, syn, p) ==
  CASE s.proto = "udp" /\ s.port = DNSPort -> << EventOf("dns", s, p, ActionAllow) >>
    [] s.proto = "tcp" ->
         (IF syn THEN << EventOf("connect", s, NoPayload, Verdict(s)) >> ELSE <<>>)
         \o (IF p.looks \in {"tls", "http"}
             THEN << EventOf(p.looks, s, p, Verdict(s)) >> ELSE <<>>)
    [] OTHER -> <<>>

\* DNS is always let through, and so is what is neither TCP nor UDP.
PacketPasses(s) ==
  \/ s.proto = "udp" /\ s.port = DNSPort
  \/ s.proto \notin {"udp", "tcp"}
  \/ verdict_pass(Verdict(s))

IsDenial(e) == e.kind = "connect" /\ e.action = ActionDeny

Denials(es) == Cardinality({i \in DOMAIN es : IsDenial(es[i])})

\* submit_event, once for each event: what the ring has no room for is lost.
submit_event(es) ==
  LET room == RingSize - Len(ring)
      n == IF room < Len(es) THEN room ELSE Len(es)
  IN  /\ ring' = ring \o SubSeq(es, 1, n)
      /\ denials' = denials + Denials(es)
      /\ overrun' = overrun + Denials(SubSeq(es, n + 1, Len(es)))

\* A socket that connected sends a packet; the first of a TCP socket is its
\* SYN, which may be sent again.
egress(s, syn, p) ==
  /\ sock[s] = "open"
  /\ Loaded(s)
  /\ packets < MaxPackets
  /\ syn => s.proto = "tcp"
  /\ s.proto = "tcp" /\ s \notin begun => syn
  /\ submit_event(EventsOf(s, syn, p))
  /\ begun' = IF syn THEN begun \cup {s} ELSE begun
  /\ packets' = packets + 1
  /\ Leaves(s, PacketPasses(s))
  /\ UNCHANGED <<mode, maps, cvars, sock, uvars>>

\* That of connect4 goes by the task and by the destination it named.
ConnectVerdict(s) ==
  IF s \in inside THEN verdict_for(maps, s.task, s.user_ip4, s.user_port)
  ELSE ActionAllow

emit_connect_deny(s) ==
  EventOf("connect",
          [src |-> 0, cgroup |-> s.task, addr |-> s.user_ip4, port |-> s.user_port],
          NoPayload, ActionDeny)

connect4(s) ==
  LET deny == ConnectVerdict(s) = ActionDeny
      pass == verdict_pass(ConnectVerdict(s))
  IN  /\ sock[s] = "new"
      /\ Loaded(s)
      /\ sock' = [sock EXCEPT ![s] = IF pass THEN "open" ELSE "refused"]
      /\ submit_event(IF deny THEN << emit_connect_deny(s) >> ELSE <<>>)
      /\ Leaves(s, pass)
      /\ UNCHANGED <<mode, maps, cvars, begun, packets, uvars>>

\* The Programmer or the learner changes the maps.
ChangeMaps(m) ==
  /\ maps' = m
  /\ UNCHANGED <<mode, cvars, inside, torn, sock, begun, packets, blocked, denials,
                 overrun, uvars, ring>>

\* The Programmer throws the switch when it starts and when it stops, in enforce
\* mode only: the kernel copies the two bytes over those that the hooks read, in
\* either order.
Switch(byte) ==
  LET new == IF cfg.enabled = 0 THEN [enabled |-> 1, dry |-> mode.dry] ELSE Off
  IN  /\ mode.enforcing
      /\ writing = NoCfg
      /\ writing' = new
      /\ cfg' = [cfg EXCEPT ![byte] = new[byte]]
      /\ torn' = inside
      /\ UNCHANGED <<mode, maps, inside, sock, begun, packets, blocked, denials,
                     overrun, uvars, ring>>

Switched ==
  /\ writing # NoCfg
  /\ cfg' = writing
  /\ writing' = NoCfg
  /\ UNCHANGED <<mode, maps, inside, torn, sock, begun, packets, blocked, denials,
                 overrun, uvars, ring>>

-----------------------------------------------------------------------------
(* The reader's side.                                                      *)

ByCgroupID(cg) ==
  IF cg \in DOMAIN PodTable THEN PodTable[cg]
  ELSE [namespace |-> 0, name |-> 0, uid |-> 0, labels |-> NoLabels]

flowFromEvent(e) ==
  [pod |-> ByCgroupID(e.cgroup), dst |-> e.addr, port |-> e.port,
   domain |-> e.domain, method |-> e.method, path |-> e.path]

\* Fault: the engine decides in enforce mode, too.
AnnotatedByEngine(e) ==
  LET f == flowFromEvent(e)
  IN  IF e.kind = "dns" THEN [kind |-> "dns", action |-> "", rule |-> 0, of |-> e]
      ELSE [kind |-> e.kind, action |-> Evaluate(eng, f),
            rule |-> FirstMatch(eng, f), of |-> e]

\* Emit: without a kernel verdict the engine decides; with one, the engine
\* names the rule if it agrees.  DNS events pass as they are.
Annotated(e) ==
  LET action == IF mode.enforcing THEN e.action ELSE ""
      f == flowFromEvent(e)
      v == Evaluate(eng, f)
      i == FirstMatch(eng, f)
  IN  IF e.kind = "dns" THEN [kind |-> "dns", action |-> "", rule |-> 0, of |-> e]
      ELSE IF action = "" THEN [kind |-> e.kind, action |-> v, rule |-> i, of |-> e]
      ELSE [kind |-> e.kind, action |-> action,
            rule |-> IF v = action THEN i ELSE 0, of |-> e]

Skipped(e) ==
  \/ e.kind # "dns" /\ \E c \in SkippedCidrs : CidrContains(c, e.addr)
  \/ e.kind # "connect" /\ \E b \in SkippedSuffixes : DomainMatches(b, e.domain)

SeenKey(e) == <<e.src, e.addr, e.port>>

\* Fault: denied connects are de-duplicated like the others.
DeduplicatedAlways(e) == e.kind = "connect"

\* Allowed connects are logged once; denied ones always.
Deduplicated(e) == e.kind = "connect" /\ e.action # ActionDeny

\* What is left of an event: a payload that does not parse is given up first,
\* then the filter is asked, then (connects) the de-duplication.
Fate(e) ==
  CASE e.kind # "connect" /\ ~e.readable -> "unreadable"
    [] Skipped(e) -> "skipped"
    [] Deduplicated(e) /\ SeenKey(e) \in seen -> "known"
    [] OTHER -> "logged"

handleEvent ==
  /\ ring # <<>>
  /\ ring' = Tail(ring)
  /\ LET e == Head(ring)
         n == Denials(<<e>>)
     IN  /\ skipped' = IF Fate(e) = "skipped" THEN skipped + n ELSE skipped
         /\ IF Fate(e) = "logged"
            THEN /\ seen' = IF Deduplicated(e) THEN seen \cup {SeenKey(e)} ELSE seen
                 /\ out' = Annotated(e)
                 /\ shown' = shown + n
            ELSE UNCHANGED <<seen, out, shown>>
  /\ UNCHANGED <<mode, kvars, eng>>

SetEngine(p) ==
  /\ eng' = p
  /\ UNCHANGED <<mode, kvars, seen, out, skipped, shown, ring>>

Next ==
  \/ \E s \in Sockets : enforce_enabled(s) \/ connect4(s)
  \/ \E s \in Sockets, syn \in BOOLEAN, p \in Payloads : egress(s, syn, p)
  \/ \E m \in MapStates : ChangeMaps(m)
  \/ (\E byte \in {"enabled", "dry"} : Switch(byte)) \/ Switched
  \/ handleEvent
  \/ \E p \in Policies : SetEngine(p)

Spec == Init /\ [][Next]_vars

-----------------------------------------------------------------------------
\* Every Deny given to a connect or a SYN is accounted for: its event is on the
\* way, was logged, was filtered, or found the ring buffer full.  Neither the
\* drop (egress.bpf.c:407-408) nor the de-duplication (egress.go:233-234) hides
\* it.
DenialsAccounted == denials = overrun + Denials(ring) + shown + skipped

\* In enforce mode the logged action is the verdict the kernel gave, whatever
\* the engine has become while the event was waiting; a rule is named only if
\* it is some engine's rule for this flow, with this action (sink.go:76-88).
LoggedFaithfully ==
  out # Nothing /\ out.kind # "dns" =>
    /\ mode.enforcing => out.action = out.of.action
    /\ out.rule # 0 => \E p \in Policies :
         /\ FirstMatch(p, flowFromEvent(out.of)) = out.rule
         /\ p.rules[out.rule].action = out.action

\* In a dry run, and outside enforce mode, nothing is refused and nothing is
\* dropped, whatever the maps hold (egress.bpf.c:151-155).  The exception is a
\* packet or connect that is being judged while the Programmer throws the switch:
\* disable() writes {0, 0}, and a hook that has loaded `enabled` before that may
\* load `dry_run` after it, and blocks (egress.bpf.c:172-174, programmer.go:119).
HarmlessUnlessEnforcing == ~mode.enforcing \/ mode.dry = 1 => ~blocked
=============================================================================
