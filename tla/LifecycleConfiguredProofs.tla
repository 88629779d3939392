---------------------- MODULE LifecycleConfiguredProofs ----------------------
(***************************************************************************)
(* Proofs that a discovery is configured as its test asks, and that        *)
(* nothing of the test is left when it is disabled but what the code never *)
(* undoes (Leftover), for any tests and any number of failures.            *)
(*                                                                         *)
(* Account relates what is registered and remembered to the steps left of  *)
(* the call: what the test asks for is there and stays, or is still put    *)
(* in; what it does not ask for is neither, but for Stays, the             *)
(* peer-to-peer listening that an earlier test may have left; a disabled   *)
(* discovery still takes out whatever else is there.                       *)
(***************************************************************************)
EXTENDS LifecycleProofs

-----------------------------------------------------------------------------
(* What a test registers, and the steps that change it.                    *)

(* What a test registers, apart from the discovery itself.                 *)
Techs == {"poll", "listen", "p2pListen", "uiccListen", "eseListen"}
Marks == {"aid", "felica"} \cup Techs \cup LlcpEnds
Wants(p, x) ==
  \/ x = "aid" /\ HostCE(p)
  \/ x = "felica" /\ "hceF" \in p
  \/ x = "poll" /\ "poll" \in p
  \/ x = "listen" /\ Listens(p)
  \/ x = "p2pListen" /\ ListensP2p(p)
  \/ x = "uiccListen" /\ "uicc" \in p
  \/ x = "eseListen" /\ "ese" \in p
  \/ x = "isoDepListen" /\ "hceA" \in p
  \/ x \in LlcpEnds /\ "llcp" \in p
Emulates(p) == HostCE(p) \/ NfceeCE(p)
Mixed == \E p \in Params : HostCE(p) /\ NfceeCE(p)

(* What is not undone where a test listens in peer-to-peer mode without    *)
(* dwListenP2P.                                                            *)
Stays == {l \in {"p2pListen"} : \E p \in Params : ListensP2p(p) /\ "p2p" \notin p}

(* The functions that end at a request the stack is free to refuse, and    *)
(* the steps it may refuse although nothing failed.                        *)
CeDown == {"CeDeInit A", "CeDeInit F", "CeDeInit EE"}
Slack == CeDown \cup {"DiscoveryStop", "ResetDiscoveryConfig", "RoutingUpdate", "P2pRoutingConfigure", "HciRegister"}
Loose(s) ==
  \/ s.op = "off" /\ s.x \in {"felica", "ee", "hci", "aid", "disc"}
  \/ s.op = "on" /\ s.x = "hci"
  \/ s.op = "routeP2p"
  \/ s.op = "ee" /\ "RoutingUpdate" \in s.within

(* Which steps such a function has.                                        *)
Pinned(s) ==
  /\ s.op \in {"ee", "route", "routeP2p", "config"} => s.x = "-"
  /\ s.within \cap Slack # {} => \E f \in Slack : s.within = {f}
  /\ Loose(s) => s.within \cap Slack # {}
  /\ s.within \cap CeDown # {} =>
       \/ s.op = "off" /\ s.x \in {"felica", "ee", "hci", "aid"}
       \/ s.op = "set" /\ s.x \in {"protocols", "felicaHandle"}
  /\ "DiscoveryStop" \in s.within => s.op = "off" /\ s.x = "disc"
  /\ "RoutingUpdate" \in s.within => s.op = "ee"
  /\ "P2pRoutingConfigure" \in s.within => s.op = "routeP2p"
  /\ "HciRegister" \in s.within => s.op = "on" /\ s.x = "hci"
  /\ "ResetDiscoveryConfig" \in s.within => s.op = "off" /\ s.x \in Techs \cup {"aid"}
  /\ s.op = "off" /\ s.x = "aid" => s.within \cap (CeDown \cup {"ResetDiscoveryConfig"}) # {}
  /\ s.op = "off" /\ s.x = "disc" => "DiscoveryStop" \in s.within

(* What a call may ask for.                                                *)
Fits(s, name, p) ==
  /\ s.op = "on" =>
       \/ s.x \in Base \cup {"ee"} /\ name \in {"init", "enable", "disable"}
       \/ name = "enable" /\ s.x = "hci" /\ NfceeCE(p)
       \/ name \in {"enable", "restart"} /\ (s.x = "disc" \/ Wants(p, s.x))
  /\ s.op = "off" =>
       \/ name = "enable" /\ s.x \in {"up", "driver"}
       \/ name = "restart" /\ s.x \in {"disc"} \cup Techs
       \/ name = "restart" /\ s.x = "aid" /\ HostCE(p)
       \/ name \in {"enable", "restart"} /\ s.x = "isoDepListen" /\ "hceA" \notin p
       \/ name = "disable"
  /\ IsSet(s, "llcpEnabled") => s.to = FALSE \/ (name = "enable" /\ s.to = TRUE /\ "llcp" \in p)
  /\ name \in {"enable", "restart"} =>
       /\ s.op = "set" /\ s.x \in {"app", "prev", "disc"} => s.to = p
       /\ IsSet(s, "llcp") => s.to = TRUE
       /\ IsSet(s, "protocols") => s.to = {"ISO_DEP"}
       /\ IsSet(s, "felicaHandle") => s.to = TRUE
       /\ s.within \cap CeDown = {}
  /\ IsSet(s, "idle") => s.to = FALSE
  /\ IsSet(s, "disc") => name \in {"enable", "restart"}
  /\ s.op = "route" => name \in {"init", "enable", "disable"}

(* In which order a call asks for it.                                      *)
Follows(a, b) ==
  /\ a.op = "on" => b.op # "off" \/ b.x = "isoDepListen"
  /\ a.op \in {"on", "off"} /\ a.x \in {"poll", "listen", "p2pListen"} => ~(b.op = "off" /\ b.x = "disc")
  /\ a.op = "on" /\ a.x = "disc" => b.op \in {"set", "return"}
  /\ IsSet(a, "idle") => b.op = "return"
  /\ a.op = "on" /\ a.x = "aid" => ~(b.op = "on" /\ b.x = "felica")
  /\ IsSet(a, "llcpEnabled") /\ a.to = TRUE => ~IsSet(b, "llcpEnabled")
  /\ a.op = "mode" => ~IsSet(b, "llcpEnabled")
  /\ a.op = "routeP2p" => b.op # "route" /\ (b.op # "off" \/ b.x = "isoDepListen") /\ ~IsSet(b, "protocols")
  /\ a.op # "return"
  /\ a.op = "off" /\ a.x = "aid" /\ "ResetDiscoveryConfig" \in a.within => "ResetDiscoveryConfig" \notin b.within
Tidy(s) == \A i, j \in 1..Len(s) : i < j => Follows(s[i], s[j])

(* A step that needs the stack finds it up, and one that needs the NFCEE's *)
(* callback finds it registered.                                           *)
Uses(s, y) ==
  \/ y = "up" /\ AsksStack(s)
  \/ y = "ee" /\ s.op \in {"ee", "route"} /\ "RoutingUpdate" \notin s.within
Reached(s, y, e) ==
  \A j \in 1..Len(s) : Uses(s[j], y) =>
    \/ e /\ \A k \in 1..Len(s) : k < j => ~(s[k].op = "off" /\ s[k].x \in {"up", y})
    \/ \E k \in 1..Len(s) : k < j /\ s[k].op = "on" /\ s[k].x = y

-----------------------------------------------------------------------------
(* The phases of a call.                                                   *)
At(s, n) ==
  /\ n \in 1..13
  /\ s.op \in {"create", "delete", "config"} => n <= 10
  /\ s.op = "off" => /\ IF s.x = "isoDepListen" THEN n = 10 ELSE n <= 4
                     /\ s.x = "disc" => n = 1
                     /\ s.x \in {"poll", "listen", "p2pListen"} => n = 2
                     /\ s.x \in {"up", "driver"} => n = 4
  /\ "ResetDiscoveryConfig" \in s.within => n <= 3 /\ (s.x = "aid" => n = 3)
  /\ s.op \in {"on", "ee", "route"} => n >= 5
  /\ s.op = "on" => IF s.x = "disc" THEN n = 11 ELSE n <= 10 /\ (s.x = "aid" => n = 10) /\ (s.x = "felica" => n <= 7)
  /\ s.op = "ee" => n <= 10
  /\ s.op = "route" => n <= 8
  /\ s.op = "mode" => n = 8
  /\ s.op = "routeP2p" => n = 9
  /\ s.op = "set" =>
       IF s.x = "idle" THEN n = 12
       ELSE /\ n <= 10
            /\ s.x = "protocols" => n <= 8
            /\ s.x = "llcpEnabled" => IF s.to = TRUE THEN n = 6 ELSE n \in 4..5
  /\ s.op = "return" => n = 13
Singular == {3, 6, 11, 12, 13}

Span(K, l, h) == { s \in K : \E n \in l..h : At(s, n) }

LEMMA PhaseFollows ==
  ASSUME NEW a, NEW b \in AStep, NEW m, NEW n, At(a, m), At(b, n), m < n \/ (m = n /\ m \notin Singular)
  PROVE  Follows(a, b)
<1>1. m \in 1..13 /\ n \in 1..13 /\ m <= n /\ (m = n => m \notin Singular)
  BY DEF At
<1>2. a.op = "on" => b.op # "off" \/ b.x = "isoDepListen"
  BY <1>1 DEF At
<1>3. a.op \in {"on", "off"} /\ a.x \in {"poll", "listen", "p2pListen"} => ~(b.op = "off" /\ b.x = "disc")
  BY <1>1 DEF At
<1>4. a.op = "on" /\ a.x = "disc" => m = 11 /\ n >= 12
  BY <1>1 DEF At, Singular
<1>5. IsSet(a, "idle") => m = 12 /\ n >= 13
  BY <1>1 DEF At, Singular, IsSet
<1>6. a.op # "return"
  BY <1>1 DEF At, Singular
<1>7. a.op = "on" /\ a.x = "aid" => ~(b.op = "on" /\ b.x = "felica")
  BY <1>1 DEF At
<1>8. IsSet(a, "llcpEnabled") /\ a.to = TRUE => ~IsSet(b, "llcpEnabled")
  BY <1>1 DEF At, Singular, IsSet
<1>9. a.op = "mode" => ~IsSet(b, "llcpEnabled")
  BY <1>1 DEF At, IsSet
<1>10. a.op = "routeP2p" => b.op # "route" /\ (b.op # "off" \/ b.x = "isoDepListen") /\ ~IsSet(b, "protocols")
  BY <1>1 DEF At, IsSet
<1>11. a.op = "off" /\ a.x = "aid" /\ "ResetDiscoveryConfig" \in a.within => "ResetDiscoveryConfig" \notin b.within
  BY <1>1 DEF At, Singular
<1>12. b.op \in {"create", "delete", "on", "off", "route", "ee", "config", "set", "mode", "routeP2p", "return"}
  BY DEF AStep
<1>13. n >= 12 => b.op \in {"set", "return"}
  BY <1>1, <1>12 DEF At
<1>14. n >= 13 => b.op = "return"
  BY <1>1, <1>12 DEF At
<1> QED
  BY <1>1, <1>2, <1>3, <1>4, <1>5, <1>6, <1>7, <1>8, <1>9, <1>10, <1>11, <1>13, <1>14 DEF Follows
LEMMA TidyCat ==
  ASSUME NEW A, NEW B, NEW p \in Seq(A), NEW q \in Seq(B), Tidy(p), Tidy(q),
         \A a \in A : \A b \in B : Follows(a, b)
  PROVE  Tidy(p \o q)
<1>1. p \in Seq(A \cup B) /\ q \in Seq(A \cup B)
  BY SeqIn
<1>2. \A i \in 1..Len(p) : p[i] \in A
  OBVIOUS
<1>3. \A i \in 1..Len(q) : q[i] \in B
  OBVIOUS
<1>4. /\ Len(p) \in Nat /\ Len(q) \in Nat /\ Len(p \o q) = Len(p) + Len(q)
      /\ \A i \in 1..Len(p \o q) :
              \/ i \in 1..Len(p) /\ (p \o q)[i] = p[i]
              \/ i - Len(p) \in 1..Len(q) /\ (p \o q)[i] = q[i - Len(p)]
  BY <1>1, CatIs
<1> SUFFICES ASSUME NEW i \in 1..Len(p \o q), NEW j \in 1..Len(p \o q), i < j
             PROVE  Follows((p \o q)[i], (p \o q)[j])
  BY DEF Tidy
<1> DEFINE u == (p \o q)[i]
           v == (p \o q)[j]
           m == i - Len(p)
           n == j - Len(p)
<1>5. /\ (i \in 1..Len(p) /\ u = p[i]) \/ (m \in 1..Len(q) /\ u = q[m])
      /\ (j \in 1..Len(p) /\ v = p[j]) \/ (n \in 1..Len(q) /\ v = q[n])
      /\ m < n
      /\ ~(m \in 1..Len(q) /\ j \in 1..Len(p))
  BY <1>4
<1> HIDE DEF u, v, m, n
<1>6. Follows(u, v)
  BY <1>2, <1>3, <1>5 DEF Tidy
<1> QED
  BY <1>6 DEF u, v

LEMMA RestTidy ==
  ASSUME NEW S, NEW s \in Seq(S), NEW r \in Seq(S), NEW K, Rest(r, s, K), Tidy(s)
  PROVE  Tidy(r)
<1>1. PICK f \in [1..Len(r) -> 2..Len(s)] :
        /\ \A i, j \in 1..Len(r) : i < j => f[i] < f[j]
        /\ \A i \in 1..Len(r) : r[i] = s[f[i]]
  BY DEF Rest
<1>2. \A i \in 1..Len(r) : f[i] \in 1..Len(s)
  BY <1>1
<1> SUFFICES ASSUME NEW i \in 1..Len(r), NEW j \in 1..Len(r), i < j
             PROVE  Follows(r[i], r[j])
  BY DEF Tidy
<1>3. f[i] < f[j] /\ f[i] \in 1..Len(s) /\ f[j] \in 1..Len(s) /\ r[i] = s[f[i]] /\ r[j] = s[f[j]]
  BY <1>1, <1>2
<1> QED
  BY <1>3 DEF Tidy

LEMMA CatReached ==
  ASSUME NEW S, NEW p \in Seq(S), NEW q \in Seq(S), NEW y, NEW exists, Reached(p, y, exists),
         \/ Has(p, "on", y)
         \/ (~Has(p, "off", y) /\ ~Has(p, "off", "up")) /\ Reached(q, y, exists)
         \/ Reached(q, y, FALSE)
  PROVE  Reached(p \o q, y, exists)
<1>1. /\ \A i \in 1..Len(p) : (p \o q)[i] = p[i] /\ i \in 1..Len(p \o q)
      /\ \A i \in 1..Len(q) : (p \o q)[Len(p) + i] = q[i] /\ Len(p) + i \in 1..Len(p \o q)
      /\ \A i \in 1..Len(p \o q) :
              \/ i \in 1..Len(p) /\ (p \o q)[i] = p[i]
              \/ i - Len(p) \in 1..Len(q) /\ (p \o q)[i] = q[i - Len(p)]
      /\ Len(p) \in Nat /\ Len(q) \in Nat
  BY CatIs
<1> DEFINE pq == p \o q
<1> HIDE DEF pq
<1> SUFFICES ASSUME NEW j \in 1..Len(pq), Uses(pq[j], y)
             PROVE  \/ exists /\ \A k \in 1..Len(pq) : k < j => ~(pq[k].op = "off" /\ pq[k].x \in {"up", y})
                    \/ \E k \in 1..Len(pq) : k < j /\ pq[k].op = "on" /\ pq[k].x = y
  BY DEF Reached, pq
<1>2. /\ \A i \in 1..Len(p) : pq[i] = p[i] /\ i \in 1..Len(pq)
      /\ \A i \in 1..Len(q) : pq[Len(p) + i] = q[i] /\ Len(p) + i \in 1..Len(pq)
      /\ \A i \in 1..Len(pq) :
              \/ i \in 1..Len(p) /\ pq[i] = p[i]
              \/ i - Len(p) \in 1..Len(q) /\ pq[i] = q[i - Len(p)]
  BY <1>1 DEF pq
<1>3. CASE j \in 1..Len(p) /\ pq[j] = p[j]
  <2>1. \/ exists /\ \A k \in 1..Len(p) : k < j => ~(p[k].op = "off" /\ p[k].x \in {"up", y})
        \/ \E k \in 1..Len(p) : k < j /\ p[k].op = "on" /\ p[k].x = y
    BY <1>3 DEF Reached
  <2>2. \A k \in 1..Len(pq) : k < j => k \in 1..Len(p) /\ pq[k] = p[k]
    BY <1>1, <1>2, <1>3
  <2> QED
    BY <1>2, <2>1, <2>2
<1>4. ASSUME j - Len(p) \in 1..Len(q), pq[j] = q[j - Len(p)]
      PROVE  \/ exists /\ \A k \in 1..Len(pq) : k < j => ~(pq[k].op = "off" /\ pq[k].x \in {"up", y})
             \/ \E k \in 1..Len(pq) : k < j /\ pq[k].op = "on" /\ pq[k].x = y
  <2> DEFINE m == j - Len(p)
  <2>1. m \in 1..Len(q) /\ Uses(q[m], y) /\ j = Len(p) + m
    BY <1>1, <1>4
  <2> HIDE DEF m
  <2>2. CASE Has(p, "on", y)
    <3>1. PICK k \in 1..Len(p) : p[k].op = "on" /\ p[k].x = y
      BY <2>2 DEF Has
    <3>2. k < j
      BY <1>1, <2>1
    <3> QED
      BY <1>2, <3>1, <3>2
  <2>3. CASE (~Has(p, "off", y) /\ ~Has(p, "off", "up")) /\ Reached(q, y, exists)
    <3>1. \/ exists /\ \A k \in 1..Len(q) : k < m => ~(q[k].op = "off" /\ q[k].x \in {"up", y})
          \/ \E k \in 1..Len(q) : k < m /\ q[k].op = "on" /\ q[k].x = y
      BY <2>1, <2>3 DEF Reached
    <3>2. ASSUME exists, \A k \in 1..Len(q) : k < m => ~(q[k].op = "off" /\ q[k].x \in {"up", y}),
                 NEW k \in 1..Len(pq), k < j
          PROVE  ~(pq[k].op = "off" /\ pq[k].x \in {"up", y})
      <4>1. CASE k \in 1..Len(p) /\ pq[k] = p[k]
        BY <2>3, <4>1 DEF Has
      <4>2. CASE k - Len(p) \in 1..Len(q) /\ pq[k] = q[k - Len(p)]
        <5>1. k - Len(p) < m
          BY <1>1, <2>1, <3>2
        <5> QED
          BY <3>2, <4>2, <5>1
      <4> QED
        BY <1>2, <4>1, <4>2
    <3>3. ASSUME NEW k \in 1..Len(q), k < m, q[k].op = "on", q[k].x = y
          PROVE  \E h \in 1..Len(pq) : h < j /\ pq[h].op = "on" /\ pq[h].x = y
      <4>1. Len(p) + k \in 1..Len(pq) /\ pq[Len(p) + k] = q[k] /\ Len(p) + k < j
        BY <1>1, <1>2, <2>1, <3>3
      <4> QED
        BY <3>3, <4>1
    <3> QED
      BY <3>1, <3>2, <3>3
  <2>4. CASE Reached(q, y, FALSE)
    <3>1. PICK k \in 1..Len(q) : k < m /\ q[k].op = "on" /\ q[k].x = y
      BY <2>1, <2>4 DEF Reached
    <3>2. Len(p) + k \in 1..Len(pq) /\ pq[Len(p) + k] = q[k] /\ Len(p) + k < j
      BY <1>1, <1>2, <2>1, <3>1
    <3> QED
      BY <3>1, <3>2
  <2> QED
    BY <2>2, <2>3, <2>4
<1> QED
  BY <1>2, <1>3, <1>4

LEMMA RestReached ==
  ASSUME NEW S, NEW s \in Seq(S), s # <<>>, NEW r \in Seq(S), NEW K, Rest(r, s, K),
         NEW y, NEW exists, NEW now, Reached(s, y, exists),
         \A i \in 1..Len(s) : s[i].op = "on" /\ s[i].x = y => s[i] \in K,
         s[1].op = "on" /\ s[1].x = y =>
           now /\ \A i \in 1..Len(s) : ~(s[i].op = "off" /\ s[i].x \in {"up", y}),
         ~(s[1].op = "on" /\ s[1].x = y) /\ ~(s[1].op = "off" /\ s[1].x \in {"up", y}) => (exists => now)
  PROVE  Reached(r, y, now)
<1>1. PICK f \in [1..Len(r) -> 2..Len(s)] :
        /\ \A i, j \in 1..Len(r) : i < j => f[i] < f[j]
        /\ \A i \in 1..Len(r) : r[i] = s[f[i]]
        /\ \A j \in 2..Len(s) : s[j] \in K => \E i \in 1..Len(r) : f[i] = j
  BY DEF Rest
<1>2. \A i \in 1..Len(r) : f[i] \in 1..Len(s) /\ 1 < f[i]
  BY <1>1
<1>3. Len(s) \in Nat /\ 1 \in 1..Len(s)
  BY TailIs
<1> SUFFICES ASSUME NEW j \in 1..Len(r), Uses(r[j], y)
             PROVE  \/ now /\ \A k \in 1..Len(r) : k < j => ~(r[k].op = "off" /\ r[k].x \in {"up", y})
                    \/ \E k \in 1..Len(r) : k < j /\ r[k].op = "on" /\ r[k].x = y
  BY DEF Reached
<1>4. /\ f[j] \in 1..Len(s) /\ Uses(s[f[j]], y)
      /\ \/ exists /\ \A k \in 1..Len(s) : k < f[j] => ~(s[k].op = "off" /\ s[k].x \in {"up", y})
         \/ \E k \in 1..Len(s) : k < f[j] /\ s[k].op = "on" /\ s[k].x = y
  BY <1>1, <1>2 DEF Reached
<1>5. CASE exists /\ \A k \in 1..Len(s) : k < f[j] => ~(s[k].op = "off" /\ s[k].x \in {"up", y})
  <2>1. \A k \in 1..Len(r) : k < j => ~(r[k].op = "off" /\ r[k].x \in {"up", y})
    BY <1>1, <1>2, <1>5
  <2>2. ~(s[1].op = "off" /\ s[1].x \in {"up", y})
    BY <1>2, <1>3, <1>5
  <2>3. now
    BY <1>5, <2>2
  <2> QED
    BY <2>1, <2>3
<1>6. ASSUME NEW k \in 1..Len(s), k < f[j], s[k].op = "on", s[k].x = y
      PROVE  \/ now /\ \A h \in 1..Len(r) : h < j => ~(r[h].op = "off" /\ r[h].x \in {"up", y})
             \/ \E h \in 1..Len(r) : h < j /\ r[h].op = "on" /\ r[h].x = y
  <2>1. CASE k = 1
    <3>1. now /\ \A i \in 1..Len(s) : ~(s[i].op = "off" /\ s[i].x \in {"up", y})
      BY <1>6, <2>1
    <3> QED
      BY <1>1, <1>2, <3>1
  <2>2. CASE k # 1
    <3>1. k \in 2..Len(s)
      BY <2>2
    <3>2. PICK i \in 1..Len(r) : f[i] = k
      BY <1>1, <1>6, <3>1
    <3>3. i < j
      BY <1>1, <1>2, <1>6, <3>2
    <3> QED
      BY <1>1, <1>6, <3>2, <3>3
  <2> QED
    BY <2>1, <2>2
<1> QED
  BY <1>4, <1>5, <1>6

-----------------------------------------------------------------------------
Restores(s) == \A x \in {"up", "driver"}, b \in Base : Has(s, "off", x) => Has(s, "on", b)

(* Part of the steps of a call: those of K, in phases l to h, in order.    *)
(* What asks the stack finds it up if it was before, what needs the        *)
(* NFCEE's callback registers it first, and the stack is left up.          *)
Part(s, K, l, h) ==
  /\ s \in Seq(Span(K, l, h)) /\ Tidy(s)
  /\ Reached(s, "up", TRUE) /\ Reached(s, "ee", FALSE)
  /\ Restores(s)

LEMMA SpanWider ==
  ASSUME NEW K, NEW l \in Nat, NEW h \in Nat, NEW k \in Nat, NEW m \in Nat, k <= l, h <= m
  PROVE  Span(K, l, h) \subseteq Span(K, k, m) /\ Seq(Span(K, l, h)) \subseteq Seq(Span(K, k, m))
<1>1. l..h \subseteq k..m
  OBVIOUS
<1>2. Span(K, l, h) \subseteq Span(K, k, m)
  BY <1>1 DEF Span
<1> QED
  BY <1>2, SeqIn

LEMMA SpanFollows ==
  ASSUME NEW K, K \subseteq AStep, NEW l \in Nat, NEW m \in Nat, NEW n \in Nat, NEW h \in Nat,
         m < n \/ (m = n /\ m \notin Singular),
         NEW a \in Span(K, l, m), NEW b \in Span(K, n, h)
  PROVE  Follows(a, b)
<1>1. PICK i \in l..m : At(a, i)
  BY DEF Span
<1>2. PICK j \in n..h : At(b, j)
  BY DEF Span
<1>3. i < j \/ (i = j /\ i \notin Singular)
  BY <1>1, <1>2
<1>4. b \in AStep
  BY DEF Span
<1> QED
  BY <1>1, <1>2, <1>3, <1>4, PhaseFollows

LEMMA PartCat ==
  ASSUME NEW K, K \subseteq AStep, NEW l \in Nat, NEW m \in Nat, NEW n \in Nat, NEW h \in Nat,
         l <= n, m <= h, m < n \/ (m = n /\ m \notin Singular),
         NEW p, NEW q, Part(p, K, l, m), Part(q, K, n, h)
  PROVE  Part(p \o q, K, l, h)
<1>1. p \in Seq(Span(K, l, m)) /\ q \in Seq(Span(K, n, h)) /\ Tidy(p) /\ Tidy(q)
  BY DEF Part
<1>2. Tidy(p \o q)
  <2>1. \A a \in Span(K, l, m) : \A b \in Span(K, n, h) : Follows(a, b)
    BY SpanFollows
  <2> QED
    BY <1>1, <2>1, TidyCat
<1>3. p \in Seq(Span(K, l, h)) /\ q \in Seq(Span(K, l, h))
  BY <1>1, SpanWider
<1>4. p \o q \in Seq(Span(K, l, h))
  BY <1>3, Joined
<1>5. \A op, x : Has(p \o q, op, x) <=> Has(p, op, x) \/ Has(q, op, x)
  BY <1>3, CatHas
<1>6. Reached(p \o q, "up", TRUE) /\ Reached(p \o q, "ee", FALSE)
  <2>1. /\ Reached(p, "up", TRUE) /\ Reached(q, "up", TRUE) /\ Reached(p, "ee", FALSE) /\ Reached(q, "ee", FALSE)
        /\ Has(p, "on", "up") \/ ~Has(p, "off", "up")
    BY DEF Part, Restores, Base
  <2> QED
    BY <1>3, <2>1, CatReached
<1>7. Restores(p \o q)
  BY <1>5 DEF Part, Restores
<1> QED
  BY <1>2, <1>4, <1>6, <1>7 DEF Part

LEMMA PartWider ==
  ASSUME NEW K, NEW l \in Nat, NEW h \in Nat, NEW k \in Nat, NEW m \in Nat, k <= l, h <= m,
         NEW p, Part(p, K, l, h)
  PROVE  Part(p, K, k, m)
BY SpanWider DEF Part

LEMMA PartNone ==
  ASSUME NEW K, NEW l, NEW h
  PROVE  Part(<<>>, K, l, h)
<1>1. Len(<<>>) = 0
  OBVIOUS
<1> QED
  BY <1>1 DEF Part, Tidy, Reached, Has, Restores

LEMMA PartMaybe ==
  ASSUME NEW K, NEW l, NEW h, NEW c, NEW p, c => Part(p, K, l, h)
  PROVE  Part(If(c, p), K, l, h)
BY PartNone DEF If

(* Steps of one phase have no order.                                       *)
LEMMA PhaseTidy ==
  ASSUME NEW K, K \subseteq AStep, NEW n \in 1..13, NEW p \in Seq(Span(K, n, n)), n \notin Singular
  PROVE  Tidy(p)
<1>1. \A a, b \in Span(K, n, n) : Follows(a, b)
  BY SpanFollows
<1>2. \A i \in 1..Len(p) : p[i] \in Span(K, n, n)
  OBVIOUS
<1> QED
  BY <1>1, <1>2 DEF Tidy

LEMMA NoOffReached ==
  ASSUME NEW p, NEW y, ~Has(p, "off", "up"), ~Has(p, "off", y)
  PROVE  Reached(p, y, TRUE)
BY DEF Has, Reached

LEMMA PhaseReached ==
  ASSUME NEW K, NEW n \in 1..13, NEW p \in Seq(Span(K, n, n)), n # 4
  PROVE  ~Has(p, "off", "up") /\ ~Has(p, "off", "driver") /\ Reached(p, "up", TRUE)
<1>1. \A i \in 1..Len(p) : p[i] \in Span(K, n, n)
  OBVIOUS
<1>2. ~Has(p, "off", "up") /\ ~Has(p, "off", "driver")
  BY <1>1 DEF Has, Span, At
<1> QED
  BY <1>2, NoOffReached

LEMMA PartFree ==
  ASSUME NEW K, K \subseteq AStep, NEW n \in 1..13, n \notin Singular \cup {4}, NEW p \in Seq(Span(K, n, n)),
         \A i \in 1..Len(p) : ~Uses(p[i], "ee")
  PROVE  Part(p, K, n, n)
<1>1. Tidy(p)
  BY PhaseTidy
<1>2. ~Has(p, "off", "up") /\ ~Has(p, "off", "driver") /\ Reached(p, "up", TRUE)
  BY PhaseReached
<1>3. Reached(p, "ee", FALSE)
  BY DEF Reached
<1> QED
  BY <1>1, <1>2, <1>3 DEF Part, Restores

LEMMA PartOne ==
  ASSUME NEW K, NEW n \in 1..13, n # 4, NEW e \in K, At(e, n), ~Uses(e, "ee")
  PROVE  Part(<<e>>, K, n, n)
<1>1. e \in Span(K, n, n)
  BY DEF Span
<1>2. <<e>> \in Seq(Span(K, n, n)) /\ Len(<<e>>) = 1 /\ <<e>>[1] = e
  BY <1>1
<1>3. Tidy(<<e>>) /\ Reached(<<e>>, "ee", FALSE)
  BY <1>2 DEF Tidy, Reached
<1>4. ~Has(<<e>>, "off", "up") /\ ~Has(<<e>>, "off", "driver") /\ Reached(<<e>>, "up", TRUE)
  BY <1>2, PhaseReached
<1> QED
  BY <1>2, <1>3, <1>4 DEF Part, Restores

(* What follows the registration of the NFCEE's callback may need it.      *)
LEMMA PartWithEe ==
  ASSUME NEW K, K \subseteq AStep, NEW n \in 1..13, n \notin Singular \cup {4},
         NEW p \in Seq(Span(K, n, n)), Has(p, "on", "ee"), Reached(p, "ee", FALSE),
         NEW q \in Seq(Span(K, n, n))
  PROVE  Part(p \o q, K, n, n)
<1>1. p \o q \in Seq(Span(K, n, n))
  BY Joined
<1>2. Tidy(p \o q)
  BY <1>1, PhaseTidy
<1>3. ~Has(p \o q, "off", "up") /\ ~Has(p \o q, "off", "driver") /\ Reached(p \o q, "up", TRUE)
  BY <1>1, PhaseReached
<1>4. Reached(p \o q, "ee", FALSE)
  BY CatReached
<1> QED
  BY <1>1, <1>2, <1>3, <1>4 DEF Part, Restores

-----------------------------------------------------------------------------
(* Steps whose failure is ignored, one by one.                             *)
LEMMA StepIs ==
  ASSUME NEW op, NEW x, NEW to
  PROVE  /\ Step(op, x, to).op = op /\ Step(op, x, to).x = x /\ Step(op, x, to).to = to
         /\ Step(op, x, to).within = {}
BY DEF Step

LEMMA IgnoringOne ==
  ASSUME NEW f, NEW e \in AStep
  PROVE  Ignoring(f, <<e>>) = <<More(e, f)>>
<1>1. Len(<<e>>) = 1 /\ <<e>>[1] = e
  OBVIOUS
<1>2. Ignoring(f, <<e>>) = [i \in 1..1 |-> More(e, f)]
  BY <1>1 DEF Ignoring, More
<1> HIDE DEF More
<1>3. [i \in 1..1 |-> More(e, f)] = <<More(e, f)>>
  OBVIOUS
<1> QED
  BY <1>2, <1>3

LEMMA IgnoringCat ==
  ASSUME NEW f, NEW S, NEW p \in Seq(S), NEW q \in Seq(S)
  PROVE  Ignoring(f, p \o q) = Ignoring(f, p) \o Ignoring(f, q)
<1>1. /\ Len(p) \in Nat /\ Len(q) \in Nat /\ Len(p \o q) = Len(p) + Len(q)
      /\ \A i \in 1..Len(p) : (p \o q)[i] = p[i]
      /\ \A i \in 1..Len(p \o q) :
              \/ i \in 1..Len(p) /\ (p \o q)[i] = p[i]
              \/ i - Len(p) \in 1..Len(q) /\ (p \o q)[i] = q[i - Len(p)]
  BY CatIs
<1> DEFINE a == [i \in 1..Len(p) |-> More(p[i], f)]
           b == [i \in 1..Len(q) |-> More(q[i], f)]
           c == [i \in 1..Len(p \o q) |-> More((p \o q)[i], f)]
           T == {More(p[i], f) : i \in 1..Len(p)} \cup {More(q[i], f) : i \in 1..Len(q)}
<1>2. a \in [1..Len(p) -> T] /\ b \in [1..Len(q) -> T]
  OBVIOUS
<1> HIDE DEF T
<1>3. a \in Seq(T) /\ Len(a) = Len(p) /\ b \in Seq(T) /\ Len(b) = Len(q)
  <2> HIDE DEF a, b
  <2>1. ASSUME NEW n \in Nat, NEW g \in [1..n -> T] PROVE g \in Seq(T) /\ Len(g) = n
    BY LenProperties, SeqDef
  <2> QED
    BY <1>1, <1>2, <2>1
<1>4. /\ \A i \in 1..Len(p) : a[i] = More(p[i], f)
      /\ \A i \in 1..Len(q) : b[i] = More(q[i], f)
      /\ DOMAIN c = 1..Len(p \o q)
      /\ \A i \in 1..Len(p \o q) : c[i] = More((p \o q)[i], f)
      /\ c = [i \in 1..Len(p \o q) |-> c[i]]
  OBVIOUS
<1> HIDE DEF a, b, c
<1> DEFINE d == a \o b
<1>5. /\ Len(d) = Len(p) + Len(q)
      /\ \A i \in 1..Len(d) :
              \/ i \in 1..Len(a) /\ d[i] = a[i]
              \/ i - Len(a) \in 1..Len(b) /\ d[i] = b[i - Len(a)]
      /\ d \in Seq(T)
  <2>1. a \in Seq(T) /\ b \in Seq(T)
    BY <1>3
  <2>2. /\ Len(d) = Len(a) + Len(b)
        /\ \A i \in 1..Len(d) :
              \/ i \in 1..Len(a) /\ d[i] = a[i]
              \/ i - Len(a) \in 1..Len(b) /\ d[i] = b[i - Len(a)]
        /\ d \in Seq(T)
    BY <2>1, CatIs
  <2> QED
    BY <1>3, <2>2
<1>6. d = [i \in 1..Len(d) |-> d[i]]
  <2> HIDE DEF d
  <2> QED
    BY <1>5
<1> HIDE DEF d
<1>7. ASSUME NEW i \in 1..Len(d) PROVE c[i] = d[i]
  <2>1. i \in 1..Len(p \o q)
    BY <1>1, <1>5
  <2> HIDE DEF More
  <2>2. CASE i \in 1..Len(p) /\ (p \o q)[i] = p[i]
    <3>1. ~(i - Len(a) \in 1..Len(b))
      BY <1>1, <1>3, <2>2
    <3>2. d[i] = a[i]
      BY <1>5, <3>1
    <3> QED
      BY <1>4, <2>1, <2>2, <3>2
  <2>3. CASE i - Len(p) \in 1..Len(q) /\ (p \o q)[i] = q[i - Len(p)]
    <3>1. ~(i \in 1..Len(a))
      BY <1>1, <1>3, <2>3
    <3>2. d[i] = b[i - Len(p)]
      BY <1>3, <1>5, <3>1
    <3> QED
      BY <1>4, <2>1, <2>3, <3>2
  <2> QED
    BY <1>1, <2>1, <2>2, <2>3
<1>8. c = d
  <2>1. 1..Len(p \o q) = 1..Len(d)
    BY <1>1, <1>5
  <2>2. c = [i \in 1..Len(d) |-> c[i]]
    BY <1>4, <2>1
  <2> QED
    BY <1>6, <1>7, <2>2
<1>9. Ignoring(f, p) = a /\ Ignoring(f, q) = b /\ Ignoring(f, p \o q) = c
  BY DEF a, b, c, Ignoring, More
<1> QED
  BY <1>8, <1>9 DEF d

-----------------------------------------------------------------------------
(* What each part of a call comes to.                                      *)

(* The steps a call may have.                                              *)
Kind(name, p) == { s \in AStep : Pinned(s) /\ Fits(s, name, p) }

LEMMA KindIn == ASSUME NEW name, NEW p PROVE Kind(name, p) \subseteq AStep
BY DEF Kind

LEMMA PartSeq ==
  ASSUME NEW K, K \subseteq AStep, NEW l, NEW h, NEW p, Part(p, K, l, h)
  PROVE  p \in Seq(AStep)
<1>1. Span(K, l, h) \subseteq AStep
  BY DEF Span
<1> QED
  BY <1>1, SeqIn DEF Part

LEMMA HasJoin ==
  ASSUME NEW S, NEW p \in Seq(S), NEW q \in Seq(S)
  PROVE  /\ \A op, x : Has(p \o q, op, x) <=> Has(p, op, x) \/ Has(q, op, x)
         /\ \A f, v : HasSet(p \o q, f, v) <=> HasSet(p, f, v) \/ HasSet(q, f, v)
BY CatHas, CatHasSet

LEMMA HasOne ==
  ASSUME NEW e
  PROVE  /\ \A op, x : Has(<<e>>, op, x) <=> e.op = op /\ e.x = x
         /\ \A f, v : HasSet(<<e>>, f, v) <=> IsSet(e, f) /\ e.to = v
<1>1. Len(<<e>>) = 1 /\ <<e>>[1] = e
  OBVIOUS
<1> QED
  BY <1>1 DEF Has, HasSet

LEMMA HasNone == \A op, x : ~Has(<<>>, op, x) /\ ~HasSet(<<>>, op, x)
<1>1. Len(<<>>) = 0
  OBVIOUS
<1> QED
  BY <1>1 DEF Has, HasSet

LEMMA NoUse ==
  ASSUME NEW S, NEW p \in Seq(S), NEW y, \A e \in S : ~Uses(e, y)
  PROVE  Reached(p, y, FALSE)
<1>1. \A i \in 1..Len(p) : p[i] \in S
  OBVIOUS
<1> QED
  BY <1>1 DEF Reached

LEMMA NoUseOne ==
  ASSUME NEW e, NEW y, ~Uses(e, y), NEW g
  PROVE  Reached(<<e>>, y, g)
<1>1. Len(<<e>>) = 1 /\ <<e>>[1] = e
  OBVIOUS
<1> QED
  BY <1>1 DEF Reached

LEMMA IgnoringReached ==
  ASSUME NEW f, NEW p \in Seq(AStep), NEW y, NEW e, Reached(p, y, e)
  PROVE  Reached(Ignoring(f, p), y, e)
<1> DEFINE g == Ignoring(f, p)
           T == {More(t, f) : t \in AStep}
<1>1. \A t \in AStep : More(t, f) \in T
  OBVIOUS
<1> HIDE DEF T
<1>2. /\ Len(g) = Len(p)
      /\ \A i \in 1..Len(p) : g[i].op = p[i].op /\ g[i].x = p[i].x /\ g[i].within = p[i].within \cup {f}
  <2> DEFINE S == AStep
  <2>1. S \subseteq AStep /\ p \in Seq(S) /\ \A t \in S : More(t, f) \in T
    BY <1>1
  <2> HIDE DEF S
  <2>2. /\ g \in Seq(T) /\ Len(g) = Len(p)
        /\ \A i \in 1..Len(p) : /\ g[i].op = p[i].op /\ g[i].x = p[i].x /\ g[i].to = p[i].to
                               /\ g[i].within = p[i].within \cup {f}
    BY <2>1, IgnoringIs
  <2> QED
    BY <2>2
<1> HIDE DEF g
<1>3. \A i \in 1..Len(p) : Uses(g[i], y) => Uses(p[i], y)
  BY <1>2 DEF Uses, AsksStack, Waits
<1>4. Reached(g, y, e)
  BY <1>2, <1>3 DEF Reached
<1> QED
  BY <1>4 DEF g

-----------------------------------------------------------------------------
(* The middleware's initialisation and release.                            *)
Ups == { e \in AStep : /\ e.within = {}
                       /\ \/ e.op = "create"
                          \/ e.op = "on" /\ e.x \in Base \cup {"ee"}
                          \/ e.op \in {"ee", "route"} /\ e.x = "-"
                          \/ e.op = "set" /\ e.x \in {"handle", "init", "jni", "app", "prev"} }
UpsIn(f) == { e \in AStep : /\ e.within \subseteq {f}
                            /\ \/ e.op = "create"
                               \/ e.op = "on" /\ e.x \in Base \cup {"ee"}
                               \/ e.op \in {"ee", "route"} /\ e.x = "-"
                               \/ e.op = "set" /\ e.x \in {"handle", "init", "jni"} }

LEMMA UpsKind ==
  ASSUME NEW name \in {"init", "enable", "disable"}, NEW p, NEW f, f \notin Slack
  PROVE  UpsIn(f) \subseteq Span(Kind(name, p), 5, 5)
<1> SUFFICES ASSUME NEW e \in UpsIn(f) PROVE e \in Kind(name, p) /\ At(e, 5)
  BY DEF Span
<1>1. e \in AStep /\ e.within \cap Slack = {} /\ e.within \cap CeDown = {}
  BY DEF UpsIn, Slack
<1>2. Pinned(e)
  BY <1>1 DEF UpsIn, Pinned, Loose, Slack, CeDown, Base
<1>3. Fits(e, name, p)
  BY <1>1 DEF UpsIn, Fits, IsSet
<1>4. At(e, 5)
  BY <1>1 DEF UpsIn, At, Base, Slack
<1> QED
  BY <1>1, <1>2, <1>3, <1>4 DEF Kind

LEMMA UpsSteps ==
  /\ \A x \in OsalObjects : Step("create", x, "-") \in UpsIn("InitRouting") \cap Ups
  /\ \A x \in Base \cup {"ee"} : Step("on", x, "-") \in UpsIn("InitRouting") \cap Ups
  /\ Step("ee", "-", "-") \in Ups /\ Step("route", "-", {}) \in Ups
  /\ Step("set", "handle", TRUE) \in UpsIn("InitRouting")
  /\ \A e \in Ups : e.op # "set" => More(e, "InitRouting") \in UpsIn("InitRouting")
<1>1. \A x \in OsalObjects : Step("create", x, "-") \in AStep
  BY DEF Step, AStep
<1>2. \A x \in Base \cup {"ee"} : Step("on", x, "-") \in AStep
  BY DEF Step, AStep, Registrations
<1>3. Step("ee", "-", "-") \in AStep /\ Step("route", "-", {}) \in AStep /\ Step("set", "handle", TRUE) \in AStep
  BY DEF Step, AStep, Flags
<1>4. ASSUME NEW e \in Ups, e.op # "set" PROVE More(e, "InitRouting") \in UpsIn("InitRouting")
  <2>1. "InitRouting" \in Around /\ e \in AStep
    BY DEF Around, Minor, Ups
  <2>2. /\ More(e, "InitRouting").op = e.op
        /\ More(e, "InitRouting").x = e.x
        /\ More(e, "InitRouting").within = e.within \cup {"InitRouting"}
        /\ More(e, "InitRouting") \in AStep
    BY <2>1, WithinMore, WithinMoreIn
  <2> DEFINE m == More(e, "InitRouting")
  <2> HIDE DEF m
  <2>3. m.op = e.op /\ m.x = e.x /\ m.within = e.within \cup {"InitRouting"} /\ m \in AStep
    BY <2>2 DEF m
  <2>4. m \in UpsIn("InitRouting")
    BY <1>4, <2>3 DEF Ups, UpsIn
  <2> QED
    BY <2>4 DEF m
<1>5. ASSUME NEW op, NEW x, NEW to, Step(op, x, to) \in AStep, op # "set" \/ x = "handle",
             op \in {"create", "set"} \/ (op = "on" /\ x \in Base \cup {"ee"}) \/ (op \in {"ee", "route"} /\ x = "-")
      PROVE  Step(op, x, to) \in UpsIn("InitRouting") \cap Ups
  <2> DEFINE e == Step(op, x, to)
  <2>1. e.op = op /\ e.x = x /\ e.within = {} /\ e \in AStep
    BY <1>5, StepIs
  <2> HIDE DEF e
  <2>2. e \in UpsIn("InitRouting") \cap Ups
    BY <1>5, <2>1 DEF Ups, UpsIn
  <2> QED
    BY <2>2 DEF e
<1> QED
  BY <1>1, <1>2, <1>3, <1>4, <1>5

(* It registers what Base names, and needs nothing that was there before.  *)
LEMMA MwInitPart ==
  ASSUME NEW name \in {"init", "enable", "disable"}, NEW p
  PROVE  /\ Part(MwInit, Kind(name, p), 5, 5) /\ Reached(MwInit, "up", FALSE)
         /\ \A b \in Base \cup {"ee"} : Has(MwInit, "on", b)
<1> DEFINE S == UpsIn("InitRouting")
           a == On("driver") \o Create("mwq") \o Create("sem") \o Create("intg")
           b == a \o On("up")
           r == On("ee") \o EeRequest \o Route({})
           c == b \o Ignoring("InitRouting", r)
           d == c \o On("ndef")
           e == d \o Set("handle", TRUE)
           m == e \o On("p2p")
<1>1. MwInit = m
  BY DEF MwInit, ConfigureDriver, StackInit, InitRouting
<1>2. /\ On("driver") \in Seq(S) /\ Create("mwq") \in Seq(S) /\ Create("sem") \in Seq(S) /\ Create("intg") \in Seq(S)
      /\ On("up") \in Seq(S) /\ On("ndef") \in Seq(S) /\ On("p2p") \in Seq(S) /\ Set("handle", TRUE) \in Seq(S)
  <2>1. /\ Step("on", "driver", "-") \in S /\ Step("create", "mwq", "-") \in S /\ Step("create", "sem", "-") \in S
        /\ Step("create", "intg", "-") \in S /\ Step("on", "up", "-") \in S /\ Step("on", "ndef", "-") \in S
        /\ Step("on", "p2p", "-") \in S /\ Step("set", "handle", TRUE) \in S
    BY UpsSteps DEF Base, OsalObjects
  <2> HIDE DEF S
  <2>2. \A z \in S : <<z>> \in Seq(S)
    OBVIOUS
  <2> QED
    BY <2>1, <2>2 DEF On, Create, Set
<1>3. /\ \A x \in {"driver", "up", "ndef", "p2p", "ee"} : Has(On(x), "on", x)
      /\ ~Uses(Step("on", "up", "-"), "up") /\ ~Uses(Step("on", "driver", "-"), "up")
      /\ \A x \in {"mwq", "sem", "intg"} : ~Uses(Step("create", x, "-"), "up")
  BY HasOne, StepIs DEF On, Uses, AsksStack, Waits, Base
<1>4. r \in Seq({s \in Ups : s.op # "set"}) /\ r \in Seq(AStep) /\ Has(r, "on", "ee") /\ Reached(r, "ee", FALSE)
  <2> DEFINE U == {s \in Ups : s.op # "set"}
  <2>1. On("ee") \in Seq(U) /\ EeRequest \in Seq(U) /\ Route({}) \in Seq(U)
    BY UpsSteps, StepIs DEF On, EeRequest, Route
  <2>2. U \subseteq AStep
    BY DEF Ups
  <2>3. Reached(On("ee"), "ee", FALSE)
    <3>1. ~Uses(Step("on", "ee", "-"), "ee")
      BY StepIs DEF Uses
    <3> QED
      BY <3>1, NoUseOne DEF On
  <2>4. Has(On("ee"), "on", "ee")
    BY <1>3
  <2> DEFINE oe == On("ee")
             er == EeRequest
             ro == Route({})
  <2> HIDE DEF U, oe, er, ro
  <2>5. oe \o er \in Seq(U) /\ Reached(oe \o er, "ee", FALSE) /\ Has(oe \o er, "on", "ee")
    <3>1. oe \in Seq(U) /\ er \in Seq(U) /\ Reached(oe, "ee", FALSE) /\ Has(oe, "on", "ee")
      BY <2>1, <2>3, <2>4 DEF oe, er
    <3> QED
      BY <3>1, Joined, CatReached, HasJoin
  <2>6. oe \o er \o ro \in Seq(U) /\ Reached(oe \o er \o ro, "ee", FALSE) /\ Has(oe \o er \o ro, "on", "ee")
    <3>1. ro \in Seq(U)
      BY <2>1 DEF ro
    <3> QED
      BY <2>5, <3>1, Joined, CatReached, HasJoin
  <2>7. r = oe \o er \o ro
    BY DEF oe, er, ro
  <2> QED
    BY <2>2, <2>6, <2>7, SeqIn DEF U
<1> DEFINE i == Ignoring("InitRouting", r)
<1> HIDE DEF r
<1>5. i \in Seq(S) /\ Has(i, "on", "ee") /\ Reached(i, "ee", FALSE)
  <2> DEFINE U == {s \in Ups : s.op # "set"}
  <2>1. U \subseteq AStep /\ r \in Seq(U) /\ \A s \in U : More(s, "InitRouting") \in S
    BY <1>4, UpsSteps DEF Ups
  <2> HIDE DEF U, S
  <2>2. i \in Seq(S)
    BY <2>1, IgnoringIs
  <2> QED
    BY <1>4, <2>2, IgnoringSame, IgnoringReached
<1> HIDE DEF S, i
<1>6. a \in Seq(S) /\ Reached(a, "up", FALSE) /\ Reached(a, "ee", FALSE)
  <2>1. /\ Reached(On("driver"), "up", FALSE) /\ Reached(Create("mwq"), "up", FALSE)
        /\ Reached(Create("sem"), "up", FALSE) /\ Reached(Create("intg"), "up", FALSE)
    BY <1>3, NoUseOne DEF On, Create
  <2>2. /\ Reached(On("driver"), "ee", FALSE) /\ Reached(Create("mwq"), "ee", FALSE)
        /\ Reached(Create("sem"), "ee", FALSE) /\ Reached(Create("intg"), "ee", FALSE)
    <3>1. \A x, to : ~Uses(Step("on", x, to), "ee") /\ ~Uses(Step("create", x, to), "ee")
      BY StepIs DEF Uses
    <3> QED
      BY <3>1, NoUseOne DEF On, Create
  <2>3. ASSUME NEW s \in Seq(S), NEW t \in Seq(S), NEW y, Reached(s, y, FALSE), Reached(t, y, FALSE)
        PROVE  s \o t \in Seq(S) /\ Reached(s \o t, y, FALSE)
    BY <2>3, Joined, CatReached
  <2> DEFINE k == On("driver")
             l == Create("mwq")
             n == Create("sem")
             o == Create("intg")
  <2>4. /\ k \in Seq(S) /\ l \in Seq(S) /\ n \in Seq(S) /\ o \in Seq(S)
        /\ \A y \in {"up", "ee"} : Reached(k, y, FALSE) /\ Reached(l, y, FALSE) /\ Reached(n, y, FALSE) /\ Reached(o, y, FALSE)
    BY <1>2, <2>1, <2>2
  <2> HIDE DEF k, l, n, o
  <2>5. k \o l \in Seq(S) /\ \A y \in {"up", "ee"} : Reached(k \o l, y, FALSE)
    BY <2>3, <2>4
  <2>6. k \o l \o n \in Seq(S) /\ \A y \in {"up", "ee"} : Reached(k \o l \o n, y, FALSE)
    BY <2>3, <2>4, <2>5
  <2>7. k \o l \o n \o o \in Seq(S) /\ \A y \in {"up", "ee"} : Reached(k \o l \o n \o o, y, FALSE)
    BY <2>3, <2>4, <2>6
  <2>8. a = k \o l \o n \o o
    BY DEF k, l, n, o
  <2> QED
    BY <2>7, <2>8
<1> HIDE DEF a
<1>7. b \in Seq(S) /\ Reached(b, "up", FALSE) /\ Reached(b, "ee", FALSE) /\ Has(b, "on", "up")
  <2>1. ~Uses(Step("on", "up", "-"), "ee")
    BY StepIs DEF Uses
  <2>2. Reached(On("up"), "up", FALSE) /\ Reached(On("up"), "ee", FALSE)
    BY <1>3, <2>1, NoUseOne DEF On
  <2> QED
    BY <1>2, <1>3, <1>6, <2>2, Joined, CatReached, HasJoin
<1> HIDE DEF b
<1>8. c \in Seq(S) /\ Reached(c, "up", FALSE) /\ Reached(c, "ee", FALSE) /\ Has(c, "on", "up") /\ Has(c, "on", "ee")
  <2>1. c = b \o i
    BY DEF i
  <2> QED
    BY <1>5, <1>7, <2>1, Joined, CatReached, HasJoin
<1> HIDE DEF c
<1>9. ASSUME NEW s \in Seq(S), NEW t \in Seq(S), Reached(s, "up", FALSE), Reached(s, "ee", FALSE),
             Has(s, "on", "up"), Has(s, "on", "ee")
      PROVE  s \o t \in Seq(S) /\ Reached(s \o t, "up", FALSE) /\ Reached(s \o t, "ee", FALSE)
             /\ Has(s \o t, "on", "up") /\ Has(s \o t, "on", "ee")
  BY <1>9, Joined, CatReached, HasJoin
<1>10. d \in Seq(S) /\ Reached(d, "up", FALSE) /\ Reached(d, "ee", FALSE) /\ Has(d, "on", "up") /\ Has(d, "on", "ee")
  BY <1>2, <1>8, <1>9
<1>11. Has(d, "on", "ndef")
  BY <1>2, <1>3, <1>8, HasJoin
<1> HIDE DEF d
<1>12. e \in Seq(S) /\ Reached(e, "up", FALSE) /\ Reached(e, "ee", FALSE) /\ Has(e, "on", "up") /\ Has(e, "on", "ee")
  BY <1>2, <1>9, <1>10
<1> HIDE DEF e
<1>13. m \in Seq(S) /\ Reached(m, "up", FALSE) /\ Reached(m, "ee", FALSE) /\ Has(m, "on", "up") /\ Has(m, "on", "ee")
  BY <1>2, <1>9, <1>12
<1>14. Has(m, "on", "ndef") /\ Has(m, "on", "p2p")
  BY <1>2, <1>3, <1>10, <1>11, <1>12, HasJoin DEF e
<1>15. Has(m, "on", "driver")
  <2>1. Has(a, "on", "driver")
    BY <1>2, <1>3, HasJoin, Joined DEF a
  <2>2. Has(b, "on", "driver")
    BY <1>2, <1>6, <2>1, HasJoin DEF b
  <2>3. Has(c, "on", "driver")
    BY <1>5, <1>7, <2>2, HasJoin DEF c, i
  <2>4. Has(d, "on", "driver")
    BY <1>2, <1>8, <2>3, HasJoin DEF d
  <2>5. Has(e, "on", "driver")
    BY <1>2, <1>10, <2>4, HasJoin DEF e
  <2> QED
    BY <1>2, <1>12, <2>5, HasJoin
<1> HIDE DEF m
<1>16. m \in Seq(Span(Kind(name, p), 5, 5))
  <2>1. S \subseteq Span(Kind(name, p), 5, 5)
    BY UpsKind DEF S, Slack, CeDown
  <2> QED
    BY <1>13, <2>1, SeqIn
<1>17. Tidy(m) /\ ~Has(m, "off", "up") /\ ~Has(m, "off", "driver") /\ Reached(m, "up", TRUE)
  <2>1. 5 \in 1..13 /\ 5 \notin Singular /\ 5 # 4
    BY DEF Singular
  <2> QED
    BY <1>16, <2>1, KindIn, PhaseTidy, PhaseReached
<1>18. Restores(m)
  BY <1>17 DEF Restores
<1>19. Reached(m, "ee", FALSE) /\ Reached(m, "up", FALSE)
  BY <1>13
<1>20. Part(m, Kind(name, p), 5, 5)
  BY <1>16, <1>17, <1>18, <1>19 DEF Part
<1> QED
  BY <1>1, <1>13, <1>14, <1>15, <1>20 DEF Base

LEMMA CatAssoc ==
  ASSUME NEW S, NEW p \in Seq(S), NEW q \in Seq(S), NEW r \in Seq(S)
  PROVE  (p \o q) \o r = p \o (q \o r)
BY ConcatAssociative, SMTT(30)

LEMMA OneReached ==
  ASSUME NEW e, NEW y
  PROVE  Reached(<<e>>, y, TRUE)
<1>1. Len(<<e>>) = 1 /\ <<e>>[1] = e
  OBVIOUS
<1> QED
  BY <1>1 DEF Reached

(* A step taken alone, or ignored alone.                                   *)
LEMMA AloneIs ==
  ASSUME NEW op, NEW x, NEW to, Step(op, x, to) \in AStep, NEW f \in Around
  PROVE  /\ Ignoring(f, <<Step(op, x, to)>>) = <<More(Step(op, x, to), f)>>
         /\ More(Step(op, x, to), f).op = op
         /\ More(Step(op, x, to), f).x = x
         /\ More(Step(op, x, to), f).to = to
         /\ More(Step(op, x, to), f).within = {f}
         /\ More(Step(op, x, to), f) \in AStep
BY StepIs, WithinMore, WithinMoreIn, IgnoringOne

Downs == { e \in AStep : /\ e.within \subseteq {"SetConfig"}
                         /\ \/ e.op = "delete"
                            \/ e.op = "off" /\ e.x \in {"driver", "up"}
                            \/ e.op = "config" /\ e.x = "-" /\ e.within = {"SetConfig"}
                            \/ IsSet(e, "llcpEnabled") /\ e.to = FALSE /\ e.within = {} }

LEMMA DownsKind ==
  ASSUME NEW name \in {"enable", "disable"}, NEW p
  PROVE  Downs \subseteq Span(Kind(name, p), 4, 4)
<1> SUFFICES ASSUME NEW e \in Downs PROVE e \in Kind(name, p) /\ At(e, 4)
  BY DEF Span
<1>1. e \in AStep /\ e.within \cap Slack = {} /\ e.within \cap CeDown = {}
  BY DEF Downs, Slack, CeDown
<1>2. Pinned(e)
  BY <1>1 DEF Downs, Pinned, Loose, Slack, CeDown, IsSet
<1>3. Fits(e, name, p)
  BY <1>1 DEF Downs, Fits, IsSet
<1>4. At(e, 4)
  BY <1>1 DEF Downs, At, Slack, IsSet
<1> QED
  BY <1>1, <1>2, <1>3, <1>4 DEF Kind

LEMMA MwDeInitPart ==
  ASSUME NEW name \in {"enable", "disable"}, NEW p
  PROVE  /\ MwDeInit \in Seq(Span(Kind(name, p), 4, 4)) /\ Tidy(MwDeInit)
         /\ Reached(MwDeInit, "up", TRUE) /\ Reached(MwDeInit, "ee", FALSE)
         /\ HasSet(MwDeInit, "llcpEnabled", FALSE) /\ MwDeInit \in Seq(Downs)
<1> DEFINE S == Downs
           c == Ignoring("SetConfig", Config)
           s == Set("llcpEnabled", FALSE)
           u == Off("up")
           a == c \o s
           b == a \o u
           r == b \o Off("driver")
           t == r \o Delete("intg")
           v == t \o Delete("sem")
           w == v \o Delete("mwq")
<1>1. MwDeInit = w
  BY DEF MwDeInit, StackDeInit
<1>2. c \in Seq(S) /\ Reached(c, "up", TRUE) /\ Reached(c, "ee", FALSE) /\ ~Has(c, "off", "up")
  <2> DEFINE e == More(Step("config", "-", "-"), "SetConfig")
  <2>1. Step("config", "-", "-") \in AStep /\ "SetConfig" \in Around
    BY DEF Step, AStep, Around, Minor
  <2>2. c = <<e>> /\ e.op = "config" /\ e.x = "-" /\ e.within = {"SetConfig"} /\ e \in AStep
    BY <2>1, AloneIs DEF Config
  <2> HIDE DEF e
  <2>3. e \in S /\ ~Uses(e, "ee")
    BY <2>2 DEF Downs, Uses
  <2>4. <<e>> \in Seq(S)
    BY <2>3
  <2>5. Reached(<<e>>, "up", TRUE) /\ Reached(<<e>>, "ee", FALSE) /\ ~Has(<<e>>, "off", "up")
    BY <2>2, <2>3, OneReached, NoUseOne, HasOne
  <2> QED
    BY <2>2, <2>4, <2>5
<1> HIDE DEF c
<1>3. ASSUME NEW op, NEW x, NEW to, Step(op, x, to) \in AStep, op # "config",
             op = "delete" \/ (op = "off" /\ x \in {"driver", "up"}) \/ (op = "set" /\ x = "llcpEnabled" /\ to = FALSE)
      PROVE  /\ <<Step(op, x, to)>> \in Seq(S) /\ Reached(<<Step(op, x, to)>>, "up", TRUE)
             /\ Reached(<<Step(op, x, to)>>, "ee", FALSE)
             /\ Has(<<Step(op, x, to)>>, "off", "up") => op = "off" /\ x = "up"
             /\ (op \in {"delete", "set"} \/ x = "driver") /\ x \notin {"ndef", "p2p", "isoDepListen"} => Reached(<<Step(op, x, to)>>, "up", FALSE)
  <2> DEFINE e == Step(op, x, to)
  <2>1. e.op = op /\ e.x = x /\ e.to = to /\ e.within = {} /\ e \in AStep
    BY <1>3, StepIs
  <2> HIDE DEF e
  <2>2. e \in S /\ ~Uses(e, "ee")
    BY <1>3, <2>1 DEF Downs, Uses, IsSet
  <2>3. (op \in {"delete", "set"} \/ x = "driver") /\ x \notin {"ndef", "p2p", "isoDepListen"} => ~Uses(e, "up")
    BY <1>3, <2>1 DEF Uses, AsksStack, Waits
  <2>4. /\ <<e>> \in Seq(S) /\ Reached(<<e>>, "up", TRUE) /\ Reached(<<e>>, "ee", FALSE)
        /\ Has(<<e>>, "off", "up") => op = "off" /\ x = "up"
    BY <2>1, <2>2, OneStep, OneReached, NoUseOne, HasOne
  <2>5. (op \in {"delete", "set"} \/ x = "driver") /\ x \notin {"ndef", "p2p", "isoDepListen"} => Reached(<<e>>, "up", FALSE)
    BY <2>3, NoUseOne
  <2> QED
    BY <2>4, <2>5 DEF e
<1>4. /\ Step("set", "llcpEnabled", FALSE) \in AStep /\ Step("off", "up", "-") \in AStep
      /\ Step("off", "driver", "-") \in AStep
      /\ \A x \in {"intg", "sem", "mwq"} : Step("delete", x, "-") \in AStep
  BY DEF Step, AStep, Flags, Base, OsalObjects
<1>5. /\ s \in Seq(S) /\ Reached(s, "up", FALSE) /\ Reached(s, "ee", FALSE) /\ ~Has(s, "off", "up")
      /\ HasSet(s, "llcpEnabled", FALSE)
  BY <1>3, <1>4, SetHas DEF Set
<1>6. u \in Seq(S) /\ Reached(u, "up", TRUE) /\ Reached(u, "ee", FALSE)
  BY <1>3, <1>4 DEF Off
<1>7. Off("driver") \in Seq(S) /\ Reached(Off("driver"), "up", FALSE) /\ Reached(Off("driver"), "ee", FALSE)
  BY <1>3, <1>4 DEF Off
<1>8. \A x \in {"intg", "sem", "mwq"} : Delete(x) \in Seq(S) /\ Reached(Delete(x), "up", FALSE) /\ Reached(Delete(x), "ee", FALSE)
  BY <1>3, <1>4 DEF Delete
<1> HIDE DEF S, s, u
<1>9. /\ a \in Seq(S) /\ Reached(a, "up", TRUE) /\ Reached(a, "ee", FALSE) /\ ~Has(a, "off", "up")
      /\ HasSet(a, "llcpEnabled", FALSE)
  <2>1. a \in Seq(S) /\ Reached(a, "up", TRUE) /\ Reached(a, "ee", FALSE)
    BY <1>2, <1>5, Joined, CatReached
  <2> QED
    BY <1>2, <1>5, <2>1, HasJoin
<1> HIDE DEF a
<1>10. b \in Seq(S) /\ Reached(b, "up", TRUE) /\ Reached(b, "ee", FALSE) /\ HasSet(b, "llcpEnabled", FALSE)
  BY <1>6, <1>9, Joined, CatReached, HasJoin
<1> HIDE DEF b
<1>11. ASSUME NEW x \in Seq(S), NEW y \in Seq(S), Reached(x, "up", TRUE), Reached(x, "ee", FALSE),
              HasSet(x, "llcpEnabled", FALSE), Reached(y, "up", FALSE), Reached(y, "ee", FALSE)
       PROVE  x \o y \in Seq(S) /\ Reached(x \o y, "up", TRUE) /\ Reached(x \o y, "ee", FALSE) /\ HasSet(x \o y, "llcpEnabled", FALSE)
  BY <1>11, Joined, CatReached, HasJoin
<1>12. r \in Seq(S) /\ Reached(r, "up", TRUE) /\ Reached(r, "ee", FALSE) /\ HasSet(r, "llcpEnabled", FALSE)
  BY <1>7, <1>10, <1>11
<1> HIDE DEF r
<1>13. t \in Seq(S) /\ Reached(t, "up", TRUE) /\ Reached(t, "ee", FALSE) /\ HasSet(t, "llcpEnabled", FALSE)
  BY <1>8, <1>11, <1>12
<1> HIDE DEF t
<1>14. v \in Seq(S) /\ Reached(v, "up", TRUE) /\ Reached(v, "ee", FALSE) /\ HasSet(v, "llcpEnabled", FALSE)
  BY <1>8, <1>11, <1>13
<1> HIDE DEF v
<1>15. w \in Seq(S) /\ Reached(w, "up", TRUE) /\ Reached(w, "ee", FALSE) /\ HasSet(w, "llcpEnabled", FALSE)
  BY <1>8, <1>11, <1>14
<1> HIDE DEF w
<1>16. w \in Seq(Span(Kind(name, p), 4, 4))
  BY <1>15, DownsKind, SeqIn DEF S
<1>17. Tidy(w)
  <2>1. 4 \in 1..13 /\ 4 \notin Singular
    BY DEF Singular
  <2> QED
    BY <1>16, <2>1, KindIn, PhaseTidy
<1> QED
  BY <1>1, <1>15, <1>16, <1>17 DEF S

(* The middleware is built again, which leaves the stack up.               *)
LEMMA RebuiltPart ==
  ASSUME NEW name \in {"enable", "disable"}, NEW p
  PROVE  /\ Part(MwDeInit \o MwInit, Kind(name, p), 4, 5)
         /\ HasSet(MwDeInit \o MwInit, "llcpEnabled", FALSE)
         /\ \A b \in Base \cup {"ee"} : Has(MwDeInit \o MwInit, "on", b)
<1> DEFINE K == Kind(name, p)
           d == MwDeInit
           i == MwInit
<1>1. K \subseteq AStep
  BY KindIn
<1>2. /\ d \in Seq(Span(K, 4, 4)) /\ Tidy(d) /\ Reached(d, "up", TRUE) /\ Reached(d, "ee", FALSE)
      /\ HasSet(d, "llcpEnabled", FALSE)
  BY MwDeInitPart
<1>3. /\ Part(i, K, 5, 5) /\ Reached(i, "up", FALSE) /\ \A b \in Base \cup {"ee"} : Has(i, "on", b)
  BY MwInitPart
<1> HIDE DEF K, d, i
<1>4. i \in Seq(Span(K, 5, 5)) /\ Tidy(i) /\ Reached(i, "ee", FALSE)
  BY <1>3 DEF Part
<1>5. d \in Seq(Span(K, 4, 5)) /\ i \in Seq(Span(K, 4, 5))
  BY <1>2, <1>4, SpanWider
<1>6. Tidy(d \o i)
  <2>1. \A a \in Span(K, 4, 4) : \A b \in Span(K, 5, 5) : Follows(a, b)
    BY <1>1, SpanFollows
  <2> QED
    BY <1>2, <1>4, <2>1, TidyCat
<1>7. Reached(d \o i, "up", TRUE) /\ Reached(d \o i, "ee", FALSE)
  BY <1>2, <1>3, <1>4, <1>5, CatReached
<1>8. d \o i \in Seq(Span(K, 4, 5))
  BY <1>5, Joined
<1>9. HasSet(d \o i, "llcpEnabled", FALSE) /\ \A b \in Base \cup {"ee"} : Has(d \o i, "on", b)
  BY <1>2, <1>3, <1>5, HasJoin
<1>10. Part(d \o i, K, 4, 5)
  BY <1>6, <1>7, <1>8, <1>9 DEF Part, Restores
<1> QED
  BY <1>9, <1>10 DEF d, i, K

-----------------------------------------------------------------------------
(* The parts that set the controller up.                                   *)

LEMMA MaybeHas ==
  ASSUME NEW c \in BOOLEAN, NEW p
  PROVE  /\ \A op, x : Has(If(c, p), op, x) <=> c /\ Has(p, op, x)
         /\ \A f, v : HasSet(If(c, p), f, v) <=> c /\ HasSet(p, f, v)
BY HasNone DEF If

(* Parts put together, and what they have.                                 *)
LEMMA PartJoin ==
  ASSUME NEW K, K \subseteq AStep, NEW l \in Nat, NEW m \in Nat, NEW n \in Nat, NEW h \in Nat,
         l <= n, m <= h, m < n \/ (m = n /\ m \notin Singular),
         NEW p, NEW q, Part(p, K, l, m), Part(q, K, n, h)
  PROVE  /\ Part(p \o q, K, l, h)
         /\ \A op, x : Has(p \o q, op, x) <=> Has(p, op, x) \/ Has(q, op, x)
         /\ \A f, v : HasSet(p \o q, f, v) <=> HasSet(p, f, v) \/ HasSet(q, f, v)
BY PartCat, PartSeq, HasJoin

(* One step that needs no callback of the NFCEE.                           *)
LEMMA PartStep ==
  ASSUME NEW name, NEW p, NEW n \in 1..13, n # 4, NEW e \in AStep, Pinned(e), Fits(e, name, p), At(e, n),
         e.op \notin {"ee", "route"} \/ "RoutingUpdate" \in e.within
  PROVE  /\ Part(<<e>>, Kind(name, p), n, n)
         /\ \A op, x : Has(<<e>>, op, x) <=> e.op = op /\ e.x = x
         /\ \A f, v : HasSet(<<e>>, f, v) <=> IsSet(e, f) /\ e.to = v
<1>1. e \in Kind(name, p) /\ ~Uses(e, "ee")
  BY DEF Kind, Uses
<1> QED
  BY <1>1, PartOne, HasOne

LEMMA ConfigPart ==
  ASSUME NEW name, NEW p, NEW n \in 1..10, n # 4
  PROVE  /\ Part(Config, Kind(name, p), n, n)
         /\ Part(Ignoring("SetConfig", Config), Kind(name, p), n, n)
<1> DEFINE c == Step("config", "-", "-")
           e == More(c, "SetConfig")
<1>1. c \in AStep /\ "SetConfig" \in Around
  BY DEF Step, AStep, Around, Minor
<1>2. /\ Ignoring("SetConfig", <<c>>) = <<e>>
      /\ e.op = "config" /\ e.x = "-" /\ e.to = "-" /\ e.within = {"SetConfig"} /\ e \in AStep
      /\ c.op = "config" /\ c.x = "-" /\ c.to = "-" /\ c.within = {}
  BY <1>1, AloneIs, StepIs
<1>3. Config = <<c>>
  BY DEF Config
<1> HIDE DEF c, e
<1>4. Pinned(e) /\ Pinned(c)
  BY <1>2 DEF Pinned, Slack, CeDown, Loose
<1>5. Fits(e, name, p) /\ Fits(c, name, p)
  BY <1>2 DEF Fits, IsSet, CeDown
<1>6. At(e, n) /\ At(c, n)
  BY <1>2 DEF At
<1>7. n \in 1..13
  OBVIOUS
<1> QED
  BY <1>1, <1>2, <1>3, <1>4, <1>5, <1>6, <1>7, PartStep

(* The fields the calls set.                                               *)
LEMMA SetPart ==
  ASSUME NEW name, NEW p, NEW n \in 1..13, n # 4, NEW f, NEW v, Step("set", f, v) \in AStep,
         Fits(Step("set", f, v), name, p), At(Step("set", f, v), n)
  PROVE  /\ Part(Set(f, v), Kind(name, p), n, n)
         /\ \A op, x : Has(Set(f, v), op, x) <=> op = "set" /\ x = f
         /\ \A g, u : HasSet(Set(f, v), g, u) <=> g = f /\ u = v
<1> DEFINE e == Step("set", f, v)
<1>1. e.op = "set" /\ e.x = f /\ e.to = v /\ e.within = {} /\ e \in AStep /\ Fits(e, name, p) /\ At(e, n)
  BY StepIs
<1>2. Set(f, v) = <<e>>
  BY DEF Set
<1> HIDE DEF e
<1>3. Pinned(e)
  BY <1>1 DEF Pinned, Slack, CeDown, Loose
<1>4. /\ Part(<<e>>, Kind(name, p), n, n)
      /\ \A op, x : Has(<<e>>, op, x) <=> e.op = op /\ e.x = x
      /\ \A g, u : HasSet(<<e>>, g, u) <=> IsSet(e, g) /\ e.to = u
  BY <1>1, <1>3, PartStep
<1> QED
  BY <1>1, <1>2, <1>4 DEF IsSet

LEMMA SetFits ==
  ASSUME NEW f, NEW v, NEW name, NEW p, NEW n \in 1..13
  PROVE  LET e == Step("set", f, v)
         IN  /\ v \in Tests /\ f \in {"app", "prev", "disc"} => e \in AStep
             /\ v \in BOOLEAN /\ f \in Flags => e \in AStep
             /\ v \in SUBSET {"ISO_DEP"} /\ f = "protocols" => e \in AStep
             /\ f \notin {"idle", "protocols", "llcpEnabled"} /\ n <= 10 => At(e, n)
             /\ f = "protocols" /\ n <= 8 => At(e, n)
             /\ f = "llcpEnabled" /\ v = TRUE /\ n = 6 => At(e, n)
             /\ f = "idle" /\ n = 12 => At(e, n)
             /\ f \in {"app", "prev", "disc"} /\ v = p /\ (f = "disc" => name \in {"enable", "restart"}) => Fits(e, name, p)
             /\ f = "llcpEnabled" /\ v = TRUE /\ name = "enable" /\ "llcp" \in p => Fits(e, name, p)
             /\ f \in {"llcp", "felicaHandle"} /\ v = TRUE => Fits(e, name, p)
             /\ f = "protocols" /\ v = {"ISO_DEP"} => Fits(e, name, p)
             /\ f = "idle" /\ v = FALSE => Fits(e, name, p)
             /\ f \notin {"idle", "llcpEnabled", "disc"} /\ name \in {"init", "disable"} => Fits(e, name, p)
<1> DEFINE e == Step("set", f, v)
<1>1. e.op = "set" /\ e.x = f /\ e.to = v /\ e.within = {}
  BY StepIs
<1>2. /\ v \in Tests /\ f \in {"app", "prev", "disc"} => e \in AStep
      /\ v \in BOOLEAN /\ f \in Flags => e \in AStep
      /\ v \in SUBSET {"ISO_DEP"} /\ f = "protocols" => e \in AStep
  BY DEF Step, AStep
<1> HIDE DEF e
<1>3. /\ f \notin {"idle", "protocols", "llcpEnabled"} /\ n <= 10 => At(e, n)
      /\ f = "protocols" /\ n <= 8 => At(e, n)
      /\ f = "llcpEnabled" /\ v = TRUE /\ n = 6 => At(e, n)
      /\ f = "idle" /\ n = 12 => At(e, n)
  BY <1>1 DEF At
<1>4. /\ f \in {"app", "prev", "disc"} /\ v = p /\ (f = "disc" => name \in {"enable", "restart"}) => Fits(e, name, p)
      /\ f = "llcpEnabled" /\ v = TRUE /\ name = "enable" /\ "llcp" \in p => Fits(e, name, p)
      /\ f \in {"llcp", "felicaHandle"} /\ v = TRUE => Fits(e, name, p)
      /\ f = "protocols" /\ v = {"ISO_DEP"} => Fits(e, name, p)
      /\ f = "idle" /\ v = FALSE => Fits(e, name, p)
      /\ f \notin {"idle", "llcpEnabled", "disc"} /\ name \in {"init", "disable"} => Fits(e, name, p)
  BY <1>1 DEF Fits, IsSet, CeDown
<1> QED
  BY <1>2, <1>3, <1>4 DEF e

(* What the calls register.                                                *)
LEMMA OnPart ==
  ASSUME NEW name \in {"enable", "restart"}, NEW p, NEW n \in 5..11,
         NEW x \in LlcpEnds \cup Registrations, x # "hci",
         x = "ee" => name = "enable", x \in {"ee", "disc"} \/ Wants(p, x),
         IF x = "disc" THEN n = 11 ELSE n <= 10, x = "aid" => n = 10, x = "felica" => n <= 7
  PROVE  /\ Part(On(x), Kind(name, p), n, n)
         /\ Has(On(x), "on", x)
<1> DEFINE e == Step("on", x, "-")
<1>1. e.op = "on" /\ e.x = x /\ e.to = "-" /\ e.within = {}
  BY StepIs
<1>2. On(x) = <<e>>
  BY DEF On
<1>3. e \in AStep
  BY DEF Step, AStep
<1> HIDE DEF e
<1>4. Pinned(e)
  BY <1>1 DEF Pinned, Slack, CeDown, Loose
<1>5. Fits(e, name, p)
  BY <1>1 DEF Fits, IsSet, CeDown
<1>6. At(e, n)
  BY <1>1 DEF At
<1>7. n \in 1..13 /\ n # 4 /\ e.op \notin {"ee", "route"}
  BY <1>1
<1>8. Part(<<e>>, Kind(name, p), n, n) /\ Has(<<e>>, e.op, e.x)
  BY <1>3, <1>4, <1>5, <1>6, <1>7, PartStep
<1> QED
  BY <1>1, <1>2, <1>8

LEMMA CopyPart ==
  ASSUME NEW name \in {"enable", "restart"}, NEW p \in Tests, NEW n \in 1..10, n # 4,
         NEW f \in {"app", "prev", "disc"}
  PROVE  Part(Set(f, p), Kind(name, p), n, n) /\ HasSet(Set(f, p), f, p)
<1>1. n \in 1..13 /\ f \notin {"idle", "protocols", "llcpEnabled"} /\ n <= 10
  OBVIOUS
<1>2. Step("set", f, p) \in AStep /\ At(Step("set", f, p), n) /\ Fits(Step("set", f, p), name, p)
  BY <1>1, SetFits
<1> QED
  BY <1>1, <1>2, SetPart

-----------------------------------------------------------------------------
(* Configuring: what was asked for is kept first.                          *)
LEMMA UpdatePart ==
  ASSUME NEW p \in Tests
  PROVE  /\ Part(UpdateConfigPrams(p), Kind("enable", p), 1, 5)
         /\ HasSet(UpdateConfigPrams(p), "app", p) /\ HasSet(UpdateConfigPrams(p), "prev", p)
         /\ NfceeCE(p) => \A b \in Base \cup {"ee"} : Has(UpdateConfigPrams(p), "on", b)
<1> DEFINE K == Kind("enable", p)
           s == Set("app", p)
           c == Ignoring("SetConfig", Config)
           m == MwDeInit \o MwInit
           f == If(NfceeCE(p), c \o MwDeInit \o MwInit)
           g == f \o c
           h == g \o Set("prev", p)
<1>1. UpdateConfigPrams(p) = s \o h
  BY DEF UpdateConfigPrams, ConfigParams
<1>2. K \subseteq AStep
  BY KindIn
<1>3. Part(s, K, 1, 1) /\ HasSet(s, "app", p)
  BY CopyPart
<1>4. Part(Set("prev", p), K, 5, 5) /\ HasSet(Set("prev", p), "prev", p)
  BY CopyPart
<1>5. Part(c, K, 1, 1) /\ Part(c, K, 5, 5)
  BY ConfigPart
<1>6. Part(m, K, 4, 5) /\ \A b \in Base \cup {"ee"} : Has(m, "on", b)
  BY RebuiltPart
<1>7. c \o MwDeInit \o MwInit = c \o m
  <2>1. c \in Seq(AStep) /\ MwDeInit \in Seq(AStep) /\ MwInit \in Seq(AStep)
    <3>1. MwDeInit \in Seq(Span(K, 4, 4)) /\ Part(MwInit, K, 5, 5)
      BY MwDeInitPart, MwInitPart
    <3>2. Span(K, 4, 4) \subseteq AStep
      BY <1>2 DEF Span
    <3>3. MwDeInit \in Seq(AStep)
      BY <3>1, <3>2, SeqIn
    <3> QED
      BY <1>2, <1>5, <3>1, <3>3, PartSeq
  <2> HIDE DEF c
  <2> QED
    BY <2>1, CatAssoc
<1> HIDE DEF K, s, c, m
<1>8. Part(c \o m, K, 1, 5) /\ \A b \in Base \cup {"ee"} : Has(c \o m, "on", b)
  BY <1>2, <1>5, <1>6, PartJoin
<1>9. Part(f, K, 1, 5) /\ (NfceeCE(p) => \A b \in Base \cup {"ee"} : Has(f, "on", b))
  <2>1. f = If(NfceeCE(p), c \o m) /\ NfceeCE(p) \in BOOLEAN
    BY <1>7 DEF NfceeCE
  <2> HIDE DEF f
  <2> QED
    BY <1>8, <2>1, PartMaybe, MaybeHas
<1> HIDE DEF f
<1>10. Part(g, K, 1, 5) /\ (NfceeCE(p) => \A b \in Base \cup {"ee"} : Has(g, "on", b))
  <2>1. 5 \notin Singular
    BY DEF Singular
  <2> QED
    BY <1>2, <1>5, <1>9, <2>1, PartJoin
<1> HIDE DEF g
<1>11. Part(h, K, 1, 5) /\ HasSet(h, "prev", p) /\ (NfceeCE(p) => \A b \in Base \cup {"ee"} : Has(h, "on", b))
  <2>1. 5 \notin Singular
    BY DEF Singular
  <2> QED
    BY <1>2, <1>4, <1>10, <2>1, PartJoin
<1> HIDE DEF h
<1>12. /\ Part(s \o h, K, 1, 5) /\ HasSet(s \o h, "app", p) /\ HasSet(s \o h, "prev", p)
       /\ NfceeCE(p) => \A b \in Base \cup {"ee"} : Has(s \o h, "on", b)
  <2>1. 1 \notin Singular
    BY DEF Singular
  <2> QED
    BY <1>2, <1>3, <1>11, <2>1, PartJoin
<1> QED
  BY <1>1, <1>12 DEF K

-----------------------------------------------------------------------------
(* LLCP, the protocols, HCE and the secure elements.                       *)

(* Steps of one phase put after a part.                                    *)
LEMMA PartThen ==
  ASSUME NEW K, K \subseteq AStep, NEW l \in Nat, NEW n \in Nat, l <= n, n \notin Singular,
         NEW p, NEW q, Part(p, K, l, n), Part(q, K, n, n)
  PROVE  /\ Part(p \o q, K, l, n)
         /\ \A op, x : Has(p \o q, op, x) <=> Has(p, op, x) \/ Has(q, op, x)
         /\ \A f, v : HasSet(p \o q, f, v) <=> HasSet(p, f, v) \/ HasSet(q, f, v)
<1>1. n <= n /\ (n < n \/ (n = n /\ n \notin Singular))
  OBVIOUS
<1> QED
  BY <1>1, PartJoin

(* A flag that is set.                                                     *)
LEMMA FlagPart ==
  ASSUME NEW name, NEW p, NEW n \in 1..13, n # 4, NEW f \in Flags, NEW e, e = Step("set", f, TRUE),
         At(e, n), Fits(e, name, p)
  PROVE  Part(<<e>>, Kind(name, p), n, n) /\ HasSet(<<e>>, f, TRUE)
<1>1. e.op = "set" /\ e.x = f /\ e.to = TRUE /\ e.within = {}
  BY DEF Step
<1>2. e \in AStep
  <2>1. TRUE \in BOOLEAN
    OBVIOUS
  <2> QED
    BY <2>1, SetFits
<1>3. Pinned(e)
  BY <1>1 DEF Pinned, Slack, CeDown, Loose
<1>4. e.op \notin {"ee", "route"}
  BY <1>1
<1>5. /\ Part(<<e>>, Kind(name, p), n, n)
      /\ \A h, u : HasSet(<<e>>, h, u) <=> IsSet(e, h) /\ e.to = u
  BY <1>2, <1>3, <1>4, PartStep, ZenonT(40)
<1>6. IsSet(e, f)
  BY <1>1 DEF IsSet
<1> QED
  BY <1>1, <1>5, <1>6

LEMMA LlcpFlags ==
  ASSUME NEW p, "llcp" \in p
  PROVE  /\ Part(Set("llcpEnabled", TRUE), Kind("enable", p), 6, 6)
         /\ HasSet(Set("llcpEnabled", TRUE), "llcpEnabled", TRUE)
         /\ Part(Set("llcp", TRUE), Kind("enable", p), 7, 7)
         /\ HasSet(Set("llcp", TRUE), "llcp", TRUE)
<1> DEFINE e == Step("set", "llcpEnabled", TRUE)
           g == Step("set", "llcp", TRUE)
<1>1. /\ e.op = "set" /\ e.x = "llcpEnabled" /\ e.to = TRUE /\ e.within = {}
      /\ g.op = "set" /\ g.x = "llcp" /\ g.to = TRUE /\ g.within = {}
  BY DEF Step
<1>2. Set("llcpEnabled", TRUE) = <<e>> /\ Set("llcp", TRUE) = <<g>>
  BY DEF Set
<1>3. e = Step("set", "llcpEnabled", TRUE) /\ g = Step("set", "llcp", TRUE)
  OBVIOUS
<1>4. "llcpEnabled" \in Flags /\ "llcp" \in Flags
  BY DEF Flags
<1> HIDE DEF e, g
<1>5. At(e, 6) /\ At(g, 7)
  BY <1>1 DEF At
<1>6. Fits(e, "enable", p) /\ Fits(g, "enable", p)
  BY <1>1 DEF Fits, IsSet, CeDown
<1>7. 6 \in 1..13 /\ 6 # 4 /\ 7 \in 1..13 /\ 7 # 4
  OBVIOUS
<1>8. Part(<<e>>, Kind("enable", p), 6, 6) /\ HasSet(<<e>>, "llcpEnabled", TRUE)
  BY <1>3, <1>4, <1>5, <1>6, <1>7, FlagPart
<1>9. Part(<<g>>, Kind("enable", p), 7, 7) /\ HasSet(<<g>>, "llcp", TRUE)
  BY <1>3, <1>4, <1>5, <1>6, <1>7, FlagPart
<1> QED
  BY <1>2, <1>8, <1>9

(* The LLCP test's registrations.                                          *)
LEMMA LlcpPart ==
  ASSUME NEW p, "llcp" \in p
  PROVE  /\ Part(LlcpRegister, Kind("enable", p), 6, 7)
         /\ \A x \in LlcpEnds : Has(LlcpRegister, "on", x)
         /\ HasSet(LlcpRegister, "llcp", TRUE) /\ HasSet(LlcpRegister, "llcpEnabled", TRUE)
<1> DEFINE K == Kind("enable", p)
           s == Set("llcpEnabled", TRUE)
           t == Set("llcp", TRUE)
           a == s \o Config
           b == a \o On("sdpClient")
           c == b \o On("clClient")
           d == c \o On("coClient")
           e == On("coServer") \o On("clServer")
           f == d \o e
           g == f \o t
<1>1. LlcpRegister = g
  BY DEF LlcpRegister, LlcpInit, LlcpRegisterServers
<1>2. K \subseteq AStep /\ 6 \in Nat /\ 7 \in Nat /\ 6 <= 7 /\ 6 < 7 /\ 7 <= 7 /\ 7 \notin Singular
  BY KindIn DEF Singular
<1>3. Part(s, K, 6, 6) /\ HasSet(s, "llcpEnabled", TRUE)
  BY LlcpFlags
<1>4. Part(t, K, 7, 7) /\ HasSet(t, "llcp", TRUE)
  BY LlcpFlags
<1>5. Part(Config, K, 7, 7)
  BY ConfigPart
<1>6. \A x \in LlcpEnds : Part(On(x), K, 7, 7) /\ Has(On(x), "on", x)
  <2> SUFFICES ASSUME NEW x \in LlcpEnds PROVE Part(On(x), K, 7, 7) /\ Has(On(x), "on", x)
    OBVIOUS
  <2>1. x \notin {"disc", "aid", "felica", "hci", "ee"} /\ Wants(p, x)
    BY DEF LlcpEnds, Wants
  <2> QED
    BY <2>1, OnPart
<1> HIDE DEF K, s, t
<1>7. /\ Part(a, K, 6, 7)
      /\ \A op, x : Has(a, op, x) <=> Has(s, op, x) \/ Has(Config, op, x)
      /\ \A h, v : HasSet(a, h, v) <=> HasSet(s, h, v) \/ HasSet(Config, h, v)
  BY <1>2, <1>3, <1>5, PartJoin
<1> HIDE DEF a
<1>8. /\ Part(b, K, 6, 7)
      /\ \A op, x : Has(b, op, x) <=> Has(a, op, x) \/ Has(On("sdpClient"), op, x)
      /\ \A h, v : HasSet(b, h, v) <=> HasSet(a, h, v) \/ HasSet(On("sdpClient"), h, v)
  <2>1. Part(a, K, 6, 7)
    BY <1>7
  <2>2. Part(On("sdpClient"), K, 7, 7)
    BY <1>6 DEF LlcpEnds
  <2> QED
    BY <1>2, <2>1, <2>2, PartThen
<1> HIDE DEF b
<1>9. /\ Part(c, K, 6, 7)
      /\ \A op, x : Has(c, op, x) <=> Has(b, op, x) \/ Has(On("clClient"), op, x)
      /\ \A h, v : HasSet(c, h, v) <=> HasSet(b, h, v) \/ HasSet(On("clClient"), h, v)
  <2>1. Part(b, K, 6, 7)
    BY <1>8
  <2>2. Part(On("clClient"), K, 7, 7)
    BY <1>6 DEF LlcpEnds
  <2> QED
    BY <1>2, <2>1, <2>2, PartThen
<1> HIDE DEF c
<1>10. /\ Part(d, K, 6, 7)
       /\ \A op, x : Has(d, op, x) <=> Has(c, op, x) \/ Has(On("coClient"), op, x)
       /\ \A h, v : HasSet(d, h, v) <=> HasSet(c, h, v) \/ HasSet(On("coClient"), h, v)
  <2>1. Part(c, K, 6, 7)
    BY <1>9
  <2>2. Part(On("coClient"), K, 7, 7)
    BY <1>6 DEF LlcpEnds
  <2> QED
    BY <1>2, <2>1, <2>2, PartThen
<1> HIDE DEF d
<1>11. /\ Part(e, K, 7, 7)
       /\ \A op, x : Has(e, op, x) <=> Has(On("coServer"), op, x) \/ Has(On("clServer"), op, x)
       /\ \A h, v : HasSet(e, h, v) <=> HasSet(On("coServer"), h, v) \/ HasSet(On("clServer"), h, v)
  <2>1. Part(On("coServer"), K, 7, 7)
    BY <1>6 DEF LlcpEnds
  <2>2. Part(On("clServer"), K, 7, 7)
    BY <1>6 DEF LlcpEnds
  <2> QED
    BY <1>2, <2>1, <2>2, PartThen
<1> HIDE DEF e
<1>12. /\ Part(f, K, 6, 7)
       /\ \A op, x : Has(f, op, x) <=> Has(d, op, x) \/ Has(e, op, x)
       /\ \A h, v : HasSet(f, h, v) <=> HasSet(d, h, v) \/ HasSet(e, h, v)
  <2>1. Part(d, K, 6, 7)
    BY <1>10
  <2>2. Part(e, K, 7, 7)
    BY <1>11
  <2> QED
    BY <1>2, <2>1, <2>2, PartThen
<1> HIDE DEF f
<1>13. /\ Part(g, K, 6, 7)
       /\ \A op, x : Has(g, op, x) <=> Has(f, op, x) \/ Has(t, op, x)
       /\ \A h, v : HasSet(g, h, v) <=> HasSet(f, h, v) \/ HasSet(t, h, v)
  <2>1. Part(f, K, 6, 7)
    BY <1>12
  <2>2. Part(t, K, 7, 7)
    BY <1>4
  <2> QED
    BY <1>2, <2>1, <2>2, PartThen
<1> HIDE DEF g
<1>14. \A x \in LlcpEnds : Has(On(x), "on", x)
  BY <1>6
<1>15. /\ Has(On("sdpClient"), "on", "sdpClient") /\ Has(On("clClient"), "on", "clClient")
       /\ Has(On("coClient"), "on", "coClient") /\ Has(On("coServer"), "on", "coServer")
       /\ Has(On("clServer"), "on", "clServer")
  BY <1>14 DEF LlcpEnds
<1>16. Has(d, "on", "sdpClient") /\ Has(d, "on", "clClient") /\ Has(d, "on", "coClient")
  BY <1>8, <1>9, <1>10, <1>15
<1>17. Has(e, "on", "coServer") /\ Has(e, "on", "clServer")
  BY <1>11, <1>15
<1>18. \A x \in LlcpEnds : Has(f, "on", x)
  BY <1>12, <1>16, <1>17 DEF LlcpEnds
<1>19. HasSet(g, "llcpEnabled", TRUE) /\ HasSet(g, "llcp", TRUE)
  <2> DEFINE y == TRUE
  <2>1. HasSet(s, "llcpEnabled", y) /\ HasSet(t, "llcp", y)
    BY <1>3, <1>4
  <2> HIDE DEF y
  <2>2. HasSet(g, "llcpEnabled", y) /\ HasSet(g, "llcp", y)
    BY <1>7, <1>8, <1>9, <1>10, <1>12, <1>13, <2>1
  <2> QED
    BY <2>2 DEF y
<1>20. \A x \in LlcpEnds : Has(g, "on", x)
  BY <1>13, <1>18
<1> QED
  BY <1>1, <1>13, <1>19, <1>20 DEF K

-----------------------------------------------------------------------------
(* Card emulation.  What needs the NFCEE's callback comes after it.        *)
WithEe(p, K, n) == p \in Seq(Span(K, n, n)) /\ Has(p, "on", "ee") /\ Reached(p, "ee", FALSE)

LEMMA WithEePart ==
  ASSUME NEW K, K \subseteq AStep, NEW n \in 1..13, n \notin Singular \cup {4}, NEW p, WithEe(p, K, n)
  PROVE  Part(p, K, n, n)
<1>1. p \in Seq(Span(K, n, n)) /\ Tidy(p)
  BY PhaseTidy DEF WithEe
<1>2. ~Has(p, "off", "up") /\ ~Has(p, "off", "driver") /\ Reached(p, "up", TRUE)
  BY <1>1, PhaseReached
<1> QED
  BY <1>1, <1>2 DEF Part, Restores, WithEe

LEMMA WithEeThen ==
  ASSUME NEW K, K \subseteq AStep, NEW n \in 1..13, NEW p, WithEe(p, K, n), NEW q \in Seq(Span(K, n, n))
  PROVE  /\ WithEe(p \o q, K, n)
         /\ \A op, x : Has(p \o q, op, x) <=> Has(p, op, x) \/ Has(q, op, x)
         /\ \A f, v : HasSet(p \o q, f, v) <=> HasSet(p, f, v) \/ HasSet(q, f, v)
<1>1. p \in Seq(Span(K, n, n)) /\ Has(p, "on", "ee") /\ Reached(p, "ee", FALSE)
  BY DEF WithEe
<1>2. p \o q \in Seq(Span(K, n, n)) /\ Reached(p \o q, "ee", FALSE)
  BY <1>1, Joined, CatReached
<1>3. /\ \A op, x : Has(p \o q, op, x) <=> Has(p, op, x) \/ Has(q, op, x)
      /\ \A f, v : HasSet(p \o q, f, v) <=> HasSet(p, f, v) \/ HasSet(q, f, v)
  BY <1>1, HasJoin
<1> QED
  BY <1>1, <1>2, <1>3 DEF WithEe

LEMMA OnEe ==
  ASSUME NEW p
  PROVE  WithEe(On("ee"), Kind("enable", p), 7)
<1>1. Part(On("ee"), Kind("enable", p), 7, 7) /\ Has(On("ee"), "on", "ee")
  BY OnPart DEF Registrations
<1> QED
  BY <1>1 DEF WithEe, Part

LEMMA EePieces ==
  ASSUME NEW p
  PROVE  /\ EeRequest \in Seq(Span(Kind("enable", p), 7, 7))
         /\ \A ps \in SUBSET {"ISO_DEP", "T3T"} : Route(ps) \in Seq(Span(Kind("enable", p), 7, 7))
         /\ NfceeCE(p) => HciRegister \in Seq(Span(Kind("enable", p), 7, 7))
<1> DEFINE K == Kind("enable", p)
<1>1. ASSUME NEW e \in AStep, Pinned(e), Fits(e, "enable", p), At(e, 7)
      PROVE  <<e>> \in Seq(Span(K, 7, 7))
  <2>1. e \in Span(K, 7, 7)
    BY <1>1 DEF Span, Kind
  <2> QED
    BY <2>1
<1>2. EeRequest \in Seq(Span(K, 7, 7))
  <2> DEFINE e == Step("ee", "-", "-")
  <2>1. e.op = "ee" /\ e.x = "-" /\ e.within = {} /\ e \in AStep
    BY StepIs DEF AStep, Step
  <2>2. EeRequest = <<e>>
    BY DEF EeRequest
  <2> HIDE DEF e, K
  <2>3. Pinned(e) /\ Fits(e, "enable", p) /\ At(e, 7)
    BY <2>1 DEF Pinned, Fits, At, Loose, Slack, CeDown, IsSet
  <2> QED
    BY <1>1, <2>1, <2>2, <2>3
<1>3. ASSUME NEW ps \in SUBSET {"ISO_DEP", "T3T"} PROVE Route(ps) \in Seq(Span(K, 7, 7))
  <2> DEFINE e == Step("route", "-", ps)
  <2>1. e.op = "route" /\ e.x = "-" /\ e.within = {} /\ e \in AStep
    BY StepIs DEF AStep, Step
  <2>2. Route(ps) = <<e>>
    BY DEF Route
  <2> HIDE DEF e, K
  <2>3. Pinned(e) /\ Fits(e, "enable", p) /\ At(e, 7)
    BY <2>1 DEF Pinned, Fits, At, Loose, Slack, CeDown, IsSet
  <2> QED
    BY <1>1, <2>1, <2>2, <2>3
<1>4. ASSUME NfceeCE(p) PROVE HciRegister \in Seq(Span(K, 7, 7))
  <2> DEFINE c == Step("on", "hci", "-")
             e == More(c, "HciRegister")
  <2>1. c \in AStep /\ "HciRegister" \in Around
    BY DEF Step, AStep, Around, Minor, Registrations
  <2>2. /\ Ignoring("HciRegister", <<c>>) = <<e>>
        /\ e.op = "on" /\ e.x = "hci" /\ e.within = {"HciRegister"} /\ e \in AStep
    BY <2>1, AloneIs
  <2>3. HciRegister = Ignoring("HciRegister", <<c>>)
    BY DEF HciRegister, On
  <2> HIDE DEF c, e, K
  <2>4. Pinned(e)
    BY <2>2 DEF Pinned, Loose, Slack, CeDown
  <2>5. Fits(e, "enable", p) /\ At(e, 7)
    BY <1>4, <2>2 DEF Fits, At, CeDown, IsSet
  <2> QED
    BY <1>1, <2>2, <2>3, <2>4, <2>5
<1> QED
  BY <1>2, <1>3, <1>4

LEMMA ProtocolsPart ==
  ASSUME NEW p
  PROVE  /\ Part(Set("protocols", {"ISO_DEP"}), Kind("enable", p), 7, 7)
         /\ HasSet(Set("protocols", {"ISO_DEP"}), "protocols", {"ISO_DEP"})
<1> DEFINE v == {"ISO_DEP"}
           e == Step("set", "protocols", v)
<1>1. v \in SUBSET {"ISO_DEP"} /\ v = {"ISO_DEP"} /\ 7 \in 1..13 /\ 7 # 4 /\ 7 <= 8
  OBVIOUS
<1> HIDE DEF v
<1>2. e \in AStep
  BY <1>1, SetFits
<1>3. At(e, 7)
  BY <1>1, SetFits
<1>4. Fits(e, "enable", p)
  BY <1>1, SetFits
<1>5. Part(Set("protocols", v), Kind("enable", p), 7, 7) /\ HasSet(Set("protocols", v), "protocols", v)
  BY <1>1, <1>2, <1>3, <1>4, SetPart
<1> QED
  BY <1>5 DEF v

LEMMA FelicaHandlePart ==
  ASSUME NEW p
  PROVE  /\ Part(Set("felicaHandle", TRUE), Kind("enable", p), 7, 7)
         /\ HasSet(Set("felicaHandle", TRUE), "felicaHandle", TRUE)
<1> DEFINE e == Step("set", "felicaHandle", TRUE)
<1>1. e.op = "set" /\ e.x = "felicaHandle" /\ e.to = TRUE /\ e.within = {}
  BY DEF Step
<1>2. Set("felicaHandle", TRUE) = <<e>>
  BY DEF Set
<1>3. e = Step("set", "felicaHandle", TRUE) /\ "felicaHandle" \in Flags /\ 7 \in 1..13 /\ 7 # 4
  BY DEF Flags
<1> HIDE DEF e
<1>4. At(e, 7)
  BY <1>1 DEF At
<1>5. Fits(e, "enable", p)
  BY <1>1 DEF Fits, IsSet, CeDown
<1>6. Part(<<e>>, Kind("enable", p), 7, 7) /\ HasSet(<<e>>, "felicaHandle", TRUE)
  BY <1>3, <1>4, <1>5, FlagPart
<1> QED
  BY <1>2, <1>6

LEMMA HcePart ==
  ASSUME NEW p
  PROVE  /\ Part(HceInit \o HceConfigure, Kind("enable", p), 7, 7)
         /\ Has(HceInit \o HceConfigure, "on", "ee")
         /\ HasSet(HceInit \o HceConfigure, "protocols", {"ISO_DEP"})
<1> DEFINE K == Kind("enable", p)
           c == Ignoring("SetConfig", Config)
           t == Set("protocols", {"ISO_DEP"})
           r == Route({"ISO_DEP"})
           d == c \o r
           q == d \o t
<1>1. HceInit \o HceConfigure = On("ee") \o q
  BY DEF HceInit, HceConfigure, HceConfigNciParams
<1>2. K \subseteq AStep /\ 7 \in 1..13 /\ 7 \notin Singular \cup {4}
  BY KindIn DEF Singular
<1>3. c \in Seq(Span(K, 7, 7))
  <2>1. 7 \in 1..10 /\ 7 # 4
    OBVIOUS
  <2>2. Part(c, K, 7, 7)
    BY <2>1, ConfigPart
  <2> QED
    BY <2>2 DEF Part
<1>4. r \in Seq(Span(K, 7, 7))
  BY EePieces
<1>5. t \in Seq(Span(K, 7, 7)) /\ HasSet(t, "protocols", {"ISO_DEP"})
  BY ProtocolsPart DEF Part
<1>6. WithEe(On("ee"), K, 7)
  BY OnEe
<1> HIDE DEF K, c, r, t
<1>7. d \in Seq(Span(K, 7, 7))
  BY <1>3, <1>4, Joined
<1> HIDE DEF d
<1>8. q \in Seq(Span(K, 7, 7)) /\ HasSet(q, "protocols", {"ISO_DEP"})
  <2>1. q \in Seq(Span(K, 7, 7))
    BY <1>5, <1>7, Joined
  <2>2. \A f, v : HasSet(q, f, v) <=> HasSet(d, f, v) \/ HasSet(t, f, v)
    BY <1>5, <1>7, HasJoin
  <2> QED
    BY <1>5, <2>1, <2>2
<1> HIDE DEF q
<1>9. /\ WithEe(On("ee") \o q, K, 7)
      /\ \A f, v : HasSet(On("ee") \o q, f, v) <=> HasSet(On("ee"), f, v) \/ HasSet(q, f, v)
  BY <1>2, <1>6, <1>8, WithEeThen
<1>10. Part(On("ee") \o q, K, 7, 7) /\ Has(On("ee") \o q, "on", "ee")
  BY <1>2, <1>9, WithEePart DEF WithEe
<1> QED
  BY <1>1, <1>8, <1>9, <1>10 DEF K

LEMMA HceFPart ==
  ASSUME NEW p, "hceF" \in p
  PROVE  /\ Part(HceFInit \o HceFConfigure, Kind("enable", p), 7, 7)
         /\ Has(HceFInit \o HceFConfigure, "on", "ee") /\ Has(HceFInit \o HceFConfigure, "on", "felica")
         /\ HasSet(HceFInit \o HceFConfigure, "felicaHandle", TRUE)
<1> DEFINE K == Kind("enable", p)
           o == On("felica")
           t == Set("felicaHandle", TRUE)
           r == Route({"T3T"})
           a == On("ee") \o o
           b == a \o t
           c == b \o r
<1>1. HceFInit \o HceFConfigure = c
  BY DEF HceFInit, HceFConfigure
<1>2. K \subseteq AStep /\ 7 \in 1..13 /\ 7 \notin Singular \cup {4}
  BY KindIn DEF Singular
<1>3. o \in Seq(Span(K, 7, 7)) /\ Has(o, "on", "felica")
  <2>1. "felica" \in Registrations /\ "felica" \notin {"hci", "disc", "aid", "ee"} /\ Wants(p, "felica") /\ 7 \in 5..11 /\ 7 <= 9
    BY DEF Registrations, Wants
  <2>2. Part(o, K, 7, 7) /\ Has(o, "on", "felica")
    BY <2>1, OnPart
  <2> QED
    BY <2>2 DEF Part
<1>4. r \in Seq(Span(K, 7, 7))
  BY EePieces
<1>5. t \in Seq(Span(K, 7, 7))
  BY FelicaHandlePart DEF Part
<1>6. HasSet(t, "felicaHandle", TRUE)
  BY FelicaHandlePart
<1>7. WithEe(On("ee"), K, 7)
  BY OnEe
<1> HIDE DEF K, o, r, t
<1>8. WithEe(a, K, 7) /\ Has(a, "on", "felica")
  <2>1. WithEe(a, K, 7) /\ \A op, x : Has(a, op, x) <=> Has(On("ee"), op, x) \/ Has(o, op, x)
    BY <1>2, <1>3, <1>7, WithEeThen
  <2> QED
    BY <1>3, <2>1
<1> HIDE DEF a
<1>9. WithEe(b, K, 7) /\ Has(b, "on", "felica") /\ \A f, v : HasSet(b, f, v) <=> HasSet(a, f, v) \/ HasSet(t, f, v)
  <2>1. /\ WithEe(b, K, 7) /\ \A op, x : Has(b, op, x) <=> Has(a, op, x) \/ Has(t, op, x)
        /\ \A f, v : HasSet(b, f, v) <=> HasSet(a, f, v) \/ HasSet(t, f, v)
    BY <1>2, <1>5, <1>8, WithEeThen
  <2> QED
    BY <1>8, <2>1
<1> HIDE DEF b
<1>10. WithEe(c, K, 7) /\ Has(c, "on", "felica") /\ \A f, v : HasSet(c, f, v) <=> HasSet(b, f, v) \/ HasSet(r, f, v)
  <2>1. /\ WithEe(c, K, 7) /\ \A op, x : Has(c, op, x) <=> Has(b, op, x) \/ Has(r, op, x)
        /\ \A f, v : HasSet(c, f, v) <=> HasSet(b, f, v) \/ HasSet(r, f, v)
    BY <1>2, <1>4, <1>9, WithEeThen
  <2> QED
    BY <1>9, <2>1
<1>11. HasSet(c, "felicaHandle", TRUE)
  <2> DEFINE y == TRUE
  <2>1. HasSet(t, "felicaHandle", y)
    BY <1>6
  <2> HIDE DEF y
  <2>2. HasSet(c, "felicaHandle", y)
    BY <1>9, <1>10, <2>1
  <2> QED
    BY <2>2 DEF y
<1>12. Part(c, K, 7, 7) /\ Has(c, "on", "ee")
  BY <1>2, <1>10, WithEePart DEF WithEe
<1> QED
  BY <1>1, <1>10, <1>11, <1>12 DEF K

LEMMA EePart ==
  ASSUME NEW p, NfceeCE(p)
  PROVE  Part(EeInit \o EeConfigure, Kind("enable", p), 7, 7) /\ Has(EeInit \o EeConfigure, "on", "ee")
<1> DEFINE K == Kind("enable", p)
           a == On("ee") \o EeRequest
           b == a \o HciRegister
           q == EeRequest \o EeRequest
           c == b \o q
<1>1. EeInit \o EeConfigure = c
  BY DEF EeInit, EeConfigure, EeGetInfo
<1>2. K \subseteq AStep /\ 7 \in 1..13 /\ 7 \notin Singular \cup {4}
  BY KindIn DEF Singular
<1>3. EeRequest \in Seq(Span(K, 7, 7)) /\ HciRegister \in Seq(Span(K, 7, 7))
  BY EePieces
<1>4. WithEe(On("ee"), K, 7)
  BY OnEe
<1> HIDE DEF K
<1>5. WithEe(a, K, 7)
  BY <1>2, <1>3, <1>4, WithEeThen
<1> HIDE DEF a
<1>6. WithEe(b, K, 7)
  BY <1>2, <1>3, <1>5, WithEeThen
<1> HIDE DEF b
<1>7. q \in Seq(Span(K, 7, 7))
  BY <1>3, Joined
<1> HIDE DEF q
<1>8. WithEe(c, K, 7)
  BY <1>2, <1>6, <1>7, WithEeThen
<1>9. Part(c, K, 7, 7) /\ Has(c, "on", "ee")
  BY <1>2, <1>8, WithEePart DEF WithEe
<1> QED
  BY <1>1, <1>9 DEF K

LEMMA CeConfigPart ==
  ASSUME NEW p
  PROVE  /\ Part(CeConfigure(p), Kind("enable", p), 7, 7)
         /\ Emulates(p) => Has(CeConfigure(p), "on", "ee")
         /\ "hceF" \in p => Has(CeConfigure(p), "on", "felica") /\ HasSet(CeConfigure(p), "felicaHandle", TRUE)
         /\ "hceA" \in p => HasSet(CeConfigure(p), "protocols", {"ISO_DEP"})
<1> DEFINE K == Kind("enable", p)
           h == HceInit \o HceConfigure
           f == HceFInit \o HceFConfigure
           e == EeInit \o EeConfigure
           ch == "hceA" \in p
           cf == "hceF" \in p
           cu == "uicc" \in p
           ce == "ese" \in p
           a == If(ch, h)
           b == If(cf, f)
           u == If(cu, e)
           v == If(ce, e)
           ab == a \o b
           abu == ab \o u
           w == abu \o v
<1>1. CeConfigure(p) = w
  BY DEF CeConfigure
<1>2. K \subseteq AStep /\ 7 \in Nat /\ 7 <= 7 /\ 7 \notin Singular
  BY KindIn DEF Singular
<1>3. ch \in BOOLEAN /\ cf \in BOOLEAN /\ cu \in BOOLEAN /\ ce \in BOOLEAN
  OBVIOUS
<1>4. Emulates(p) <=> ch \/ cf \/ cu \/ ce
  BY DEF Emulates, HostCE, NfceeCE
<1>5. Part(h, K, 7, 7) /\ Has(h, "on", "ee") /\ HasSet(h, "protocols", {"ISO_DEP"})
  BY HcePart
<1>6. cf => Part(f, K, 7, 7) /\ Has(f, "on", "ee") /\ Has(f, "on", "felica") /\ HasSet(f, "felicaHandle", TRUE)
  BY HceFPart
<1>7. cu \/ ce => Part(e, K, 7, 7) /\ Has(e, "on", "ee")
  BY EePart DEF NfceeCE
<1>8. (ch <=> "hceA" \in p) /\ (cf <=> "hceF" \in p)
  OBVIOUS
<1> HIDE DEF K, h, f, e, ch, cf, cu, ce
<1>9. /\ \A op, x : Has(a, op, x) <=> ch /\ Has(h, op, x)
      /\ \A g, y : HasSet(a, g, y) <=> ch /\ HasSet(h, g, y)
  BY <1>3, MaybeHas
<1>10. /\ \A op, x : Has(b, op, x) <=> cf /\ Has(f, op, x)
       /\ \A g, y : HasSet(b, g, y) <=> cf /\ HasSet(f, g, y)
  BY <1>3, MaybeHas
<1>11. /\ \A op, x : Has(u, op, x) <=> cu /\ Has(e, op, x)
       /\ \A op, x : Has(v, op, x) <=> ce /\ Has(e, op, x)
  BY <1>3, MaybeHas
<1>12. Part(a, K, 7, 7)
  BY <1>5, PartMaybe
<1>13. Part(b, K, 7, 7)
  BY <1>6, PartMaybe
<1>14. Part(u, K, 7, 7) /\ Part(v, K, 7, 7)
  BY <1>7, PartMaybe
<1> HIDE DEF a, b, u, v
<1>15. /\ Part(ab, K, 7, 7)
       /\ \A op, x : Has(ab, op, x) <=> Has(a, op, x) \/ Has(b, op, x)
       /\ \A g, y : HasSet(ab, g, y) <=> HasSet(a, g, y) \/ HasSet(b, g, y)
  <2>1. Part(ab, K, 7, 7)
    BY <1>2, <1>12, <1>13, PartThen
  <2>2. a \in Seq(AStep) /\ b \in Seq(AStep)
    BY <1>2, <1>12, <1>13, PartSeq
  <2> QED
    BY <2>1, <2>2, HasJoin
<1> HIDE DEF ab
<1>16. Part(u, K, 7, 7)
  BY <1>14
<1>17. /\ Part(abu, K, 7, 7)
       /\ \A op, x : Has(abu, op, x) <=> Has(ab, op, x) \/ Has(u, op, x)
       /\ \A g, y : HasSet(abu, g, y) <=> HasSet(ab, g, y) \/ HasSet(u, g, y)
  BY <1>2, <1>15, <1>16, PartThen
<1> HIDE DEF abu
<1>18. Part(v, K, 7, 7)
  BY <1>14
<1>19. /\ Part(w, K, 7, 7)
       /\ \A op, x : Has(w, op, x) <=> Has(abu, op, x) \/ Has(v, op, x)
       /\ \A g, y : HasSet(w, g, y) <=> HasSet(abu, g, y) \/ HasSet(v, g, y)
  BY <1>2, <1>17, <1>18, PartThen
<1> HIDE DEF w
<1>20. ch \/ cf \/ cu \/ ce => Has(w, "on", "ee")
  <2>1. ch => Has(a, "on", "ee")
    BY <1>5, <1>9
  <2>2. cf => Has(b, "on", "ee")
    BY <1>6, <1>10
  <2>3. (cu => Has(u, "on", "ee")) /\ (ce => Has(v, "on", "ee"))
    BY <1>7, <1>11
  <2> QED
    BY <2>1, <2>2, <2>3, <1>15, <1>17, <1>19
<1>21. cf => Has(w, "on", "felica")
  <2>1. cf => Has(b, "on", "felica")
    BY <1>6, <1>10
  <2> QED
    BY <2>1, <1>15, <1>17, <1>19
<1>22. cf => HasSet(w, "felicaHandle", TRUE)
  <2> DEFINE y == TRUE
  <2>1. cf => HasSet(f, "felicaHandle", y)
    BY <1>6
  <2> HIDE DEF y
  <2>2. cf => HasSet(w, "felicaHandle", y)
    BY <2>1, <1>10, <1>15, <1>17, <1>19
  <2> QED
    BY <2>2 DEF y
<1>23. ch => HasSet(w, "protocols", {"ISO_DEP"})
  BY <1>5, <1>9, <1>15, <1>17, <1>19
<1> QED
  BY <1>1, <1>4, <1>8, <1>19, <1>20, <1>21, <1>22, <1>23 DEF K

-----------------------------------------------------------------------------
(* Enabling a discovery.                                                   *)

(* What the discovery listens for.                                         *)
Listened == Techs \cup {"aid", "isoDepListen"}
Listening(p) ==
  { e \in AStep : /\ e.within \subseteq {"CeRegisterAID"}
                  /\ \/ e.op = "on" /\ e.x \in Listened /\ Wants(p, e.x)
                     \/ e.op = "off" /\ e.x = "isoDepListen" /\ "hceA" \notin p
                     \/ e.op = "config" /\ e.x = "-" }

LEMMA ListeningIn ==
  ASSUME NEW p, NEW name \in {"enable", "restart"}, NEW e \in Listening(p)
  PROVE  /\ More(e, "SetDiscoveryConfig") \in Span(Kind(name, p), 10, 10)
         /\ ~Uses(More(e, "SetDiscoveryConfig"), "ee")
<1>1. "SetDiscoveryConfig" \in Around /\ e \in AStep
  BY DEF Around, Minor, Listening
<1> DEFINE m == More(e, "SetDiscoveryConfig")
<1>2. m.op = e.op /\ m.x = e.x /\ m.within = e.within \cup {"SetDiscoveryConfig"} /\ m \in AStep
  BY <1>1, WithinMore, WithinMoreIn
<1>3. /\ m.within \subseteq {"CeRegisterAID", "SetDiscoveryConfig"}
      /\ \/ m.op = "on" /\ m.x \in Listened /\ Wants(p, m.x)
         \/ m.op = "off" /\ m.x = "isoDepListen" /\ "hceA" \notin p
         \/ m.op = "config" /\ m.x = "-"
  BY <1>2 DEF Listening
<1> HIDE DEF m
<1>4. m.within \cap Slack = {}
  BY <1>3 DEF Slack, CeDown
<1>5. m.within \cap CeDown = {}
  BY <1>3 DEF CeDown
<1>6. Pinned(m)
  BY <1>3, <1>4, <1>5 DEF Pinned, Loose, Listened, Techs
<1>7. Fits(m, name, p)
  BY <1>3, <1>5 DEF Fits, IsSet
<1>8. At(m, 10)
  BY <1>3 DEF At, Listened, Techs
<1>9. m \in Span(Kind(name, p), 10, 10)
  BY <1>2, <1>6, <1>7, <1>8 DEF Span, Kind
<1>10. ~Uses(m, "ee")
  BY <1>3 DEF Uses
<1> QED
  BY <1>9, <1>10 DEF m

LEMMA OnListening ==
  ASSUME NEW p
  PROVE  /\ \A x \in Techs : Wants(p, x) => On(x) \in Seq(Listening(p)) /\ Has(On(x), "on", x)
         /\ SetIsoDepListenTech(p) \in Seq(Listening(p))
         /\ Wants(p, "isoDepListen") => Has(SetIsoDepListenTech(p), "on", "isoDepListen")
         /\ ~Wants(p, "isoDepListen") => Has(SetIsoDepListenTech(p), "off", "isoDepListen")
         /\ HostCE(p) => CeRegisterAID \in Seq(Listening(p)) /\ Has(CeRegisterAID, "on", "aid")
         /\ Config \in Seq(Listening(p))
<1>1. ASSUME NEW x \in Techs, Wants(p, x) PROVE On(x) \in Seq(Listening(p)) /\ Has(On(x), "on", x)
  <2> DEFINE e == Step("on", x, "-")
  <2>1. e.op = "on" /\ e.x = x /\ e.within = {}
    BY StepIs
  <2>2. e \in AStep
    BY DEF Step, AStep, Techs, Registrations
  <2>3. On(x) = <<e>>
    BY DEF On
  <2> HIDE DEF e
  <2>4. e \in Listening(p)
    BY <1>1, <2>1, <2>2 DEF Listening, Listened
  <2> QED
    BY <2>1, <2>3, <2>4, HasOne
<1>2. ASSUME HostCE(p) PROVE CeRegisterAID \in Seq(Listening(p)) /\ Has(CeRegisterAID, "on", "aid")
  <2> DEFINE c == Step("on", "aid", "-")
             e == More(c, "CeRegisterAID")
  <2>1. c \in AStep /\ "CeRegisterAID" \in Around
    BY DEF Step, AStep, Around, Minor, Registrations
  <2>2. /\ Ignoring("CeRegisterAID", <<c>>) = <<e>>
        /\ e.op = "on" /\ e.x = "aid" /\ e.within = {"CeRegisterAID"} /\ e \in AStep
    BY <2>1, AloneIs
  <2>3. CeRegisterAID = Ignoring("CeRegisterAID", <<c>>)
    BY DEF CeRegisterAID, On
  <2> HIDE DEF c, e
  <2>4. e \in Listening(p)
    BY <1>2, <2>2 DEF Listening, Listened, Wants
  <2>5. CeRegisterAID = <<e>>
    BY <2>2, <2>3
  <2>6. Has(<<e>>, "on", "aid")
    BY <2>2, HasOne
  <2> QED
    BY <2>4, <2>5, <2>6
<1>3. Config \in Seq(Listening(p))
  <2> DEFINE e == Step("config", "-", "-")
  <2>1. e.op = "config" /\ e.x = "-" /\ e.within = {}
    BY StepIs
  <2>2. e \in AStep
    BY DEF Step, AStep
  <2>3. Config = <<e>>
    BY DEF Config
  <2> HIDE DEF e
  <2>4. e \in Listening(p)
    BY <2>1, <2>2 DEF Listening
  <2> QED
    BY <2>3, <2>4
<1>4. /\ SetIsoDepListenTech(p) \in Seq(Listening(p))
      /\ Wants(p, "isoDepListen") => Has(SetIsoDepListenTech(p), "on", "isoDepListen")
      /\ ~Wants(p, "isoDepListen") => Has(SetIsoDepListenTech(p), "off", "isoDepListen")
  <2> DEFINE o == IF "hceA" \in p THEN "on" ELSE "off"
             e == Step(o, "isoDepListen", "-")
  <2>1. e.op = o /\ e.x = "isoDepListen" /\ e.within = {}
    BY StepIs
  <2>2. e \in AStep
    BY DEF Step, AStep, Registrations
  <2>3. SetIsoDepListenTech(p) = <<e>>
    BY DEF SetIsoDepListenTech
  <2>4. Wants(p, "isoDepListen") <=> "hceA" \in p
    BY DEF Wants, LlcpEnds
  <2>5. (o = "on" /\ "hceA" \in p) \/ (o = "off" /\ "hceA" \notin p)
    OBVIOUS
  <2> HIDE DEF e, o
  <2>6. e \in Listening(p)
    BY <2>1, <2>2, <2>4, <2>5 DEF Listening, Listened
  <2>7. Has(<<e>>, o, "isoDepListen")
    BY <2>1, <2>2, HasOne
  <2> QED
    BY <2>3, <2>4, <2>5, <2>6, <2>7
<1> QED
  BY <1>1, <1>2, <1>3, <1>4

(* A sequence of steps of S that there may be, and what it has.            *)
LEMMA MaybeSeq ==
  ASSUME NEW S, NEW c \in BOOLEAN, NEW p, c => p \in Seq(S)
  PROVE  If(c, p) \in Seq(S) /\ \A op, x : Has(If(c, p), op, x) <=> c /\ Has(p, op, x)
BY Maybe, MaybeHas

LEMMA ListenSteps ==
  ASSUME NEW p, NEW L,
         L = If(ListensP2p(p), On("p2pListen")) \o If("uicc" \in p, On("uiccListen"))
               \o If("ese" \in p, On("eseListen"))
               \o If(HostCE(p), SetIsoDepListenTech(p) \o CeRegisterAID)
               \o On("listen"),
         Listens(p)
  PROVE  /\ L \in Seq(Listening(p))
         /\ \A x \in Listened \ {"poll"} : Wants(p, x) => Has(L, "on", x)
         /\ HostCE(p) /\ ~Wants(p, "isoDepListen") => Has(L, "off", "isoDepListen")
<1> DEFINE S == Listening(p)
           c2 == ListensP2p(p)
           iso == Wants(p, "isoDepListen")
           t == SetIsoDepListenTech(p)
           cu == "uicc" \in p
           ce == "ese" \in p
           ch == HostCE(p)
           g == t \o CeRegisterAID
           a == If(c2, On("p2pListen"))
           b == If(cu, On("uiccListen"))
           c == If(ce, On("eseListen"))
           d == If(ch, g)
           l == On("listen")
           ab == a \o b
           abc == ab \o c
           abcd == abc \o d
           w == abcd \o l
<1>1. L = w
  OBVIOUS
<1>2. c2 \in BOOLEAN /\ cu \in BOOLEAN /\ ce \in BOOLEAN /\ ch \in BOOLEAN
  BY DEF HostCE, ListensP2p, Listens
<1>3. /\ Wants(p, "p2pListen") <=> c2
      /\ Wants(p, "uiccListen") <=> cu
      /\ Wants(p, "eseListen") <=> ce
      /\ Wants(p, "listen")
      /\ Wants(p, "aid") <=> ch
      /\ Wants(p, "isoDepListen") <=> iso
      /\ iso => ch
  BY DEF Wants, LlcpEnds, HostCE
<1>4. /\ c2 => On("p2pListen") \in Seq(S) /\ Has(On("p2pListen"), "on", "p2pListen")
      /\ cu => On("uiccListen") \in Seq(S) /\ Has(On("uiccListen"), "on", "uiccListen")
      /\ ce => On("eseListen") \in Seq(S) /\ Has(On("eseListen"), "on", "eseListen")
      /\ l \in Seq(S) /\ Has(l, "on", "listen")
      /\ ch => CeRegisterAID \in Seq(S) /\ Has(CeRegisterAID, "on", "aid")
      /\ t \in Seq(S)
      /\ iso => Has(t, "on", "isoDepListen")
      /\ ~iso => Has(t, "off", "isoDepListen")
  BY <1>3, OnListening DEF Techs
<1> HIDE DEF S, c2, cu, ce, ch, l, t, iso
<1>5. /\ ch => g \in Seq(S) /\ Has(g, "on", "aid")
      /\ ch /\ iso => Has(g, "on", "isoDepListen")
      /\ ch /\ ~iso => Has(g, "off", "isoDepListen")
  BY <1>4, Joined, HasJoin
<1> HIDE DEF g
<1>6. a \in Seq(S) /\ \A op, x : Has(a, op, x) <=> c2 /\ Has(On("p2pListen"), op, x)
  BY <1>2, <1>4, MaybeSeq
<1>7. b \in Seq(S) /\ \A op, x : Has(b, op, x) <=> cu /\ Has(On("uiccListen"), op, x)
  BY <1>2, <1>4, MaybeSeq
<1>8. c \in Seq(S) /\ \A op, x : Has(c, op, x) <=> ce /\ Has(On("eseListen"), op, x)
  BY <1>2, <1>4, MaybeSeq
<1>9. d \in Seq(S) /\ \A op, x : Has(d, op, x) <=> ch /\ Has(g, op, x)
  BY <1>2, <1>5, MaybeSeq
<1> HIDE DEF a, b, c, d
<1>10. ab \in Seq(S) /\ \A op, x : Has(ab, op, x) <=> Has(a, op, x) \/ Has(b, op, x)
  BY <1>6, <1>7, Joined, HasJoin
<1> HIDE DEF ab
<1>11. abc \in Seq(S) /\ \A op, x : Has(abc, op, x) <=> Has(ab, op, x) \/ Has(c, op, x)
  BY <1>8, <1>10, Joined, HasJoin
<1> HIDE DEF abc
<1>12. abcd \in Seq(S) /\ \A op, x : Has(abcd, op, x) <=> Has(abc, op, x) \/ Has(d, op, x)
  BY <1>9, <1>11, Joined, HasJoin
<1> HIDE DEF abcd
<1>13. w \in Seq(S) /\ \A op, x : Has(w, op, x) <=> Has(abcd, op, x) \/ Has(l, op, x)
  BY <1>4, <1>12, Joined, HasJoin
<1> HIDE DEF w
<1>14. /\ c2 => Has(w, "on", "p2pListen")
       /\ cu => Has(w, "on", "uiccListen")
       /\ ce => Has(w, "on", "eseListen")
       /\ Has(w, "on", "listen")
       /\ ch => Has(w, "on", "aid")
       /\ ch /\ iso => Has(w, "on", "isoDepListen")
       /\ ch /\ ~iso => Has(w, "off", "isoDepListen")
  BY <1>4, <1>5, <1>6, <1>7, <1>8, <1>9, <1>10, <1>11, <1>12, <1>13
<1>15. \A x \in Listened \ {"poll"} : Wants(p, x) => Has(w, "on", x)
  BY <1>3, <1>14 DEF Techs, Listened
<1> QED
  BY <1>1, <1>3, <1>13, <1>14, <1>15 DEF S, ch

LEMMA SetDiscoveryPart ==
  ASSUME NEW p, NEW name \in {"enable", "restart"}
  PROVE  /\ Part(SetDiscoveryConfig(p), Kind(name, p), 10, 10)
         /\ \A x \in Listened : Wants(p, x) => Has(SetDiscoveryConfig(p), "on", x)
         /\ HostCE(p) /\ ~Wants(p, "isoDepListen") => Has(SetDiscoveryConfig(p), "off", "isoDepListen")
<1> DEFINE S == Listening(p)
           K == Kind(name, p)
           cp == "poll" \in p
           cl == Listens(p)
           cn == HostCE(p) /\ ~Wants(p, "isoDepListen")
           L == If(ListensP2p(p), On("p2pListen")) \o If("uicc" \in p, On("uiccListen"))
                  \o If("ese" \in p, On("eseListen"))
                  \o If(HostCE(p), SetIsoDepListenTech(p) \o CeRegisterAID)
                  \o On("listen")
           a == If(cp, On("poll"))
           b == If(cl, L)
           ab == a \o b
           w == ab \o Config
           T == { e \in Span(K, 10, 10) : ~Uses(e, "ee") }
           i == Ignoring("SetDiscoveryConfig", w)
<1>1. SetDiscoveryConfig(p) = i
  BY DEF SetDiscoveryConfig
<1>2. cp \in BOOLEAN /\ cl \in BOOLEAN
  BY DEF Listens
<1>3. /\ Wants(p, "poll") <=> cp
      /\ \A x \in Listened \ {"poll"} : Wants(p, x) => cl
      /\ cn => cl
  BY DEF Wants, Techs, Listened, LlcpEnds, Listens, ListensP2p, HostCE
<1>4. /\ cp => On("poll") \in Seq(S) /\ Has(On("poll"), "on", "poll")
      /\ Config \in Seq(S)
  BY <1>3, OnListening DEF Techs
<1>5. cl => /\ L \in Seq(S)
            /\ \A x \in Listened \ {"poll"} : Wants(p, x) => Has(L, "on", x)
            /\ cn => Has(L, "off", "isoDepListen")
  BY ListenSteps
<1>6. \A e \in S : More(e, "SetDiscoveryConfig") \in T
  BY ListeningIn
<1>7. K \subseteq AStep /\ S \subseteq AStep
  BY KindIn DEF Listening
<1>8. \A e \in T : ~Uses(e, "ee")
  OBVIOUS
<1>9. T \subseteq Span(K, 10, 10)
  OBVIOUS
<1> HIDE DEF S, K, cp, cl, cn, L, T
<1>10. a \in Seq(S) /\ \A op, x : Has(a, op, x) <=> cp /\ Has(On("poll"), op, x)
  BY <1>2, <1>4, MaybeSeq
<1>11. b \in Seq(S) /\ \A op, x : Has(b, op, x) <=> cl /\ Has(L, op, x)
  BY <1>2, <1>5, MaybeSeq
<1> HIDE DEF a, b
<1>12. ab \in Seq(S) /\ \A op, x : Has(ab, op, x) <=> Has(a, op, x) \/ Has(b, op, x)
  BY <1>10, <1>11, Joined, HasJoin
<1> HIDE DEF ab
<1>13. w \in Seq(S) /\ \A op, x : Has(w, op, x) <=> Has(ab, op, x) \/ Has(Config, op, x)
  BY <1>4, <1>12, Joined, HasJoin
<1> HIDE DEF w
<1>14. \A x \in Listened : Wants(p, x) => Has(w, "on", x)
  <2> SUFFICES ASSUME NEW x \in Listened, Wants(p, x) PROVE Has(w, "on", x)
    OBVIOUS
  <2>1. CASE x = "poll"
    BY <1>3, <1>4, <1>10, <1>12, <1>13, <2>1
  <2>2. CASE x # "poll"
    BY <1>3, <1>5, <1>11, <1>12, <1>13, <2>2
  <2> QED
    BY <2>1, <2>2
<1>15. i \in Seq(T)
  BY <1>6, <1>7, <1>13, IgnoringIs
<1>16. w \in Seq(AStep)
  BY <1>7, <1>13, SeqIn
<1>17. \A op, x : Has(i, op, x) <=> Has(w, op, x)
  BY <1>16, IgnoringSame
<1> HIDE DEF i
<1>18. i \in Seq(Span(K, 10, 10)) /\ \A n \in 1..Len(i) : i[n] \in T
  BY <1>9, <1>15, SeqIn
<1>19. \A n \in 1..Len(i) : ~Uses(i[n], "ee")
  BY <1>8, <1>18
<1>20. 10 \in 1..13 /\ 10 \notin Singular \cup {4}
  BY DEF Singular
<1>21. Part(i, K, 10, 10)
  BY <1>7, <1>18, <1>19, <1>20, PartFree
<1>22. cn => Has(w, "off", "isoDepListen")
  BY <1>3, <1>5, <1>11, <1>12, <1>13
<1> QED
  BY <1>1, <1>14, <1>17, <1>21, <1>22 DEF K, cn

-----------------------------------------------------------------------------
(* Enabling the discovery in the middleware.                               *)
LEMMA EnabledPieces ==
  ASSUME NEW p \in Tests, NEW name \in {"enable", "restart"}
  PROVE  /\ Part(SetDtaMode, Kind(name, p), 8, 8) /\ Has(SetDtaMode, "mode", "-")
         /\ Part(P2pRoutingConfigure, Kind(name, p), 9, 9) /\ Has(P2pRoutingConfigure, "routeP2p", "-")
         /\ Part(RoutingUpdate, Kind(name, p), 9, 9)
         /\ Part(Set("disc", p), Kind(name, p), 9, 9) /\ HasSet(Set("disc", p), "disc", p)
         /\ Part(DiscoveryStart, Kind(name, p), 11, 11) /\ Has(DiscoveryStart, "on", "disc")
         /\ Part(Set("idle", FALSE), Kind(name, p), 12, 12) /\ HasSet(Set("idle", FALSE), "idle", FALSE)
<1>1. Part(SetDtaMode, Kind(name, p), 8, 8) /\ Has(SetDtaMode, "mode", "-")
  <2> DEFINE e == Step("mode", "-", "-")
  <2>1. e.op = "mode" /\ e.x = "-" /\ e.within = {}
    BY StepIs
  <2>2. e \in AStep
    BY DEF Step, AStep
  <2>3. SetDtaMode = <<e>>
    BY DEF SetDtaMode
  <2> HIDE DEF e
  <2>4. Pinned(e) /\ Fits(e, name, p) /\ At(e, 8)
    BY <2>1 DEF Pinned, Fits, At, Loose, Slack, CeDown, IsSet
  <2>5. e.op \notin {"ee", "route"} /\ 8 \in 1..13 /\ 8 # 4
    BY <2>1
  <2>6. Part(<<e>>, Kind(name, p), 8, 8) /\ Has(<<e>>, e.op, e.x)
    BY <2>2, <2>4, <2>5, PartStep
  <2> QED
    BY <2>1, <2>3, <2>6
<1>2. Part(P2pRoutingConfigure, Kind(name, p), 9, 9) /\ Has(P2pRoutingConfigure, "routeP2p", "-")
  <2> DEFINE c == Step("routeP2p", "-", "-")
             e == More(c, "P2pRoutingConfigure")
  <2>1. c \in AStep /\ "P2pRoutingConfigure" \in Around
    BY DEF Step, AStep, Around, Minor
  <2>2. /\ Ignoring("P2pRoutingConfigure", <<c>>) = <<e>>
        /\ e.op = "routeP2p" /\ e.x = "-" /\ e.within = {"P2pRoutingConfigure"} /\ e \in AStep
    BY <2>1, AloneIs
  <2>3. P2pRoutingConfigure = Ignoring("P2pRoutingConfigure", <<c>>)
    BY DEF P2pRoutingConfigure
  <2> HIDE DEF c, e
  <2>4. Pinned(e) /\ Fits(e, name, p) /\ At(e, 9)
    BY <2>2 DEF Pinned, Fits, At, Loose, Slack, CeDown, IsSet
  <2>5. e.op \notin {"ee", "route"} /\ 9 \in 1..13 /\ 9 # 4
    BY <2>2
  <2>6. Part(<<e>>, Kind(name, p), 9, 9) /\ Has(<<e>>, e.op, e.x)
    BY <2>2, <2>4, <2>5, PartStep
  <2>7. P2pRoutingConfigure = <<e>>
    BY <2>2, <2>3
  <2> QED
    BY <2>2, <2>6, <2>7
<1>3. Part(RoutingUpdate, Kind(name, p), 9, 9)
  <2> DEFINE c == Step("ee", "-", "-")
             e == More(c, "RoutingUpdate")
  <2>1. c \in AStep /\ "RoutingUpdate" \in Around
    BY DEF Step, AStep, Around, Minor
  <2>2. /\ Ignoring("RoutingUpdate", <<c>>) = <<e>>
        /\ e.op = "ee" /\ e.x = "-" /\ e.within = {"RoutingUpdate"} /\ e \in AStep
    BY <2>1, AloneIs
  <2>3. RoutingUpdate = Ignoring("RoutingUpdate", <<c>>)
    BY DEF RoutingUpdate, EeRequest
  <2> HIDE DEF c, e
  <2>4. Pinned(e) /\ Fits(e, name, p) /\ At(e, 9)
    BY <2>2 DEF Pinned, Fits, At, Loose, Slack, CeDown, IsSet
  <2>5. "RoutingUpdate" \in e.within /\ 9 \in 1..13 /\ 9 # 4
    BY <2>2
  <2>6. Part(<<e>>, Kind(name, p), 9, 9)
    BY <2>2, <2>4, <2>5, PartStep
  <2>7. RoutingUpdate = <<e>>
    BY <2>2, <2>3
  <2> QED
    BY <2>6, <2>7
<1>4. Part(Set("disc", p), Kind(name, p), 9, 9) /\ HasSet(Set("disc", p), "disc", p)
  <2>1. 9 \in 1..10 /\ 9 # 4
    OBVIOUS
  <2> QED
    BY <2>1, CopyPart
<1>5. Part(DiscoveryStart, Kind(name, p), 11, 11) /\ Has(DiscoveryStart, "on", "disc")
  <2>1. "disc" \in Registrations /\ 11 \in 5..11
    BY DEF Registrations
  <2> QED
    BY <2>1, OnPart DEF DiscoveryStart
<1>6. Part(Set("idle", FALSE), Kind(name, p), 12, 12) /\ HasSet(Set("idle", FALSE), "idle", FALSE)
  <2> DEFINE e == Step("set", "idle", FALSE)
  <2>1. e.op = "set" /\ e.x = "idle" /\ e.to = FALSE /\ e.within = {}
    BY DEF Step
  <2>2. e \in AStep
    BY DEF Step, AStep, Flags
  <2>3. Set("idle", FALSE) = <<e>>
    BY DEF Set
  <2> HIDE DEF e
  <2>4. Pinned(e) /\ Fits(e, name, p) /\ At(e, 12)
    BY <2>1 DEF Pinned, Fits, At, Loose, Slack, CeDown, IsSet
  <2>5. e.op \notin {"ee", "route"} /\ 12 \in 1..13 /\ 12 # 4
    BY <2>1
  <2>6. /\ Part(<<e>>, Kind(name, p), 12, 12)
        /\ \A f, v : HasSet(<<e>>, f, v) <=> IsSet(e, f) /\ e.to = v
    BY <2>2, <2>4, <2>5, PartStep
  <2>7. IsSet(e, "idle") /\ e.to = e.to
    BY <2>1 DEF IsSet
  <2>8. HasSet(<<e>>, "idle", e.to)
    BY <2>6, <2>7
  <2> QED
    BY <2>1, <2>3, <2>6, <2>8
<1> QED
  BY <1>1, <1>2, <1>3, <1>4, <1>5, <1>6

LEMMA MwEnablePart ==
  ASSUME NEW p \in Tests, NEW name \in {"enable", "restart"}
  PROVE  /\ Part(MwEnableDiscovery(p), Kind(name, p), 8, 12)
         /\ Has(MwEnableDiscovery(p), "mode", "-") /\ Has(MwEnableDiscovery(p), "on", "disc")
         /\ "p2p" \in p => Has(MwEnableDiscovery(p), "routeP2p", "-")
         /\ HasSet(MwEnableDiscovery(p), "disc", p) /\ HasSet(MwEnableDiscovery(p), "idle", FALSE)
         /\ \A x \in Listened : Wants(p, x) => Has(MwEnableDiscovery(p), "on", x)
         /\ HostCE(p) /\ ~Wants(p, "isoDepListen") => Has(MwEnableDiscovery(p), "off", "isoDepListen")
<1> DEFINE K == Kind(name, p)
           c2 == "p2p" \in p
           r == P2pRoutingConfigure
           t == Set("disc", p)
           s == SetDiscoveryConfig(p)
           o == DiscoveryStart
           i == Set("idle", FALSE)
           b == If(c2, r)
           c == SetDtaMode \o b
           d == c \o RoutingUpdate
           e == d \o t
           f == e \o s
           g == f \o o
           w == g \o i
<1>1. MwEnableDiscovery(p) = w
  BY DEF MwEnableDiscovery
<1>2. K \subseteq AStep
  BY KindIn
<1>3. c2 \in BOOLEAN /\ (c2 <=> "p2p" \in p)
  OBVIOUS
<1>4. Part(SetDtaMode, K, 8, 8) /\ Has(SetDtaMode, "mode", "-")
  BY EnabledPieces
<1>5. Part(r, K, 9, 9) /\ Has(r, "routeP2p", "-")
  BY EnabledPieces
<1>6. Part(RoutingUpdate, K, 9, 9)
  BY EnabledPieces
<1>7. Part(t, K, 9, 9) /\ HasSet(t, "disc", p)
  BY EnabledPieces
<1>8. /\ Part(s, K, 10, 10)
      /\ \A x \in Listened : Wants(p, x) => Has(s, "on", x)
      /\ HostCE(p) /\ ~Wants(p, "isoDepListen") => Has(s, "off", "isoDepListen")
  BY SetDiscoveryPart
<1>9. Part(o, K, 11, 11) /\ Has(o, "on", "disc")
  BY EnabledPieces
<1>10. Part(i, K, 12, 12) /\ HasSet(i, "idle", FALSE)
  BY EnabledPieces
<1>11. /\ 8 \in Nat /\ 9 \in Nat /\ 10 \in Nat /\ 11 \in Nat /\ 12 \in Nat /\ 9 \notin Singular
       /\ 8 < 9 /\ 8 <= 9 /\ 9 < 10 /\ 8 <= 10 /\ 9 <= 10 /\ 10 < 11 /\ 8 <= 11 /\ 10 <= 11
       /\ 11 < 12 /\ 8 <= 12 /\ 11 <= 12
  BY DEF Singular
<1> HIDE DEF K, c2, r, t, s, o, i
<1>12. Part(b, K, 9, 9) /\ \A op, x : Has(b, op, x) <=> c2 /\ Has(r, op, x)
  BY <1>3, <1>5, PartMaybe, MaybeHas
<1> HIDE DEF b
<1>13. /\ Part(c, K, 8, 9)
       /\ \A op, x : Has(c, op, x) <=> Has(SetDtaMode, op, x) \/ Has(b, op, x)
       /\ \A h, v : HasSet(c, h, v) <=> HasSet(SetDtaMode, h, v) \/ HasSet(b, h, v)
  BY <1>2, <1>4, <1>11, <1>12, PartJoin
<1> HIDE DEF c
<1>14. /\ Part(d, K, 8, 9)
       /\ \A op, x : Has(d, op, x) <=> Has(c, op, x) \/ Has(RoutingUpdate, op, x)
       /\ \A h, v : HasSet(d, h, v) <=> HasSet(c, h, v) \/ HasSet(RoutingUpdate, h, v)
  BY <1>2, <1>6, <1>11, <1>13, PartThen
<1> HIDE DEF d
<1>15. /\ Part(e, K, 8, 9)
       /\ \A op, x : Has(e, op, x) <=> Has(d, op, x) \/ Has(t, op, x)
       /\ \A h, v : HasSet(e, h, v) <=> HasSet(d, h, v) \/ HasSet(t, h, v)
  BY <1>2, <1>7, <1>11, <1>14, PartThen
<1> HIDE DEF e
<1>16. /\ Part(f, K, 8, 10)
       /\ \A op, x : Has(f, op, x) <=> Has(e, op, x) \/ Has(s, op, x)
       /\ \A h, v : HasSet(f, h, v) <=> HasSet(e, h, v) \/ HasSet(s, h, v)
  BY <1>2, <1>8, <1>11, <1>15, PartJoin
<1> HIDE DEF f
<1>17. /\ Part(g, K, 8, 11)
       /\ \A op, x : Has(g, op, x) <=> Has(f, op, x) \/ Has(o, op, x)
       /\ \A h, v : HasSet(g, h, v) <=> HasSet(f, h, v) \/ HasSet(o, h, v)
  BY <1>2, <1>9, <1>11, <1>16, PartJoin
<1> HIDE DEF g
<1>18. /\ Part(w, K, 8, 12)
       /\ \A op, x : Has(w, op, x) <=> Has(g, op, x) \/ Has(i, op, x)
       /\ \A h, v : HasSet(w, h, v) <=> HasSet(g, h, v) \/ HasSet(i, h, v)
  BY <1>2, <1>10, <1>11, <1>17, PartJoin
<1> HIDE DEF w
<1>19. Has(w, "mode", "-") /\ Has(w, "on", "disc")
  BY <1>4, <1>9, <1>13, <1>14, <1>15, <1>16, <1>17, <1>18
<1>20. c2 => Has(w, "routeP2p", "-")
  BY <1>5, <1>12, <1>13, <1>14, <1>15, <1>16, <1>17, <1>18
<1>21. HasSet(w, "disc", p)
  BY <1>7, <1>15, <1>16, <1>17, <1>18
<1>22. HasSet(w, "idle", FALSE)
  <2> DEFINE y == FALSE
  <2>1. HasSet(i, "idle", y)
    BY <1>10
  <2> HIDE DEF y
  <2>2. HasSet(w, "idle", y)
    BY <2>1, <1>18
  <2> QED
    BY <2>2 DEF y
<1>23. /\ \A x \in Listened : Wants(p, x) => Has(w, "on", x)
       /\ HostCE(p) /\ ~Wants(p, "isoDepListen") => Has(w, "off", "isoDepListen")
  BY <1>8, <1>16, <1>17, <1>18
<1> QED
  BY <1>1, <1>3, <1>18, <1>19, <1>20, <1>21, <1>22, <1>23 DEF K

-----------------------------------------------------------------------------
(* Disabling a discovery.                                                  *)

(* The AID goes with the configuration of the discovery.                   *)
ResetsAid(s) == \E i \in 1..Len(s) : s[i].op = "off" /\ s[i].x = "aid" /\ "ResetDiscoveryConfig" \in s[i].within

LEMMA CatResets ==
  ASSUME NEW S, NEW p \in Seq(S), NEW q \in Seq(S)
  PROVE  ResetsAid(p \o q) <=> ResetsAid(p) \/ ResetsAid(q)
<1> DEFINE R(e) == e.op = "off" /\ e.x = "aid" /\ "ResetDiscoveryConfig" \in e.within
           w == p \o q
<1>1. /\ \A i \in 1..Len(p) : w[i] = p[i] /\ i \in 1..Len(w)
      /\ \A i \in 1..Len(q) : w[Len(p) + i] = q[i] /\ Len(p) + i \in 1..Len(w)
      /\ \A i \in 1..Len(w) :
           \/ i \in 1..Len(p) /\ w[i] = p[i]
           \/ i - Len(p) \in 1..Len(q) /\ w[i] = q[i - Len(p)]
  BY CatIs
<1>2. ResetsAid(p) <=> \E i \in 1..Len(p) : R(p[i])
  BY DEF ResetsAid
<1>3. ResetsAid(q) <=> \E i \in 1..Len(q) : R(q[i])
  BY DEF ResetsAid
<1>4. ResetsAid(w) <=> \E i \in 1..Len(w) : R(w[i])
  BY DEF ResetsAid
<1> HIDE DEF R, w
<1>5. (\E i \in 1..Len(w) : R(w[i])) => (\E i \in 1..Len(p) : R(p[i])) \/ (\E i \in 1..Len(q) : R(q[i]))
  BY <1>1
<1>6. (\E i \in 1..Len(p) : R(p[i])) => (\E i \in 1..Len(w) : R(w[i]))
  BY <1>1
<1>7. (\E i \in 1..Len(q) : R(q[i])) => (\E i \in 1..Len(w) : R(w[i]))
  <2> SUFFICES ASSUME NEW i \in 1..Len(q), R(q[i]) PROVE \E j \in 1..Len(w) : R(w[j])
    OBVIOUS
  <2>1. w[Len(p) + i] = q[i] /\ Len(p) + i \in 1..Len(w)
    BY <1>1
  <2> QED
    BY <2>1
<1> QED
  BY <1>2, <1>3, <1>4, <1>5, <1>6, <1>7 DEF w

TechsOff == { e \in AStep : e.op = "off" /\ e.x \in Techs /\ e.within = {} }

LEMMA TechsOffIn ==
  ASSUME NEW p, NEW name \in {"disable", "restart"}, NEW e \in TechsOff
  PROVE  /\ More(e, "ResetDiscoveryConfig") \in Span(Kind(name, p), 2, 2)
         /\ ~Uses(More(e, "ResetDiscoveryConfig"), "ee")
<1>1. "ResetDiscoveryConfig" \in Around /\ e \in AStep
  BY DEF Around, Minor, TechsOff
<1> DEFINE m == More(e, "ResetDiscoveryConfig")
<1>2. m.op = e.op /\ m.x = e.x /\ m.within = e.within \cup {"ResetDiscoveryConfig"} /\ m \in AStep
  BY <1>1, WithinMore, WithinMoreIn
<1>3. m.within = {"ResetDiscoveryConfig"} /\ m.op = "off" /\ m.x \in Techs
  BY <1>2 DEF TechsOff
<1> HIDE DEF m
<1>4. Pinned(m)
  BY <1>3 DEF Pinned, Loose, Techs, Slack, CeDown
<1>5. Fits(m, name, p)
  BY <1>3 DEF Fits, IsSet, CeDown
<1>6. At(m, 2)
  BY <1>3 DEF At, Techs
<1>7. m \in Span(Kind(name, p), 2, 2)
  BY <1>2, <1>4, <1>5, <1>6 DEF Span, Kind
<1>8. ~Uses(m, "ee")
  BY <1>3 DEF Uses
<1> QED
  BY <1>7, <1>8 DEF m

LEMMA OffTech ==
  ASSUME NEW x \in Techs
  PROVE  Off(x) \in Seq(TechsOff) /\ Has(Off(x), "off", x)
<1> DEFINE e == Step("off", x, "-")
<1>1. e.op = "off" /\ e.x = x /\ e.within = {}
  BY StepIs
<1>2. e \in AStep
  BY DEF Step, AStep, Techs, Registrations
<1>3. Off(x) = <<e>>
  BY DEF Off
<1> HIDE DEF e
<1>4. e \in TechsOff
  BY <1>1, <1>2 DEF TechsOff
<1> QED
  BY <1>1, <1>3, <1>4, HasOne

(* The technologies of the last discovery that are undone with it.         *)
Undone(disc, x) == Wants(disc, x) /\ (x = "p2pListen" => "p2p" \in disc)
TechsReset(disc) ==
  Off("poll") \o Off("listen") \o If("p2p" \in disc, Off("p2pListen"))
    \o If("uicc" \in disc, Off("uiccListen")) \o If("ese" \in disc, Off("eseListen"))

LEMMA TechsResetSteps ==
  ASSUME NEW disc
  PROVE  TechsReset(disc) \in Seq(TechsOff) /\ \A x \in Techs : Undone(disc, x) => Has(TechsReset(disc), "off", x)
<1> DEFINE S == TechsOff
           c2 == "p2p" \in disc
           cu == "uicc" \in disc
           ce == "ese" \in disc
           o == Off("poll")
           l == Off("listen")
           a == If(c2, Off("p2pListen"))
           b == If(cu, Off("uiccListen"))
           c == If(ce, Off("eseListen"))
           ol == o \o l
           ola == ol \o a
           olab == ola \o b
           w == olab \o c
<1>1. TechsReset(disc) = w
  BY DEF TechsReset
<1>2. c2 \in BOOLEAN /\ cu \in BOOLEAN /\ ce \in BOOLEAN
  OBVIOUS
<1>3. /\ Undone(disc, "p2pListen") => c2
      /\ Undone(disc, "uiccListen") => cu
      /\ Undone(disc, "eseListen") => ce
  BY DEF Undone, Wants, LlcpEnds
<1>4. /\ Off("p2pListen") \in Seq(S) /\ Has(Off("p2pListen"), "off", "p2pListen")
      /\ Off("uiccListen") \in Seq(S) /\ Has(Off("uiccListen"), "off", "uiccListen")
      /\ Off("eseListen") \in Seq(S) /\ Has(Off("eseListen"), "off", "eseListen")
      /\ o \in Seq(S) /\ Has(o, "off", "poll")
      /\ l \in Seq(S) /\ Has(l, "off", "listen")
  BY OffTech DEF Techs
<1> HIDE DEF S, c2, cu, ce, o, l
<1>6. a \in Seq(S) /\ \A op, x : Has(a, op, x) <=> c2 /\ Has(Off("p2pListen"), op, x)
  BY <1>2, <1>4, MaybeSeq
<1>7. b \in Seq(S) /\ \A op, x : Has(b, op, x) <=> cu /\ Has(Off("uiccListen"), op, x)
  BY <1>2, <1>4, MaybeSeq
<1>8. c \in Seq(S) /\ \A op, x : Has(c, op, x) <=> ce /\ Has(Off("eseListen"), op, x)
  BY <1>2, <1>4, MaybeSeq
<1> HIDE DEF a, b, c
<1>10. ol \in Seq(S) /\ \A op, x : Has(ol, op, x) <=> Has(o, op, x) \/ Has(l, op, x)
  BY <1>4, Joined, HasJoin
<1> HIDE DEF ol
<1>11. ola \in Seq(S) /\ \A op, x : Has(ola, op, x) <=> Has(ol, op, x) \/ Has(a, op, x)
  BY <1>6, <1>10, Joined, HasJoin
<1> HIDE DEF ola
<1>12. olab \in Seq(S) /\ \A op, x : Has(olab, op, x) <=> Has(ola, op, x) \/ Has(b, op, x)
  BY <1>7, <1>11, Joined, HasJoin
<1> HIDE DEF olab
<1>13. w \in Seq(S) /\ \A op, x : Has(w, op, x) <=> Has(olab, op, x) \/ Has(c, op, x)
  BY <1>8, <1>12, Joined, HasJoin
<1> HIDE DEF w
<1>14. /\ c2 => Has(w, "off", "p2pListen")
       /\ cu => Has(w, "off", "uiccListen")
       /\ ce => Has(w, "off", "eseListen")
       /\ Has(w, "off", "listen")
       /\ Has(w, "off", "poll")
  BY <1>4, <1>6, <1>7, <1>8, <1>10, <1>11, <1>12, <1>13
<1>15. \A x \in Techs : Undone(disc, x) => Has(w, "off", x)
  BY <1>3, <1>14 DEF Techs
<1> QED
  BY <1>1, <1>13, <1>15 DEF S

LEMMA AidResetPart ==
  ASSUME NEW name, NEW p, name = "disable" \/ (name = "restart" /\ HostCE(p))
  PROVE  /\ Part(Ignoring("ResetDiscoveryConfig", Off("aid")), Kind(name, p), 3, 3)
         /\ ResetsAid(Ignoring("ResetDiscoveryConfig", Off("aid")))
<1> DEFINE c == Step("off", "aid", "-")
           e == More(c, "ResetDiscoveryConfig")
<1>1. c \in AStep /\ "ResetDiscoveryConfig" \in Around
  BY DEF Step, AStep, Around, Minor, Registrations
<1>2. /\ Ignoring("ResetDiscoveryConfig", <<c>>) = <<e>>
      /\ e.op = "off" /\ e.x = "aid" /\ e.within = {"ResetDiscoveryConfig"} /\ e \in AStep
  BY <1>1, AloneIs
<1>3. Off("aid") = <<c>>
  BY DEF Off
<1> HIDE DEF c, e
<1>4. Pinned(e)
  BY <1>2 DEF Pinned, Loose, Slack, CeDown, Techs
<1>5. Fits(e, name, p)
  BY <1>2 DEF Fits, IsSet, CeDown
<1>6. At(e, 3)
  BY <1>2 DEF At
<1>7. e.op \notin {"ee", "route"} /\ 3 \in 1..13 /\ 3 # 4
  BY <1>2
<1>8. Part(<<e>>, Kind(name, p), 3, 3)
  BY <1>2, <1>4, <1>5, <1>6, <1>7, PartStep
<1>9. ResetsAid(<<e>>)
  <2>1. Len(<<e>>) = 1 /\ <<e>>[1] = e
    OBVIOUS
  <2> QED
    BY <1>2, <2>1 DEF ResetsAid
<1>10. Ignoring("ResetDiscoveryConfig", Off("aid")) = <<e>>
  BY <1>2, <1>3
<1> QED
  BY <1>8, <1>9, <1>10

LEMMA StopPart ==
  ASSUME NEW name \in {"disable", "restart"}, NEW p
  PROVE  Part(DiscoveryStop, Kind(name, p), 1, 1) /\ Has(DiscoveryStop, "off", "disc")
<1> DEFINE c == Step("off", "disc", "-")
           e == More(c, "DiscoveryStop")
<1>1. c \in AStep /\ "DiscoveryStop" \in Around
  BY DEF Step, AStep, Around, Minor, Registrations
<1>2. /\ Ignoring("DiscoveryStop", <<c>>) = <<e>>
      /\ e.op = "off" /\ e.x = "disc" /\ e.within = {"DiscoveryStop"} /\ e \in AStep
  BY <1>1, AloneIs
<1>3. DiscoveryStop = Ignoring("DiscoveryStop", <<c>>)
  BY DEF DiscoveryStop, Off
<1> HIDE DEF c, e
<1>4. Pinned(e)
  BY <1>2 DEF Pinned, Loose, Slack, CeDown, Techs
<1>5. Fits(e, name, p)
  BY <1>2 DEF Fits, IsSet, CeDown
<1>6. At(e, 1)
  BY <1>2 DEF At
<1>7. e.op \notin {"ee", "route"} /\ 1 \in 1..13 /\ 1 # 4
  BY <1>2
<1>8. Part(<<e>>, Kind(name, p), 1, 1) /\ Has(<<e>>, e.op, e.x)
  BY <1>2, <1>4, <1>5, <1>6, <1>7, PartStep, ZenonT(40)
<1>9. DiscoveryStop = <<e>>
  BY <1>2, <1>3
<1> QED
  BY <1>2, <1>8, <1>9

LEMMA MwDisablePart ==
  ASSUME NEW name, NEW p, NEW disc, name = "disable" \/ (name = "restart" /\ disc = p)
  PROVE  /\ Part(MwDisableDiscovery(disc), Kind(name, p), 1, 3)
         /\ Has(MwDisableDiscovery(disc), "off", "disc")
         /\ \A x \in Techs : Undone(disc, x) => Has(MwDisableDiscovery(disc), "off", x)
         /\ HostCE(disc) => ResetsAid(MwDisableDiscovery(disc))
<1> DEFINE K == Kind(name, p)
           f == "ResetDiscoveryConfig"
           r == TechsReset(disc)
           ch == HostCE(disc)
           o == Off("aid")
           q == If(ch, o)
           i == Ignoring(f, r)
           j == Ignoring(f, q)
           T == { e \in Span(K, 2, 2) : ~Uses(e, "ee") }
           ij == i \o j
           w == DiscoveryStop \o ij
<1>1. name \in {"disable", "restart"} /\ K \subseteq AStep /\ ch \in BOOLEAN /\ (ch <=> HostCE(disc))
  BY KindIn DEF HostCE
<1>2. r \in Seq(TechsOff) /\ \A x \in Techs : Undone(disc, x) => Has(r, "off", x)
  BY TechsResetSteps
<1>3. TechsOff \subseteq AStep
  BY DEF TechsOff
<1>4. r \in Seq(AStep)
  BY <1>2, <1>3, SeqIn
<1>5. o \in Seq(AStep) /\ q \in Seq(AStep)
  <2>1. Step("off", "aid", "-") \in AStep
    BY DEF Step, AStep, Registrations
  <2>2. o \in Seq(AStep)
    BY <2>1 DEF Off
  <2> QED
    BY <2>2, Maybe
<1>6. ResetDiscoveryConfig(disc) = Ignoring(f, r \o q)
  BY DEF ResetDiscoveryConfig, TechsReset, CeDeRegisterAID
<1>7. MwDisableDiscovery(disc) = DiscoveryStop \o Ignoring(f, r \o q)
  BY <1>6 DEF MwDisableDiscovery
<1>8. Ignoring(f, r \o q) = ij
  BY <1>4, <1>5, IgnoringCat
<1>9. ch => Part(Ignoring(f, o), K, 3, 3) /\ ResetsAid(Ignoring(f, o))
  BY AidResetPart
<1>10. j = If(ch, Ignoring(f, o))
  <2>1. Ignoring(f, <<>>) = <<>>
    BY DEF Ignoring
  <2> QED
    BY <2>1 DEF If
<1>11. \A e \in TechsOff : More(e, f) \in T
  BY <1>1, TechsOffIn
<1>12. Part(DiscoveryStop, K, 1, 1) /\ Has(DiscoveryStop, "off", "disc")
  BY <1>1, StopPart
<1>13. \A e \in T : e \in Span(K, 2, 2) /\ ~Uses(e, "ee")
  OBVIOUS
<1>14. T \subseteq Span(K, 2, 2)
  OBVIOUS
<1>15. 2 \in 1..13 /\ 2 \notin Singular \cup {4} /\ 1 \in Nat /\ 2 \in Nat /\ 3 \in Nat /\ 2 < 3 /\ 2 <= 3 /\ 1 <= 2 /\ 1 < 2 /\ 1 <= 3
  BY DEF Singular
<1> HIDE DEF K, f, r, ch, o, q, T
<1>16. Part(j, K, 3, 3) /\ (ch => ResetsAid(j))
  <2>1. Part(j, K, 3, 3)
    BY <1>9, <1>10, PartMaybe
  <2>2. ch => j = Ignoring(f, o)
    BY <1>1, <1>10 DEF If
  <2> QED
    BY <1>9, <2>1, <2>2
<1>17. i \in Seq(T)
  BY <1>2, <1>3, <1>11, IgnoringIs
<1>18. \A x : Has(i, "off", x) <=> Has(r, "off", x)
  BY <1>4, IgnoringSame
<1> HIDE DEF i, j
<1>19. Part(i, K, 2, 2)
  <2>1. i \in Seq(Span(K, 2, 2)) /\ \A n \in 1..Len(i) : i[n] \in T
    BY <1>14, <1>17, SeqIn
  <2>2. \A n \in 1..Len(i) : ~Uses(i[n], "ee")
    BY <1>13, <2>1
  <2> QED
    BY <1>1, <1>15, <2>1, <2>2, PartFree
<1>20. /\ Part(ij, K, 2, 3)
       /\ \A op, x : Has(ij, op, x) <=> Has(i, op, x) \/ Has(j, op, x)
  BY <1>1, <1>15, <1>16, <1>19, PartJoin
<1>21. ch => ResetsAid(ij)
  <2>1. i \in Seq(AStep) /\ j \in Seq(AStep)
    BY <1>1, <1>16, <1>19, PartSeq
  <2> QED
    BY <1>16, <2>1, CatResets
<1> HIDE DEF ij
<1>22. /\ Part(w, K, 1, 3)
       /\ \A op, x : Has(w, op, x) <=> Has(DiscoveryStop, op, x) \/ Has(ij, op, x)
  BY <1>1, <1>12, <1>15, <1>20, PartJoin
<1>23. ch => ResetsAid(w)
  <2>1. DiscoveryStop \in Seq(AStep) /\ ij \in Seq(AStep)
    BY <1>1, <1>12, <1>20, PartSeq
  <2> QED
    BY <1>21, <2>1, CatResets
<1>24. MwDisableDiscovery(disc) = w
  BY <1>7, <1>8
<1> HIDE DEF w
<1>25. \A x \in Techs : Undone(disc, x) => Has(w, "off", x)
  BY <1>2, <1>18, <1>20, <1>22
<1>26. Has(w, "off", "disc")
  BY <1>12, <1>22
<1> QED
  BY <1>1, <1>22, <1>23, <1>24, <1>25, <1>26 DEF K

-----------------------------------------------------------------------------
(* Taking card emulation down.                                             *)

(* The steps at the start of a call.                                       *)
OffAt(s, i, x) == i \in 1..Len(s) /\ s[i].op = "off" /\ s[i].x = x
SetAt(s, i, f) == i \in 1..Len(s) /\ IsSet(s[i], f)

LEMMA CatAt ==
  ASSUME NEW S, NEW p \in Seq(S), NEW q \in Seq(S)
  PROVE  /\ \A i, x : OffAt(p, i, x) => OffAt(p \o q, i, x)
         /\ \A i, x : SetAt(p, i, x) => SetAt(p \o q, i, x)
         /\ \A i, x : OffAt(q, i, x) => OffAt(p \o q, Len(p) + i, x)
<1> DEFINE w == p \o q
<1>1. /\ \A i \in 1..Len(p) : w[i] = p[i] /\ i \in 1..Len(w)
      /\ \A i \in 1..Len(q) : w[Len(p) + i] = q[i] /\ Len(p) + i \in 1..Len(w)
  BY CatIs
<1> HIDE DEF w
<1>2. \A i, x : OffAt(p, i, x) => OffAt(w, i, x)
  BY <1>1 DEF OffAt
<1>3. \A i, x : SetAt(p, i, x) => SetAt(w, i, x)
  BY <1>1 DEF SetAt
<1>4. \A i, x : OffAt(q, i, x) => OffAt(w, Len(p) + i, x)
  BY <1>1 DEF OffAt
<1> QED
  BY <1>2, <1>3, <1>4 DEF w

LEMMA IgnoringAt ==
  ASSUME NEW f, NEW p \in Seq(AStep)
  PROVE  /\ \A i, x : OffAt(p, i, x) => OffAt(Ignoring(f, p), i, x)
         /\ \A i, x : SetAt(p, i, x) => SetAt(Ignoring(f, p), i, x)
<1> DEFINE w == Ignoring(f, p)
           T == { More(e, f) : e \in AStep }
<1>1. \A e \in AStep : More(e, f) \in T
  OBVIOUS
<1> HIDE DEF T
<1>2. /\ Len(w) = Len(p)
      /\ \A i \in 1..Len(p) : w[i].op = p[i].op /\ w[i].x = p[i].x
  BY <1>1, IgnoringIs
<1> HIDE DEF w
<1>3. \A i, x : OffAt(p, i, x) => OffAt(w, i, x)
  BY <1>2 DEF OffAt
<1>4. \A i, x : SetAt(p, i, x) => SetAt(w, i, x)
  BY <1>2 DEF SetAt, IsSet
<1> QED
  BY <1>3, <1>4 DEF w

-----------------------------------------------------------------------------
(* The end of the card emulation.                                          *)
CeOff == { e \in AStep : /\ e.within = {}
                         /\ \/ e.op = "off" /\ e.x \in {"felica", "ee", "hci", "aid"}
                            \/ e.op = "set" /\ e.x \in {"protocols", "felicaHandle"} }

LEMMA CeOffIn ==
  ASSUME NEW p, NEW f \in CeDown, NEW e \in CeOff
  PROVE  /\ More(e, f) \in Span(Kind("disable", p), 1, 1)
         /\ ~Uses(More(e, f), "ee")
<1>1. f \in Around /\ e \in AStep
  BY DEF CeDown, Around, Minor, CeOff
<1> DEFINE m == More(e, f)
<1>2. m.op = e.op /\ m.x = e.x /\ m.within = e.within \cup {f} /\ m \in AStep
  BY <1>1, WithinMore, WithinMoreIn
<1>3. /\ m.within = {f} /\ f \in {"CeDeInit A", "CeDeInit F", "CeDeInit EE"}
      /\ \/ m.op = "off" /\ m.x \in {"felica", "ee", "hci", "aid"}
         \/ m.op = "set" /\ m.x \in {"protocols", "felicaHandle"}
  BY <1>2 DEF CeOff, CeDown
<1> HIDE DEF m
<1>4. Pinned(m)
  BY <1>3 DEF Pinned, Loose, Slack, CeDown, Techs
<1>5. Fits(m, "disable", p)
  BY <1>3 DEF Fits, IsSet, CeDown
<1>6. At(m, 1)
  <2>1. "ResetDiscoveryConfig" \notin m.within
    BY <1>3
  <2>2. CASE m.op = "off" /\ m.x \in {"felica", "ee", "hci", "aid"}
    <3>1. 1 \in 1..13 /\ 1 <= 4 /\ m.x \notin {"disc", "poll", "listen", "p2pListen", "up", "driver"}
      BY <2>2
    <3> QED
      BY <2>1, <2>2, <3>1 DEF At
  <2>3. CASE m.op = "set" /\ m.x \in {"protocols", "felicaHandle"}
    <3>1. 1 \in 1..13 /\ 1 <= 10 /\ 1 <= 8 /\ m.x \notin {"idle", "llcpEnabled"}
      BY <2>3
    <3> QED
      BY <2>1, <2>3, <3>1 DEF At
  <2> QED
    BY <1>3, <2>2, <2>3
<1>7. m \in Span(Kind("disable", p), 1, 1)
  BY <1>2, <1>4, <1>5, <1>6 DEF Span, Kind
<1>8. ~Uses(m, "ee")
  BY <1>3 DEF Uses
<1> QED
  BY <1>7, <1>8 DEF m

LEMMA CeOffPart ==
  ASSUME NEW p, NEW f \in CeDown, NEW q \in Seq(CeOff)
  PROVE  Part(Ignoring(f, q), Kind("disable", p), 1, 1)
<1> DEFINE K == Kind("disable", p)
           T == { e \in Span(K, 1, 1) : ~Uses(e, "ee") }
           i == Ignoring(f, q)
<1>1. \A e \in CeOff : More(e, f) \in T
  BY CeOffIn
<1>2. CeOff \subseteq AStep /\ K \subseteq AStep
  BY KindIn DEF CeOff
<1>3. T \subseteq Span(K, 1, 1) /\ \A e \in T : ~Uses(e, "ee")
  OBVIOUS
<1> HIDE DEF K, T
<1>4. i \in Seq(T)
  BY <1>1, <1>2, IgnoringIs
<1> HIDE DEF i
<1>5. i \in Seq(Span(K, 1, 1)) /\ \A n \in 1..Len(i) : i[n] \in T
  BY <1>3, <1>4, SeqIn
<1>6. \A n \in 1..Len(i) : ~Uses(i[n], "ee")
  BY <1>3, <1>5
<1>7. 1 \in 1..13 /\ 1 \notin Singular \cup {4}
  BY DEF Singular
<1>8. Part(i, K, 1, 1)
  BY <1>2, <1>5, <1>6, <1>7, PartFree
<1> QED
  BY <1>8 DEF i, K

LEMMA OffCe ==
  /\ \A x \in {"felica", "ee", "hci", "aid"} : Off(x) \in Seq(CeOff) /\ OffAt(Off(x), 1, x) /\ Len(Off(x)) = 1
  /\ Set("protocols", {}) \in Seq(CeOff) /\ SetAt(Set("protocols", {}), 1, "protocols")
  /\ Len(Set("protocols", {})) = 1
  /\ Set("felicaHandle", FALSE) \in Seq(CeOff)
<1>1. ASSUME NEW x \in {"felica", "ee", "hci", "aid"}
      PROVE  Off(x) \in Seq(CeOff) /\ OffAt(Off(x), 1, x) /\ Len(Off(x)) = 1
  <2> DEFINE e == Step("off", x, "-")
  <2>1. e.op = "off" /\ e.x = x /\ e.within = {}
    BY StepIs
  <2>2. e \in AStep
    BY DEF Step, AStep, Registrations
  <2>3. Off(x) = <<e>>
    BY DEF Off
  <2> HIDE DEF e
  <2>4. e \in CeOff
    BY <2>1, <2>2 DEF CeOff
  <2>5. Len(<<e>>) = 1 /\ <<e>>[1] = e /\ 1 \in 1..1
    OBVIOUS
  <2>6. OffAt(<<e>>, 1, x)
    BY <2>1, <2>5 DEF OffAt
  <2> QED
    BY <2>3, <2>4, <2>5, <2>6
<1>2. /\ Set("protocols", {}) \in Seq(CeOff) /\ SetAt(Set("protocols", {}), 1, "protocols")
      /\ Len(Set("protocols", {})) = 1
  <2> DEFINE e == Step("set", "protocols", {})
  <2>1. e.op = "set" /\ e.x = "protocols" /\ e.within = {}
    BY StepIs
  <2>2. e \in AStep
    BY DEF Step, AStep
  <2>3. Set("protocols", {}) = <<e>>
    BY DEF Set
  <2> HIDE DEF e
  <2>4. e \in CeOff
    BY <2>1, <2>2 DEF CeOff
  <2>5. Len(<<e>>) = 1 /\ <<e>>[1] = e /\ 1 \in 1..1
    OBVIOUS
  <2>6. SetAt(<<e>>, 1, "protocols")
    BY <2>1, <2>5 DEF SetAt, IsSet
  <2>7. <<e>> \in Seq(CeOff)
    BY <2>4
  <2> QED
    BY <2>3, <2>5, <2>6, <2>7, Zenon
<1>3. Set("felicaHandle", FALSE) \in Seq(CeOff)
  <2> DEFINE e == Step("set", "felicaHandle", FALSE)
  <2>1. e.op = "set" /\ e.x = "felicaHandle" /\ e.within = {}
    BY DEF Step
  <2>2. e \in AStep
    BY DEF Step, AStep, Flags
  <2>3. Set("felicaHandle", FALSE) = <<e>>
    BY DEF Set
  <2> HIDE DEF e
  <2>4. e \in CeOff
    BY <2>1, <2>2 DEF CeOff
  <2>5. <<e>> \in Seq(CeOff)
    BY <2>4
  <2> QED
    BY <2>3, <2>5, Zenon
<1> QED
  BY <1>1, <1>2, <1>3

LEMMA HceDeInitIs ==
  ASSUME NEW disc
  PROVE  /\ HceDeInit(disc) \in Seq(CeOff)
         /\ HostCE(disc) => /\ SetAt(HceDeInit(disc), 1, "protocols") /\ OffAt(HceDeInit(disc), 2, "aid")
                            /\ OffAt(HceDeInit(disc), 3, "ee") /\ Len(HceDeInit(disc)) = 3
<1> DEFINE s == Set("protocols", {})
           ch == HostCE(disc)
           a == If(ch, Off("aid"))
           sa == s \o a
           w == sa \o Off("ee")
<1>1. HceDeInit(disc) = w
  BY DEF HceDeInit, CeDeRegisterAID
<1>2. s \in Seq(CeOff) /\ SetAt(s, 1, "protocols") /\ Len(s) = 1
  BY OffCe
<1>3. Off("aid") \in Seq(CeOff) /\ OffAt(Off("aid"), 1, "aid") /\ Len(Off("aid")) = 1
  BY OffCe
<1>4. Off("ee") \in Seq(CeOff) /\ OffAt(Off("ee"), 1, "ee") /\ Len(Off("ee")) = 1
  BY OffCe
<1>5. a \in Seq(CeOff) /\ (ch => a = Off("aid"))
  BY <1>3, Maybe DEF If
<1> HIDE DEF s, a
<1>6. /\ sa \in Seq(CeOff) /\ Len(sa) = Len(s) + Len(a)
      /\ SetAt(sa, 1, "protocols")
  BY <1>2, <1>5, CatIs, CatAt, ZenonT(40)
<1>7. ch => OffAt(sa, 2, "aid") /\ Len(sa) = 2
  <2> SUFFICES ASSUME ch PROVE OffAt(sa, 2, "aid") /\ Len(sa) = 2
    OBVIOUS
  <2>1. OffAt(a, 1, "aid") /\ Len(a) = 1
    BY <1>3, <1>5
  <2>2. OffAt(sa, Len(s) + 1, "aid")
    BY <1>2, <1>5, <2>1, CatAt
  <2> QED
    BY <1>2, <1>6, <2>1, <2>2
<1> HIDE DEF sa
<1>8. /\ w \in Seq(CeOff) /\ Len(w) = Len(sa) + Len(Off("ee"))
      /\ SetAt(w, 1, "protocols")
  <2>1. w \in Seq(CeOff) /\ Len(w) = Len(sa) + Len(Off("ee"))
    BY <1>4, <1>6, CatIs
  <2>2. SetAt(w, 1, "protocols")
    BY <1>4, <1>6, CatAt
  <2> QED
    BY <2>1, <2>2
<1>9. ch => OffAt(w, 2, "aid") /\ OffAt(w, 3, "ee") /\ Len(w) = 3
  <2> SUFFICES ASSUME ch PROVE OffAt(w, 2, "aid") /\ OffAt(w, 3, "ee") /\ Len(w) = 3
    OBVIOUS
  <2>1. OffAt(w, 2, "aid")
    BY <1>4, <1>6, <1>7, CatAt
  <2>2. OffAt(w, Len(sa) + 1, "ee")
    BY <1>4, <1>6, CatAt
  <2>3. Len(sa) = 2 /\ Len(Off("ee")) = 1
    BY <1>4, <1>7
  <2> HIDE DEF w
  <2>4. Len(w) = Len(sa) + Len(Off("ee"))
    BY <1>8
  <2> HIDE DEF ch
  <2>5. 2 + 1 = 3
    OBVIOUS
  <2>6. Len(sa) + 1 = 3 /\ Len(w) = 3
    BY <2>3, <2>4, <2>5, Zenon
  <2> QED
    BY <2>1, <2>2, <2>6
<1> QED
  BY <1>1, <1>8, <1>9

LEMMA HceFDeInitIs == HceFDeInit \in Seq(CeOff) /\ OffAt(HceFDeInit, 1, "felica")
<1> DEFINE o == Off("felica")
           t == Set("felicaHandle", FALSE)
           a == o \o t
           w == a \o Off("ee")
<1>1. HceFDeInit = w
  BY DEF HceFDeInit
<1>2. o \in Seq(CeOff) /\ OffAt(o, 1, "felica") /\ Off("ee") \in Seq(CeOff) /\ t \in Seq(CeOff)
  BY OffCe
<1> HIDE DEF o, t
<1>3. a \in Seq(CeOff) /\ OffAt(a, 1, "felica")
  BY <1>2, Joined, CatAt
<1> HIDE DEF a
<1>4. w \in Seq(CeOff) /\ OffAt(w, 1, "felica")
  BY <1>2, <1>3, Joined, CatAt
<1> QED
  BY <1>1, <1>4

LEMMA EeDeInitIs == EeDeInit \in Seq(CeOff) /\ OffAt(EeDeInit, 1, "ee") /\ OffAt(EeDeInit, 2, "hci")
<1> DEFINE o == Off("ee")
           h == Off("hci")
           w == o \o h
<1>1. EeDeInit = w
  BY DEF EeDeInit
<1>2. /\ o \in Seq(CeOff) /\ OffAt(o, 1, "ee") /\ Len(o) = 1
      /\ h \in Seq(CeOff) /\ OffAt(h, 1, "hci")
  BY OffCe
<1> HIDE DEF o, h
<1>3. w \in Seq(CeOff) /\ OffAt(w, 1, "ee")
  BY <1>2, Joined, CatAt
<1>4. OffAt(w, Len(o) + 1, "hci")
  BY <1>2, CatAt
<1>5. Len(o) + 1 = 2
  BY <1>2
<1> QED
  BY <1>1, <1>3, <1>4, <1>5

LEMMA HostDeInitIs ==
  ASSUME NEW prev, NEW disc
  PROVE  /\ CeDeInitHost(prev, disc) \in Seq(CeOff)
         /\ "hceF" \in prev /\ "hceA" \notin prev => OffAt(CeDeInitHost(prev, disc), 1, "felica")
         /\ "hceF" \in prev /\ "hceA" \in prev /\ HostCE(disc) =>
              /\ SetAt(CeDeInitHost(prev, disc), 1, "protocols") /\ OffAt(CeDeInitHost(prev, disc), 2, "aid")
              /\ OffAt(CeDeInitHost(prev, disc), 3, "ee") /\ OffAt(CeDeInitHost(prev, disc), 4, "felica")
<1> DEFINE h == HceDeInit(disc)
           ca == "hceA" \in prev
           cf == "hceF" \in prev
           a == If(ca, h)
           f == If(cf, HceFDeInit)
           w == a \o f
<1>1. CeDeInitHost(prev, disc) = w
  BY DEF CeDeInitHost
<1>2. /\ h \in Seq(CeOff)
      /\ HostCE(disc) => /\ SetAt(h, 1, "protocols") /\ OffAt(h, 2, "aid")
                         /\ OffAt(h, 3, "ee") /\ Len(h) = 3
  BY HceDeInitIs
<1>3. HceFDeInit \in Seq(CeOff) /\ OffAt(HceFDeInit, 1, "felica")
  BY HceFDeInitIs
<1>4. a \in Seq(CeOff) /\ f \in Seq(CeOff)
  BY <1>2, <1>3, Maybe
<1>5. w \in Seq(CeOff)
  BY <1>4, Joined
<1>6. ASSUME cf, ~ca PROVE OffAt(w, 1, "felica")
  <2>1. a = <<>> /\ f = HceFDeInit
    BY <1>6 DEF If
  <2>2. w = HceFDeInit
    BY <1>3, <2>1
  <2> QED
    BY <1>3, <2>2
<1>7. ASSUME cf, ca, HostCE(disc)
      PROVE  SetAt(w, 1, "protocols") /\ OffAt(w, 2, "aid") /\ OffAt(w, 3, "ee") /\ OffAt(w, 4, "felica")
  <2>1. a = h /\ f = HceFDeInit
    BY <1>7 DEF If
  <2>2. w = h \o HceFDeInit
    BY <2>1
  <2> HIDE DEF w, h
  <2>3. SetAt(w, 1, "protocols") /\ OffAt(w, 2, "aid") /\ OffAt(w, 3, "ee")
    BY <1>2, <1>3, <1>7, <2>2, CatAt
  <2>4. OffAt(w, Len(h) + 1, "felica")
    BY <1>2, <1>3, <2>2, CatAt
  <2>5. Len(h) = 3
    BY <1>2, <1>7
  <2>6. Len(h) + 1 = 4
    BY <2>5
  <2> QED
    BY <2>3, <2>4, <2>6
<1> QED
  BY <1>1, <1>5, <1>6, <1>7

LEMMA NoneThen ==
  ASSUME NEW S, NEW s \in Seq(S)
  PROVE  <<>> \o s = s
BY ConcatEmptySeq

LEMMA CeDeInitPart ==
  ASSUME NEW app, NEW prev, NEW disc, NEW p, NEW w, w = CeDeInit(app, prev, disc)
  PROVE  /\ Part(w, Kind("disable", p), 1, 1)
         /\ app = disc /\ prev = disc =>
              /\ "hceF" \in disc /\ "hceA" \notin disc => OffAt(w, 1, "felica")
              /\ "hceF" \in disc /\ "hceA" \in disc =>
                   SetAt(w, 1, "protocols") /\ OffAt(w, 2, "aid") /\ OffAt(w, 3, "ee") /\ OffAt(w, 4, "felica")
              /\ NfceeCE(disc) /\ ~HostCE(disc) => OffAt(w, 1, "ee") /\ OffAt(w, 2, "hci")
<1> DEFINE K == Kind("disable", p)
           h == CeDeInitHost(prev, disc)
           ca == "hceA" \in app
           cf == "hceF" \in app
           ce == NfceeCE(app)
           ia == Ignoring("CeDeInit A", h)
           if == Ignoring("CeDeInit F", h)
           ie == Ignoring("CeDeInit EE", EeDeInit)
           a == If(ca, ia)
           f == If(cf, if)
           e == If(ce, ie)
           af == a \o f
           q == af \o e
<1>1. w = q
  BY DEF CeDeInit
<1>2. K \subseteq AStep /\ 1 \in Nat /\ 1 <= 1 /\ 1 \notin Singular
  BY KindIn DEF Singular
<1>3. h \in Seq(CeOff) /\ EeDeInit \in Seq(CeOff)
  BY HostDeInitIs, EeDeInitIs
<1>4. h \in Seq(AStep) /\ EeDeInit \in Seq(AStep)
  <2>1. CeOff \subseteq AStep
    BY DEF CeOff
  <2> QED
    BY <1>3, <2>1, SeqIn
<1>5. Part(ia, K, 1, 1) /\ Part(if, K, 1, 1) /\ Part(ie, K, 1, 1)
  <2>1. "CeDeInit A" \in CeDown /\ "CeDeInit F" \in CeDown /\ "CeDeInit EE" \in CeDown
    BY DEF CeDown
  <2> HIDE DEF h
  <2> QED
    BY <1>3, <2>1, CeOffPart
<1>6. Part(a, K, 1, 1) /\ Part(f, K, 1, 1) /\ Part(e, K, 1, 1)
  BY <1>5, PartMaybe
<1>7. a \in Seq(AStep) /\ f \in Seq(AStep) /\ e \in Seq(AStep)
  BY <1>2, <1>6, PartSeq
<1>8. Part(af, K, 1, 1)
  <2>1. Part(a, K, 1, 1) /\ Part(f, K, 1, 1)
    BY <1>6
  <2> HIDE DEF a, f, K
  <2> QED
    BY <1>2, <2>1, PartThen
<1>9. af \in Seq(AStep)
  BY <1>7, Joined
<1>10. Part(q, K, 1, 1)
  <2>1. Part(e, K, 1, 1)
    BY <1>6
  <2> HIDE DEF af, e, K
  <2> QED
    BY <1>2, <1>8, <2>1, PartThen
<1>11. /\ \A i, x : OffAt(h, i, x) => OffAt(ia, i, x) /\ OffAt(if, i, x)
       /\ \A i, x : SetAt(h, i, x) => SetAt(ia, i, x)
       /\ \A i, x : OffAt(EeDeInit, i, x) => OffAt(ie, i, x)
  BY <1>4, IgnoringAt
<1>12. ASSUME ca PROVE /\ \A i, x : OffAt(h, i, x) => OffAt(w, i, x)
                       /\ \A i, x : SetAt(h, i, x) => SetAt(w, i, x)
  <2>1. a = ia
    BY <1>12 DEF If
  <2> HIDE DEF a, ia, f, e, h, q
  <2>2. /\ \A i, x : OffAt(h, i, x) => OffAt(a, i, x)
        /\ \A i, x : SetAt(h, i, x) => SetAt(a, i, x)
    BY <1>11, <2>1
  <2>3. /\ \A i, x : OffAt(a, i, x) => OffAt(af, i, x)
        /\ \A i, x : SetAt(a, i, x) => SetAt(af, i, x)
    BY <1>7, CatAt
  <2> HIDE DEF af
  <2>4. /\ \A i, x : OffAt(af, i, x) => OffAt(q, i, x)
        /\ \A i, x : SetAt(af, i, x) => SetAt(q, i, x)
    BY <1>7, <1>9, CatAt DEF q
  <2> QED
    BY <1>1, <2>2, <2>3, <2>4
<1>13. ASSUME ~ca, cf PROVE \A i, x : OffAt(h, i, x) => OffAt(w, i, x)
  <2>1. a = <<>> /\ f = if
    BY <1>13 DEF If
  <2>2. af = if
    <3>1. if \in Seq(AStep)
      BY <1>2, <1>5, PartSeq
    <3> HIDE DEF if, a, f
    <3> QED
      BY <2>1, <3>1, NoneThen DEF af
  <2> HIDE DEF a, if, f, e, h, q, af
  <2>3. \A i, x : OffAt(h, i, x) => OffAt(af, i, x)
    BY <1>11, <2>2
  <2>4. \A i, x : OffAt(af, i, x) => OffAt(q, i, x)
    BY <1>7, <1>9, CatAt DEF q
  <2> QED
    BY <1>1, <2>3, <2>4
<1>14. ASSUME ~ca, ~cf, ce PROVE \A i, x : OffAt(EeDeInit, i, x) => OffAt(w, i, x)
  <2>1. a = <<>> /\ f = <<>> /\ e = ie
    BY <1>14 DEF If
  <2>2. ie \in Seq(AStep)
    BY <1>2, <1>5, PartSeq
  <2>5. <<>> \in Seq(AStep)
    OBVIOUS
  <2> HIDE DEF ie, a, f, e
  <2>3. af = <<>>
    BY <2>1, <2>5, NoneThen
  <2> HIDE DEF af
  <2>4. q = ie
    BY <2>1, <2>2, <2>3, NoneThen
  <2> QED
    BY <1>1, <1>11, <2>4
<1>15. ASSUME app = disc, prev = disc, "hceF" \in disc, "hceA" \notin disc PROVE OffAt(w, 1, "felica")
  BY <1>13, <1>15, HostDeInitIs
<1>16. ASSUME app = disc, prev = disc, "hceF" \in disc, "hceA" \in disc
       PROVE  SetAt(w, 1, "protocols") /\ OffAt(w, 2, "aid") /\ OffAt(w, 3, "ee") /\ OffAt(w, 4, "felica")
  <2>1. HostCE(disc)
    BY <1>16 DEF HostCE
  <2>2. SetAt(h, 1, "protocols") /\ OffAt(h, 2, "aid") /\ OffAt(h, 3, "ee") /\ OffAt(h, 4, "felica")
    BY <1>16, <2>1, HostDeInitIs
  <2> QED
    BY <1>12, <1>16, <2>2
<1>17. ASSUME app = disc, prev = disc, NfceeCE(disc), ~HostCE(disc) PROVE OffAt(w, 1, "ee") /\ OffAt(w, 2, "hci")
  <2>1. ~ca /\ ~cf
    BY <1>17 DEF HostCE
  <2>2. OffAt(EeDeInit, 1, "ee") /\ OffAt(EeDeInit, 2, "hci")
    BY EeDeInitIs
  <2> QED
    BY <1>14, <1>17, <2>1, <2>2
<1> QED
  BY <1>1, <1>10, <1>15, <1>16, <1>17

-----------------------------------------------------------------------------
(* Initialising and releasing ask for nothing.                             *)

(* Going back to no LLCP: the middleware is released and initialised.      *)
Plain == { e \in AStep : e.within \subseteq {"SetConfig", "InitRouting"} }

LEMMA SeqBoth ==
  ASSUME NEW A, NEW B, NEW p \in Seq(A), p \in Seq(B)
  PROVE  p \in Seq(A \cap B)
<1>1. Len(p) \in Nat /\ p \in [1..Len(p) -> A] /\ p \in [1..Len(p) -> B]
  OBVIOUS
<1>2. \A i \in 1..Len(p) : p[i] \in A \cap B
  BY <1>1
<1>3. p = [i \in 1..Len(p) |-> p[i]]
  BY <1>1
<1> QED
  BY <1>1, <1>2, <1>3

LEMMA PlainOne ==
  ASSUME NEW op, NEW x, NEW to, Step(op, x, to) \in AStep
  PROVE  /\ <<Step(op, x, to)>> \in Seq(Plain)
         /\ \A f \in {"SetConfig", "InitRouting"} : More(Step(op, x, to), f) \in Plain
<1> DEFINE e == Step(op, x, to)
<1>1. e \in AStep /\ e.within = {}
  BY StepIs
<1> HIDE DEF e
<1>2. <<e>> \in Seq(Plain)
  BY <1>1 DEF Plain
<1>3. \A f \in {"SetConfig", "InitRouting"} : More(e, f) \in Plain
  <2> SUFFICES ASSUME NEW f \in {"SetConfig", "InitRouting"} PROVE More(e, f) \in Plain
    OBVIOUS
  <2>1. f \in Around
    BY DEF Around, Minor
  <2>2. More(e, f) \in AStep /\ More(e, f).within = e.within \cup {f}
    BY <1>1, <2>1, WithinMore, WithinMoreIn
  <2> QED
    BY <1>1, <2>2 DEF Plain
<1> QED
  BY <1>2, <1>3 DEF e

LEMMA PlainOnes ==
  /\ \A x \in OsalObjects : Create(x) \in Seq(Plain) /\ Delete(x) \in Seq(Plain)
  /\ \A x \in Base \cup {"ee"} : On(x) \in Seq(Plain) /\ Off(x) \in Seq(Plain)
  /\ Set("llcpEnabled", FALSE) \in Seq(Plain) /\ Set("handle", TRUE) \in Seq(Plain)
  /\ Set("llcp", FALSE) \in Seq(Plain)
<1>1. /\ \A x \in OsalObjects : Step("create", x, "-") \in AStep /\ Step("delete", x, "-") \in AStep
      /\ \A x \in Base \cup {"ee"} : Step("on", x, "-") \in AStep /\ Step("off", x, "-") \in AStep
  BY DEF Step, AStep, Base, Registrations
<1>2. Step("set", "llcpEnabled", FALSE) \in AStep
  BY DEF Step, AStep, Flags
<1>3. Step("set", "handle", TRUE) \in AStep
  BY DEF Step, AStep, Flags
<1>4. Step("set", "llcp", FALSE) \in AStep
  BY DEF Step, AStep, Flags
<1>5. Set("llcpEnabled", FALSE) \in Seq(Plain)
  <2>1. <<Step("set", "llcpEnabled", FALSE)>> \in Seq(Plain)
    BY <1>2, PlainOne
  <2> QED
    BY <2>1 DEF Set
<1>6. Set("handle", TRUE) \in Seq(Plain)
  <2>1. <<Step("set", "handle", TRUE)>> \in Seq(Plain)
    BY <1>3, PlainOne
  <2> QED
    BY <2>1 DEF Set
<1>7. Set("llcp", FALSE) \in Seq(Plain)
  <2>1. <<Step("set", "llcp", FALSE)>> \in Seq(Plain)
    BY <1>4, PlainOne
  <2> QED
    BY <2>1 DEF Set
<1>8. \A x \in OsalObjects : Create(x) \in Seq(Plain) /\ Delete(x) \in Seq(Plain)
  BY <1>1, PlainOne DEF Create, Delete
<1>9. \A x \in Base \cup {"ee"} : On(x) \in Seq(Plain) /\ Off(x) \in Seq(Plain)
  BY <1>1, PlainOne DEF On, Off
<1> QED
  BY <1>5, <1>6, <1>7, <1>8, <1>9

LEMMA PlainIgnored ==
  /\ Ignoring("SetConfig", Config) \in Seq(Plain)
  /\ InitRouting \in Seq(Plain)
<1>1. Ignoring("SetConfig", Config) \in Seq(Plain)
  <2> DEFINE c == Step("config", "-", "-")
  <2>1. c \in AStep /\ "SetConfig" \in Around
    BY DEF Step, AStep, Around, Minor
  <2>2. Ignoring("SetConfig", <<c>>) = <<More(c, "SetConfig")>>
    BY <2>1, AloneIs
  <2>3. More(c, "SetConfig") \in Plain
    BY <2>1, PlainOne
  <2>4. Config = <<c>>
    BY DEF Config
  <2> DEFINE e == More(c, "SetConfig")
  <2>5. <<e>> \in Seq(Plain)
    BY <2>3
  <2> HIDE DEF c
  <2> QED
    BY <2>2, <2>4, <2>5
<1>2. InitRouting \in Seq(Plain)
  <2> DEFINE S == { e \in AStep : e.within = {} }
             T == { e \in AStep : e.within = {"InitRouting"} }
             p == On("ee") \o EeRequest \o Route({})
  <2>1. On("ee") \in Seq(S) /\ EeRequest \in Seq(S) /\ Route({}) \in Seq(S)
    <3>1. Step("on", "ee", "-") \in S /\ Step("ee", "-", "-") \in S /\ Step("route", "-", {}) \in S
      BY DEF Step, AStep, Registrations
    <3> HIDE DEF S
    <3> QED
      BY <3>1 DEF On, EeRequest, Route
  <2>2. \A e \in S : More(e, "InitRouting") \in Plain
    <3> SUFFICES ASSUME NEW e \in S PROVE More(e, "InitRouting") \in Plain
      OBVIOUS
    <3>1. "InitRouting" \in Around
      BY DEF Around, Minor
    <3>2. More(e, "InitRouting") \in AStep /\ More(e, "InitRouting").within = e.within \cup {"InitRouting"}
      BY <3>1, WithinMore, WithinMoreIn
    <3> QED
      BY <3>2 DEF Plain
  <2>3. S \subseteq AStep
    OBVIOUS
  <2>4. InitRouting = Ignoring("InitRouting", p)
    BY DEF InitRouting
  <2> DEFINE o == On("ee")
             q == EeRequest
             r == Route({})
  <2>5. p = (o \o q) \o r /\ o \in Seq(S) /\ q \in Seq(S) /\ r \in Seq(S)
    BY <2>1
  <2> HIDE DEF S, p, o, q, r
  <2>6. p \in Seq(S)
    BY <2>5, Joined
  <2> QED
    BY <2>2, <2>3, <2>4, <2>6, IgnoringIs
<1> QED
  BY <1>1, <1>2

LEMMA MwPlain == MwInit \in Seq(Plain) /\ MwDeInit \in Seq(Plain)
<1>1. MwInit \in Seq(Plain)
  <2> DEFINE a == On("driver") \o Create("mwq")
             b == a \o Create("sem")
             c == b \o Create("intg")
             d == c \o On("up")
             e == d \o InitRouting
             f == e \o On("ndef")
             g == f \o Set("handle", TRUE)
             h == g \o On("p2p")
  <2>1. MwInit = h
    BY DEF MwInit, ConfigureDriver, StackInit
  <2>2. /\ On("driver") \in Seq(Plain) /\ Create("mwq") \in Seq(Plain) /\ Create("sem") \in Seq(Plain)
        /\ Create("intg") \in Seq(Plain) /\ On("up") \in Seq(Plain) /\ On("ndef") \in Seq(Plain)
        /\ On("p2p") \in Seq(Plain)
    BY PlainOnes DEF OsalObjects, Base
  <2>3. Set("handle", TRUE) \in Seq(Plain)
    BY PlainOnes
  <2>4. InitRouting \in Seq(Plain)
    BY PlainIgnored
  <2>5. a \in Seq(Plain)
    BY <2>2, Joined
  <2> HIDE DEF a
  <2>6. b \in Seq(Plain)
    BY <2>2, <2>5, Joined
  <2> HIDE DEF b
  <2>7. c \in Seq(Plain)
    BY <2>2, <2>6, Joined
  <2> HIDE DEF c
  <2>8. d \in Seq(Plain)
    BY <2>2, <2>7, Joined
  <2> HIDE DEF d
  <2>9. e \in Seq(Plain)
    BY <2>4, <2>8, Joined
  <2> HIDE DEF e
  <2>10. f \in Seq(Plain)
    BY <2>2, <2>9, Joined
  <2> HIDE DEF f
  <2>11. g \in Seq(Plain)
    BY <2>3, <2>10, Joined
  <2> HIDE DEF g
  <2>12. h \in Seq(Plain)
    BY <2>2, <2>11, Joined
  <2> QED
    BY <2>1, <2>12
<1>2. MwDeInit \in Seq(Plain)
  <2> DEFINE c == Ignoring("SetConfig", Config)
             a == c \o Set("llcpEnabled", FALSE)
             b == a \o Off("up")
             d == b \o Off("driver")
             e == d \o Delete("intg")
             f == e \o Delete("sem")
             g == f \o Delete("mwq")
  <2>1. MwDeInit = g
    BY DEF MwDeInit, StackDeInit
  <2>2. /\ Off("driver") \in Seq(Plain) /\ Delete("mwq") \in Seq(Plain) /\ Delete("sem") \in Seq(Plain)
        /\ Delete("intg") \in Seq(Plain) /\ Off("up") \in Seq(Plain)
    BY PlainOnes DEF OsalObjects, Base
  <2>3. Set("llcpEnabled", FALSE) \in Seq(Plain)
    BY PlainOnes
  <2>4. c \in Seq(Plain)
    BY PlainIgnored
  <2> HIDE DEF c
  <2>5. a \in Seq(Plain)
    BY <2>3, <2>4, Joined
  <2> HIDE DEF a
  <2>6. b \in Seq(Plain)
    BY <2>2, <2>5, Joined
  <2> HIDE DEF b
  <2>7. d \in Seq(Plain)
    BY <2>2, <2>6, Joined
  <2> HIDE DEF d
  <2>8. e \in Seq(Plain)
    BY <2>2, <2>7, Joined
  <2> HIDE DEF e
  <2>9. f \in Seq(Plain)
    BY <2>2, <2>8, Joined
  <2> HIDE DEF f
  <2>10. g \in Seq(Plain)
    BY <2>2, <2>9, Joined
  <2> QED
    BY <2>1, <2>10
<1> QED
  BY <1>1, <1>2

(* What holds of plain steps holds of them where they are ignored.         *)
LEMMA PlainMore ==
  ASSUME NEW p, NEW l, NEW h, NEW e \in Span(Kind("disable", p), l, h) \cap Plain
  PROVE  More(e, "ReInit") \in Span(Kind("disable", p), l, h)
<1> DEFINE m == More(e, "ReInit")
<1>1. e \in AStep /\ e.within \subseteq {"SetConfig", "InitRouting"} /\ "ReInit" \in Around
  BY DEF Plain, Around
<1>2. m.op = e.op /\ m.x = e.x /\ m.to = e.to /\ m.within = e.within \cup {"ReInit"} /\ m \in AStep
  BY <1>1, WithinMore, WithinMoreIn
<1>3. Pinned(e) /\ Fits(e, "disable", p)
  BY DEF Span, Kind
<1>4. PICK n \in l..h : At(e, n)
  BY DEF Span
<1> HIDE DEF m
<1>5. m.within \cap Slack = {} /\ m.within \cap CeDown = {} /\ e.within \cap Slack = {} /\ e.within \cap CeDown = {}
  BY <1>1, <1>2 DEF Slack, CeDown
<1>6. /\ "ResetDiscoveryConfig" \notin m.within /\ "DiscoveryStop" \notin m.within /\ "RoutingUpdate" \notin m.within
      /\ "P2pRoutingConfigure" \notin m.within /\ "HciRegister" \notin m.within
      /\ "ResetDiscoveryConfig" \notin e.within /\ "DiscoveryStop" \notin e.within /\ "RoutingUpdate" \notin e.within
  BY <1>1, <1>2
<1>7. ~Loose(e) /\ (e.op \in {"ee", "route", "routeP2p", "config"} => e.x = "-")
  BY <1>3, <1>5 DEF Pinned
<1>8. Pinned(m)
  BY <1>2, <1>5, <1>6, <1>7 DEF Pinned, Loose
<1>9. Fits(m, "disable", p)
  BY <1>2, <1>3, <1>5 DEF Fits, IsSet
<1>10. At(m, n)
  BY <1>2, <1>4, <1>6 DEF At, IsSet
<1> QED
  BY <1>2, <1>4, <1>8, <1>9, <1>10 DEF Span, Kind, m

LEMMA FollowsMore ==
  ASSUME NEW a, NEW b, NEW c, NEW d, Follows(a, b),
         c.op = a.op, c.x = a.x, c.to = a.to, "ResetDiscoveryConfig" \notin c.within,
         d.op = b.op, d.x = b.x
  PROVE  Follows(c, d)
BY DEF Follows, IsSet

LEMMA ForgetPart ==
  ASSUME NEW p, NEW w, w = Ignoring("ReInit", ReInit \o Set("llcp", FALSE))
  PROVE  /\ Part(w, Kind("disable", p), 4, 5)
         /\ HasSet(w, "llcpEnabled", FALSE) /\ Has(w, "off", "up")
         /\ \A b \in Base \cup {"ee"} : Has(w, "on", b)
<1> DEFINE K == Kind("disable", p)
           r == MwDeInit \o MwInit
           t == Set("llcp", FALSE)
           q == r \o t
<1>1. w = Ignoring("ReInit", q)
  BY DEF ReInit
<1>2. K \subseteq AStep /\ 4 \in Nat /\ 5 \in Nat /\ 4 <= 5 /\ 5 \notin Singular
  BY KindIn DEF Singular
<1>3. Part(r, K, 4, 5) /\ HasSet(r, "llcpEnabled", FALSE) /\ \A b \in Base \cup {"ee"} : Has(r, "on", b)
  BY RebuiltPart
<1>4. Part(t, K, 5, 5)
  <2> DEFINE e == Step("set", "llcp", FALSE)
  <2>1. e.op = "set" /\ e.x = "llcp" /\ e.to = FALSE /\ e.within = {}
    BY DEF Step
  <2>2. e \in AStep
    BY DEF Step, AStep, Flags
  <2>3. t = <<e>>
    BY DEF Set
  <2> HIDE DEF e
  <2>4. Pinned(e) /\ Fits(e, "disable", p) /\ At(e, 5)
    BY <2>1 DEF Pinned, Fits, At, Loose, Slack, CeDown, IsSet
  <2>5. e.op \notin {"ee", "route"} /\ 5 \in 1..13 /\ 5 # 4
    BY <2>1
  <2>6. Part(<<e>>, Kind("disable", p), 5, 5)
    BY <2>2, <2>4, <2>5, PartStep
  <2> QED
    BY <2>3, <2>6
<1>5. MwInit \in Seq(Plain) /\ MwDeInit \in Seq(Plain)
  BY MwPlain
<1>6. r \in Seq(Plain)
  BY <1>5, Joined
<1>7. t \in Seq(Plain)
  BY PlainOnes
<1>8. Has(r, "off", "up")
  <2>1. Has(MwDeInit, "off", "up")
    BY MwDeInitBuilds
  <2> QED
    BY <1>5, <2>1, HasJoin
<1> HIDE DEF r, t, K
<1>9. /\ Part(q, K, 4, 5)
      /\ \A op, x : Has(q, op, x) <=> Has(r, op, x) \/ Has(t, op, x)
      /\ \A f, v : HasSet(q, f, v) <=> HasSet(r, f, v) \/ HasSet(t, f, v)
  BY <1>2, <1>3, <1>4, PartThen
<1>10. q \in Seq(Plain)
  BY <1>6, <1>7, Joined
<1>11. HasSet(q, "llcpEnabled", FALSE)
  <2> DEFINE y == FALSE
  <2>1. HasSet(r, "llcpEnabled", y)
    BY <1>3
  <2> HIDE DEF y
  <2>2. HasSet(q, "llcpEnabled", y)
    BY <2>1, <1>9
  <2> QED
    BY <2>2 DEF y
<1>12. Has(q, "off", "up") /\ \A b \in Base \cup {"ee"} : Has(q, "on", b)
  BY <1>3, <1>8, <1>9
<1> HIDE DEF q
<1> DEFINE S == Span(K, 4, 5) \cap Plain
           T == Span(K, 4, 5)
<1>13. q \in Seq(S)
  BY <1>9, <1>10, SeqBoth DEF Part
<1>14. S \subseteq AStep
  BY DEF Plain
<1>15. \A e \in S : More(e, "ReInit") \in T
  BY PlainMore DEF K
<1>16. \A e \in S : e.within \subseteq {"SetConfig", "InitRouting"}
  BY DEF Plain
<1> DEFINE v == Ignoring("ReInit", q)
<1>25. w = v
  BY <1>1
<1> HIDE DEF S, T
<1>17. /\ v \in Seq(T) /\ Len(v) = Len(q)
       /\ \A i \in 1..Len(q) : v[i].op = q[i].op /\ v[i].x = q[i].x /\ v[i].to = q[i].to /\ v[i].within = q[i].within \cup {"ReInit"}
  <2> DEFINE f == "ReInit"
  <2>1. \A e \in S : More(e, f) \in T
    BY <1>15
  <2>2. v = Ignoring(f, q)
    OBVIOUS
  <2> HIDE DEF v, f
  <2>3. Ignoring(f, q) \in Seq(T) /\ Len(Ignoring(f, q)) = Len(q)
    BY <1>13, <1>14, <2>1, IgnoringIs
  <2>4. \A i \in 1..Len(q) : /\ Ignoring(f, q)[i].op = q[i].op
                             /\ Ignoring(f, q)[i].x = q[i].x
                             /\ Ignoring(f, q)[i].to = q[i].to
                             /\ Ignoring(f, q)[i].within = q[i].within \cup {f}
    <3> SUFFICES ASSUME NEW i \in 1..Len(q)
                 PROVE  /\ Ignoring(f, q)[i].op = q[i].op
                        /\ Ignoring(f, q)[i].x = q[i].x
                        /\ Ignoring(f, q)[i].to = q[i].to
                        /\ Ignoring(f, q)[i].within = q[i].within \cup {f}
      OBVIOUS
    <3>1. q[i] \in AStep
      BY <1>13, <1>14
    <3>2. Ignoring(f, q)[i] = More(q[i], f)
      BY DEF Ignoring, More
    <3> QED
      BY <3>1, <3>2, WithinMore
  <2>5. \A i \in 1..Len(q) : /\ v[i].op = q[i].op
                             /\ v[i].x = q[i].x
                             /\ v[i].to = q[i].to
                             /\ v[i].within = q[i].within \cup {f}
    BY <2>2, <2>4
  <2> QED
    BY <2>2, <2>3, <2>5 DEF f
<1>18. \A i \in 1..Len(q) : "ResetDiscoveryConfig" \notin v[i].within
  <2> SUFFICES ASSUME NEW i \in 1..Len(q) PROVE "ResetDiscoveryConfig" \notin v[i].within
    OBVIOUS
  <2>1. q[i] \in S
    BY <1>13
  <2>2. q[i].within \subseteq {"SetConfig", "InitRouting"}
    BY <1>16, <2>1
  <2>3. v[i].within = q[i].within \cup {"ReInit"}
    BY <1>17
  <2> QED
    BY <2>2, <2>3
<1>20. q \in Seq(AStep)
  BY <1>13, <1>14, SeqIn
<1>21. Reached(v, "up", TRUE) /\ Reached(v, "ee", FALSE)
  <2>1. Reached(q, "up", TRUE) /\ Reached(q, "ee", FALSE)
    BY <1>9 DEF Part
  <2> QED
    BY <1>20, <2>1, IgnoringReached
<1>22. \A op, x : Has(v, op, x) <=> Has(q, op, x)
  BY <1>20, IgnoringSame
<1>23. HasSet(v, "llcpEnabled", FALSE)
  <2> DEFINE y == FALSE
  <2>1. HasSet(q, "llcpEnabled", y)
    BY <1>11
  <2>2. \A g, u : HasSet(v, g, u) <=> HasSet(q, g, u)
    BY <1>20, IgnoringSame
  <2> HIDE DEF y, v
  <2>3. HasSet(v, "llcpEnabled", y)
    BY <2>1, <2>2
  <2> QED
    BY <2>3 DEF y
<1> HIDE DEF v
<1>19. Tidy(v)
  <2> SUFFICES ASSUME NEW i \in 1..Len(v), NEW j \in 1..Len(v), i < j PROVE Follows(v[i], v[j])
    BY DEF Tidy
  <2>1. i \in 1..Len(q) /\ j \in 1..Len(q)
    BY <1>17
  <2>2. Follows(q[i], q[j])
    BY <1>9, <2>1 DEF Part, Tidy
  <2> QED
    BY <1>17, <1>18, <2>1, <2>2, FollowsMore
<1>24. Restores(v)
  BY <1>9, <1>22 DEF Part, Restores
<1>26. Part(v, K, 4, 5)
  BY <1>17, <1>19, <1>21, <1>24 DEF Part, T
<1> QED
  BY <1>12, <1>22, <1>23, <1>25, <1>26 DEF K

-----------------------------------------------------------------------------
(* The programs of the six calls.                                          *)

(* The steps of the calls: their order and what they register.             *)
LEMMA ReturnPart ==
  ASSUME NEW name, NEW p
  PROVE  Part(<<Return>>, Kind(name, p), 13, 13)
<1> DEFINE e == Return
<1>1. e.op = "return" /\ e.x = "-" /\ e.within = {} /\ e \in AStep
  BY DEF Return, Step, AStep
<1> HIDE DEF e
<1>2. Pinned(e) /\ Fits(e, name, p) /\ At(e, 13)
  BY <1>1 DEF Pinned, Fits, At, Loose, Slack, CeDown, IsSet
<1>3. e.op \notin {"ee", "route"} /\ 13 \in 1..13 /\ 13 # 4
  BY <1>1
<1>4. Part(<<e>>, Kind(name, p), 13, 13)
  BY <1>1, <1>2, <1>3, PartStep
<1> QED
  BY <1>4 DEF e

LEMMA EnableProgram ==
  ASSUME NEW p \in Tests, ~hdl.llcp, NEW P, P = EnableDiscovery(p) \o <<Return>>
  PROVE  /\ Part(P, Kind("enable", p), 1, 13)
         /\ \A f \in {"app", "prev", "disc"} : HasSet(P, f, p)
         /\ HasSet(P, "idle", FALSE)
         /\ "llcp" \in p => HasSet(P, "llcp", TRUE) /\ HasSet(P, "llcpEnabled", TRUE)
         /\ "hceA" \in p => HasSet(P, "protocols", {"ISO_DEP"})
         /\ "hceF" \in p => HasSet(P, "felicaHandle", TRUE)
         /\ Has(P, "mode", "-") /\ Has(P, "on", "disc")
         /\ "p2p" \in p => Has(P, "routeP2p", "-")
         /\ \A x \in Marks \cup {"isoDepListen"} : Wants(p, x) => Has(P, "on", x)
         /\ HostCE(p) /\ ~Wants(p, "isoDepListen") => Has(P, "off", "isoDepListen")
         /\ Emulates(p) => Has(P, "on", "ee")
<1> DEFINE K == Kind("enable", p)
           k == "llcp" \in p
           u == UpdateConfigPrams(p)
           l == If(k /\ ~hdl.llcp, LlcpRegister)
           c == CeConfigure(p)
           m == MwEnableDiscovery(p)
           r == <<Return>>
           a == u \o l
           b == a \o c
           d == b \o m
           q == d \o r
           tt == TRUE
           ff == FALSE
           ip == {"ISO_DEP"}
<1>1. P = q
  BY DEF EnableDiscovery
<1>2. K \subseteq AStep
  BY KindIn
<1>3. Part(u, K, 1, 5) /\ HasSet(u, "app", p) /\ HasSet(u, "prev", p)
  BY UpdatePart
<1>4. /\ Part(l, K, 6, 7)
      /\ k => HasSet(l, "llcp", tt) /\ HasSet(l, "llcpEnabled", tt) /\ \A x \in LlcpEnds : Has(l, "on", x)
  <2>1. k => /\ Part(LlcpRegister, K, 6, 7) /\ \A x \in LlcpEnds : Has(LlcpRegister, "on", x)
             /\ HasSet(LlcpRegister, "llcp", TRUE) /\ HasSet(LlcpRegister, "llcpEnabled", TRUE)
    BY LlcpPart
  <2>2. Part(l, K, 6, 7)
    BY <2>1, PartMaybe
  <2>3. k => l = LlcpRegister
    BY DEF If
  <2> HIDE DEF l
  <2> QED
    BY <2>1, <2>2, <2>3
<1>5. /\ Part(c, K, 7, 7)
      /\ Emulates(p) => Has(c, "on", "ee")
      /\ "hceF" \in p => Has(c, "on", "felica") /\ HasSet(c, "felicaHandle", tt)
      /\ "hceA" \in p => HasSet(c, "protocols", ip)
  BY CeConfigPart
<1>6. /\ Part(m, K, 8, 12) /\ Has(m, "mode", "-") /\ Has(m, "on", "disc")
      /\ "p2p" \in p => Has(m, "routeP2p", "-")
      /\ HasSet(m, "disc", p) /\ HasSet(m, "idle", ff)
      /\ \A x \in Listened : Wants(p, x) => Has(m, "on", x)
      /\ HostCE(p) /\ ~Wants(p, "isoDepListen") => Has(m, "off", "isoDepListen")
  BY MwEnablePart
<1>7. Part(r, K, 13, 13)
  BY ReturnPart
<1> HIDE DEF K, k, u, l, c, m, r, tt, ff, ip
<1>8. /\ Part(a, K, 1, 7)
      /\ \A op, x : Has(a, op, x) <=> Has(u, op, x) \/ Has(l, op, x)
      /\ \A f, v : HasSet(a, f, v) <=> HasSet(u, f, v) \/ HasSet(l, f, v)
  <2>1. Part(u, K, 1, 5)
    BY <1>3
  <2>2. Part(l, K, 6, 7)
    BY <1>4
  <2>3. 1 \in Nat /\ 5 \in Nat /\ 6 \in Nat /\ 7 \in Nat /\ 1 <= 6 /\ 5 <= 7 /\ 5 < 6
    OBVIOUS
  <2>4. Part(u \o l, K, 1, 7)
    BY <1>2, <2>1, <2>2, <2>3, PartCat
  <2>5. u \in Seq(AStep) /\ l \in Seq(AStep)
    BY <1>2, <2>1, <2>2, PartSeq
  <2> QED
    BY <2>4, <2>5, HasJoin
<1> HIDE DEF a
<1>9. /\ Part(b, K, 1, 7)
      /\ \A op, x : Has(b, op, x) <=> Has(a, op, x) \/ Has(c, op, x)
      /\ \A f, v : HasSet(b, f, v) <=> HasSet(a, f, v) \/ HasSet(c, f, v)
  <2>1. Part(a, K, 1, 7)
    BY <1>8
  <2>2. Part(c, K, 7, 7)
    BY <1>5
  <2>3. 1 \in Nat /\ 7 \in Nat /\ 1 <= 7 /\ 7 \notin Singular
    BY DEF Singular
  <2>4. Part(a \o c, K, 1, 7)
    BY <1>2, <2>1, <2>2, <2>3, PartCat
  <2>5. a \in Seq(AStep) /\ c \in Seq(AStep)
    BY <1>2, <2>1, <2>2, PartSeq
  <2> QED
    BY <2>4, <2>5, HasJoin
<1> HIDE DEF b
<1>10. /\ Part(d, K, 1, 12)
       /\ \A op, x : Has(d, op, x) <=> Has(b, op, x) \/ Has(m, op, x)
       /\ \A f, v : HasSet(d, f, v) <=> HasSet(b, f, v) \/ HasSet(m, f, v)
  <2>1. Part(b, K, 1, 7)
    BY <1>9
  <2>2. Part(m, K, 8, 12)
    BY <1>6
  <2>3. 1 \in Nat /\ 7 \in Nat /\ 8 \in Nat /\ 12 \in Nat /\ 1 <= 8 /\ 7 <= 12 /\ 7 < 8
    OBVIOUS
  <2>4. Part(b \o m, K, 1, 12)
    BY <1>2, <2>1, <2>2, <2>3, PartCat
  <2>5. b \in Seq(AStep) /\ m \in Seq(AStep)
    BY <1>2, <2>1, <2>2, PartSeq
  <2> QED
    BY <2>4, <2>5, HasJoin
<1> HIDE DEF d
<1>11. /\ Part(q, K, 1, 13)
       /\ \A op, x : Has(q, op, x) <=> Has(d, op, x) \/ Has(r, op, x)
       /\ \A f, v : HasSet(q, f, v) <=> HasSet(d, f, v) \/ HasSet(r, f, v)
  <2>1. Part(d, K, 1, 12)
    BY <1>10
  <2>2. 1 \in Nat /\ 12 \in Nat /\ 13 \in Nat /\ 1 <= 13 /\ 12 <= 13 /\ 12 < 13
    OBVIOUS
  <2>3. Part(d \o r, K, 1, 13)
    BY <1>2, <1>7, <2>1, <2>2, PartCat
  <2>4. d \in Seq(AStep) /\ r \in Seq(AStep)
    BY <1>2, <1>7, <2>1, PartSeq
  <2> QED
    BY <2>3, <2>4, HasJoin
<1> HIDE DEF q
<1>12. \A op, x : Has(u, op, x) \/ Has(l, op, x) \/ Has(c, op, x) \/ Has(m, op, x) => Has(q, op, x)
  BY <1>8, <1>9, <1>10, <1>11
<1>13. \A f, v : HasSet(u, f, v) \/ HasSet(l, f, v) \/ HasSet(c, f, v) \/ HasSet(m, f, v) => HasSet(q, f, v)
  BY <1>8, <1>9, <1>10, <1>11
<1>14. \A f \in {"app", "prev", "disc"} : HasSet(q, f, p)
  BY <1>3, <1>6, <1>13
<1>15. HasSet(q, "idle", ff)
  BY <1>6, <1>13
<1>16. k => HasSet(q, "llcp", tt) /\ HasSet(q, "llcpEnabled", tt)
  BY <1>4, <1>13
<1>17. "hceA" \in p => HasSet(q, "protocols", ip)
  BY <1>5, <1>13
<1>18. "hceF" \in p => HasSet(q, "felicaHandle", tt)
  BY <1>5, <1>13
<1>19. /\ Has(q, "mode", "-") /\ Has(q, "on", "disc")
       /\ "p2p" \in p => Has(q, "routeP2p", "-")
       /\ Emulates(p) => Has(q, "on", "ee")
       /\ HostCE(p) /\ ~Wants(p, "isoDepListen") => Has(q, "off", "isoDepListen")
  BY <1>5, <1>6, <1>12
<1>20. \A x \in Marks \cup {"isoDepListen"} : Wants(p, x) => Has(q, "on", x)
  <2> SUFFICES ASSUME NEW x \in Marks \cup {"isoDepListen"}, Wants(p, x) PROVE Has(q, "on", x)
    OBVIOUS
  <2>1. CASE x \in Listened
    BY <1>6, <1>12, <2>1
  <2>2. CASE x = "felica"
    <3>1. "hceF" \in p
      BY <2>2 DEF Wants, LlcpEnds
    <3> QED
      BY <1>5, <1>12, <2>2, <3>1
  <2>3. CASE x \in LlcpEnds
    <3>1. k
      BY <2>3 DEF Wants, LlcpEnds, k
    <3> QED
      BY <1>4, <1>12, <2>3, <3>1
  <2> QED
    BY <2>1, <2>2, <2>3 DEF Marks, Listened
<1> QED
  BY <1>1, <1>11, <1>14, <1>15, <1>16, <1>17, <1>18, <1>19, <1>20 DEF K, k, tt, ff, ip


(* What the steps of the end of card emulation begin with.                 *)
Begins(w, disc) ==
  /\ "hceF" \in disc /\ "hceA" \notin disc => OffAt(w, 1, "felica")
  /\ "hceF" \in disc /\ "hceA" \in disc =>
       SetAt(w, 1, "protocols") /\ OffAt(w, 2, "aid") /\ OffAt(w, 3, "ee") /\ OffAt(w, 4, "felica")
  /\ NfceeCE(disc) /\ ~HostCE(disc) => OffAt(w, 1, "ee") /\ OffAt(w, 2, "hci")

LEMMA CatBegins ==
  ASSUME NEW S, NEW p \in Seq(S), NEW q \in Seq(S), NEW disc, Begins(p, disc)
  PROVE  Begins(p \o q, disc)
<1>1. /\ \A i, x : OffAt(p, i, x) => OffAt(p \o q, i, x)
      /\ \A i, x : SetAt(p, i, x) => SetAt(p \o q, i, x)
  BY CatAt
<1> DEFINE w == p \o q
<1> HIDE DEF w
<1>2. /\ \A i, x : OffAt(p, i, x) => OffAt(w, i, x)
      /\ \A i, x : SetAt(p, i, x) => SetAt(w, i, x)
  BY <1>1 DEF w
<1>3. Begins(w, disc)
  BY <1>2 DEF Begins
<1> QED
  BY <1>3 DEF w

LEMMA DisableProgram ==
  ASSUME NEW p, NEW P, P = DisableDiscovery \o <<Return>>
  PROVE  /\ Part(P, Kind("disable", p), 1, 13)
         /\ Has(P, "off", "disc")
         /\ \A x \in Techs : Undone(hdl.disc, x) => Has(P, "off", x)
         /\ HostCE(hdl.disc) => ResetsAid(P)
         /\ hdl.llcp => Has(P, "off", "up") /\ HasSet(P, "llcpEnabled", FALSE)
         /\ hdl.app = hdl.disc /\ hdl.prev = hdl.disc => Begins(P, hdl.disc)
<1> DEFINE K == Kind("disable", p)
           g == hdl.disc
           k == hdl.llcp
           s == hdl.app = hdl.disc /\ hdl.prev = hdl.disc
           c == CeDeInit(hdl.app, hdl.prev, hdl.disc)
           m == MwDisableDiscovery(g)
           w == Ignoring("ReInit", ReInit \o Set("llcp", FALSE))
           l == If(k, w)
           r == <<Return>>
           a == c \o m
           b == a \o l
           q == b \o r
           ff == FALSE
<1>1. P = q
  BY DEF DisableDiscovery
<1>2. K \subseteq AStep
  BY KindIn
<1>3. Part(c, K, 1, 1) /\ (s => Begins(c, g))
  BY CeDeInitPart DEF Begins
<1>4. /\ Part(m, K, 1, 3) /\ Has(m, "off", "disc")
      /\ \A x \in Techs : Undone(g, x) => Has(m, "off", x)
      /\ HostCE(g) => ResetsAid(m)
  BY MwDisablePart
<1>5. /\ Part(l, K, 4, 5)
      /\ k => HasSet(l, "llcpEnabled", ff) /\ Has(l, "off", "up")
  <2>1. Part(w, K, 4, 5) /\ HasSet(w, "llcpEnabled", FALSE) /\ Has(w, "off", "up")
    BY ForgetPart
  <2> HIDE DEF w
  <2>2. Part(l, K, 4, 5)
    BY <2>1, PartMaybe
  <2>3. k => l = w
    BY DEF If
  <2> HIDE DEF l
  <2> QED
    BY <2>1, <2>2, <2>3
<1>6. Part(r, K, 13, 13)
  BY ReturnPart
<1> HIDE DEF K, g, k, s, c, m, l, r, ff
<1>7. Part(a, K, 1, 3) /\ c \in Seq(AStep) /\ m \in Seq(AStep)
  <2>1. Part(c, K, 1, 1) /\ Part(m, K, 1, 3)
    BY <1>3, <1>4
  <2>2. 1 \in Nat /\ 3 \in Nat /\ 1 <= 1 /\ 1 <= 3 /\ 1 \notin Singular
    BY DEF Singular
  <2> QED
    BY <1>2, <2>1, <2>2, PartCat, PartSeq
<1>8. /\ Has(a, "off", "disc") /\ (s => Begins(a, g))
      /\ \A x \in Techs : Undone(g, x) => Has(a, "off", x)
      /\ HostCE(g) => ResetsAid(a)
  <2>1. \A op, x : Has(a, op, x) <=> Has(c, op, x) \/ Has(m, op, x)
    BY <1>7, HasJoin
  <2>2. s => Begins(a, g)
    BY <1>3, <1>7, CatBegins
  <2>3. HostCE(g) => ResetsAid(a)
    BY <1>4, <1>7, CatResets
  <2> HIDE DEF a
  <2> QED
    BY <1>4, <2>1, <2>2, <2>3
<1>9. Part(b, K, 1, 5) /\ a \in Seq(AStep) /\ l \in Seq(AStep)
  <2>1. Part(a, K, 1, 3) /\ Part(l, K, 4, 5)
    BY <1>5, <1>7
  <2> HIDE DEF a
  <2>2. 1 \in Nat /\ 3 \in Nat /\ 4 \in Nat /\ 5 \in Nat /\ 1 <= 4 /\ 3 <= 5 /\ 3 < 4
    OBVIOUS
  <2> QED
    BY <1>2, <2>1, <2>2, PartCat, PartSeq
<1> HIDE DEF a
<1>10. /\ Has(b, "off", "disc") /\ (s => Begins(b, g))
       /\ \A x \in Techs : Undone(g, x) => Has(b, "off", x)
       /\ HostCE(g) => ResetsAid(b)
       /\ k => HasSet(b, "llcpEnabled", ff) /\ Has(b, "off", "up")
  <2>1. /\ \A op, x : Has(b, op, x) <=> Has(a, op, x) \/ Has(l, op, x)
        /\ \A f, v : HasSet(b, f, v) <=> HasSet(a, f, v) \/ HasSet(l, f, v)
    BY <1>9, HasJoin
  <2>2. s => Begins(b, g)
    BY <1>8, <1>9, CatBegins
  <2>3. HostCE(g) => ResetsAid(b)
    BY <1>8, <1>9, CatResets
  <2> HIDE DEF b
  <2> QED
    BY <1>5, <1>8, <2>1, <2>2, <2>3
<1>11. Part(q, K, 1, 13) /\ b \in Seq(AStep) /\ r \in Seq(AStep)
  <2>1. Part(b, K, 1, 5)
    BY <1>9
  <2> HIDE DEF b
  <2>2. 1 \in Nat /\ 5 \in Nat /\ 13 \in Nat /\ 1 <= 13 /\ 5 <= 13 /\ 5 < 13
    OBVIOUS
  <2> QED
    BY <1>2, <1>6, <2>1, <2>2, PartCat, PartSeq
<1> HIDE DEF b
<1>12. /\ Has(q, "off", "disc") /\ (s => Begins(q, g))
       /\ \A x \in Techs : Undone(g, x) => Has(q, "off", x)
       /\ HostCE(g) => ResetsAid(q)
       /\ k => HasSet(q, "llcpEnabled", ff) /\ Has(q, "off", "up")
  <2>1. /\ \A op, x : Has(q, op, x) <=> Has(b, op, x) \/ Has(r, op, x)
        /\ \A f, v : HasSet(q, f, v) <=> HasSet(b, f, v) \/ HasSet(r, f, v)
    BY <1>11, HasJoin
  <2>2. s => Begins(q, g)
    BY <1>10, <1>11, CatBegins
  <2>3. HostCE(g) => ResetsAid(q)
    BY <1>10, <1>11, CatResets
  <2> HIDE DEF q
  <2> QED
    BY <1>10, <2>1, <2>2, <2>3
<1> HIDE DEF q
<1> QED
  BY <1>1, <1>11, <1>12 DEF K, g, k, s, ff


(* The restart's two halves, whatever the handles keep.                    *)
LEMMA RestartTidy ==
  ASSUME hdl.prev \in Tests, NEW P, P = Restart \o <<Return>>
  PROVE  Tidy(P) /\ ~Has(P, "off", "up") /\ ~Has(P, "off", "driver")
<1> DEFINE g == hdl.disc
           h == hdl.prev
           m == MwDisableDiscovery(g)
           e == MwEnableDiscovery(h)
           r == <<Return>>
           a == m \o e
           q == a \o r
           U == Span(AStep, 1, 3)
           V == Span(AStep, 8, 13)
<1>1. P = q
  BY DEF Restart
<1>2. m \in Seq(U) /\ Tidy(m)
  <2>1. Part(m, Kind("restart", g), 1, 3)
    BY MwDisablePart
  <2>2. Span(Kind("restart", g), 1, 3) \subseteq U
    BY KindIn DEF Span
  <2> HIDE DEF m, U
  <2> QED
    BY <2>1, <2>2, SeqIn DEF Part
<1>3. e \in Seq(V) /\ Tidy(e) /\ r \in Seq(V) /\ Tidy(r)
  <2> DEFINE K == Kind("restart", h)
  <2>1. Part(e, K, 8, 12)
    BY MwEnablePart
  <2>2. Part(r, K, 13, 13)
    BY ReturnPart
  <2>3. K \subseteq AStep
    BY KindIn
  <2> HIDE DEF e, r, K
  <2>4. Span(K, 8, 12) \subseteq V /\ Span(K, 13, 13) \subseteq V
    <3>1. 8..12 \subseteq 8..13 /\ 13..13 \subseteq 8..13
      OBVIOUS
    <3> QED
      BY <2>3, <3>1 DEF Span
  <2> HIDE DEF V
  <2> QED
    BY <2>1, <2>2, <2>4, SeqIn DEF Part
<1>4. Tidy(e \o r) /\ e \o r \in Seq(V)
  <2> DEFINE K == Kind("restart", h)
  <2>1. Part(e, K, 8, 12)
    BY MwEnablePart
  <2>2. Part(r, K, 13, 13)
    BY ReturnPart
  <2>3. K \subseteq AStep
    BY KindIn
  <2> HIDE DEF e, r, K, V
  <2>4. 8 \in Nat /\ 12 \in Nat /\ 13 \in Nat /\ 8 <= 13 /\ 12 <= 13 /\ 12 < 13
    OBVIOUS
  <2>5. Part(e \o r, K, 8, 13)
    BY <2>1, <2>2, <2>3, <2>4, PartCat
  <2>6. e \o r \in Seq(V)
    BY <1>3, Joined
  <2> QED
    BY <2>5, <2>6 DEF Part
<1>5. \A x \in U : \A y \in V : Follows(x, y)
  <2>1. AStep \subseteq AStep /\ 1 \in Nat /\ 3 \in Nat /\ 8 \in Nat /\ 13 \in Nat /\ 3 < 8
    OBVIOUS
  <2> QED
    BY <2>1, SpanFollows
<1>6. \A x \in U \cup V : ~(x.op = "off" /\ x.x \in {"up", "driver"})
  BY DEF Span, At
<1> HIDE DEF m, e, r, U, V
<1>7. Tidy(m \o (e \o r))
  BY <1>2, <1>4, <1>5, TidyCat
<1>8. q = m \o (e \o r)
  <2>1. m \in Seq(U \cup V) /\ e \in Seq(U \cup V) /\ r \in Seq(U \cup V)
    BY <1>2, <1>3, SeqIn
  <2> QED
    BY <2>1, CatAssoc
<1> HIDE DEF q
<1>9. q \in Seq(U \cup V)
  <2>1. m \in Seq(U \cup V) /\ e \o r \in Seq(U \cup V)
    BY <1>2, <1>4, SeqIn
  <2> QED
    BY <1>8, <2>1, Joined
<1>10. \A i \in 1..Len(q) : q[i] \in U \cup V
  BY <1>9
<1>11. ~Has(q, "off", "up") /\ ~Has(q, "off", "driver")
  BY <1>6, <1>10 DEF Has
<1> QED
  BY <1>1, <1>7, <1>8, <1>11

LEMMA RestartProgram ==
  ASSUME NEW p \in Tests, hdl.prev = p, hdl.disc = p, NEW P, P = Restart \o <<Return>>
  PROVE  /\ Part(P, Kind("restart", p), 1, 13)
         /\ HasSet(P, "disc", p) /\ HasSet(P, "idle", FALSE)
         /\ Has(P, "mode", "-") /\ Has(P, "on", "disc") /\ Has(P, "off", "disc")
         /\ "p2p" \in p => Has(P, "routeP2p", "-")
         /\ \A x \in Listened : Wants(p, x) => Has(P, "on", x)
         /\ HostCE(p) /\ ~Wants(p, "isoDepListen") => Has(P, "off", "isoDepListen")
         /\ ~Has(P, "on", "felica") /\ ~HasSet(P, "llcpEnabled", FALSE)
<1> DEFINE K == Kind("restart", p)
           m == MwDisableDiscovery(p)
           e == MwEnableDiscovery(p)
           r == <<Return>>
           a == m \o e
           q == a \o r
           ff == FALSE
<1>1. P = q
  BY DEF Restart
<1>2. K \subseteq AStep
  BY KindIn
<1>3. Part(m, K, 1, 3) /\ Has(m, "off", "disc")
  BY MwDisablePart
<1>4. /\ Part(e, K, 8, 12) /\ Has(e, "mode", "-") /\ Has(e, "on", "disc")
      /\ "p2p" \in p => Has(e, "routeP2p", "-")
      /\ HasSet(e, "disc", p) /\ HasSet(e, "idle", ff)
      /\ \A x \in Listened : Wants(p, x) => Has(e, "on", x)
      /\ HostCE(p) /\ ~Wants(p, "isoDepListen") => Has(e, "off", "isoDepListen")
  BY MwEnablePart
<1>5. Part(r, K, 13, 13)
  BY ReturnPart
<1> HIDE DEF K, m, e, r
<1>6. ASSUME NEW s, NEW l, NEW h, Part(s, K, l, h), \A n \in l..h : n \in 1..3 \/ n \in 8..13
      PROVE  ~Has(s, "on", "felica") /\ ~HasSet(s, "llcpEnabled", ff)
  <2>1. \A i \in 1..Len(s) : s[i] \in Span(K, l, h)
    BY <1>6 DEF Part
  <2>2. \A x \in Span(K, l, h) : ~(x.op = "on" /\ x.x = "felica") /\ ~(IsSet(x, "llcpEnabled") /\ x.to = ff)
    BY <1>6 DEF Span, At, IsSet, ff
  <2> QED
    BY <2>1, <2>2 DEF Has, HasSet
<1> HIDE DEF ff
<1>7. Part(a, K, 1, 12) /\ m \in Seq(AStep) /\ e \in Seq(AStep)
  <2>1. 1 \in Nat /\ 3 \in Nat /\ 8 \in Nat /\ 12 \in Nat /\ 1 <= 8 /\ 3 <= 12 /\ 3 < 8
    OBVIOUS
  <2>2. Part(e, K, 8, 12)
    BY <1>4
  <2> QED
    BY <1>2, <1>3, <2>1, <2>2, PartCat, PartSeq
<1>8. /\ \A op, x : Has(a, op, x) <=> Has(m, op, x) \/ Has(e, op, x)
      /\ \A f, v : HasSet(a, f, v) <=> HasSet(m, f, v) \/ HasSet(e, f, v)
  BY <1>7, HasJoin
<1> HIDE DEF a
<1>9. Part(q, K, 1, 13) /\ a \in Seq(AStep) /\ r \in Seq(AStep)
  <2>1. Part(a, K, 1, 12)
    BY <1>7
  <2>2. 1 \in Nat /\ 12 \in Nat /\ 13 \in Nat /\ 1 <= 13 /\ 12 <= 13 /\ 12 < 13
    OBVIOUS
  <2> QED
    BY <1>2, <1>5, <2>1, <2>2, PartCat, PartSeq
<1>10. /\ \A op, x : Has(q, op, x) <=> Has(a, op, x) \/ Has(r, op, x)
       /\ \A f, v : HasSet(q, f, v) <=> HasSet(a, f, v) \/ HasSet(r, f, v)
  BY <1>9, HasJoin
<1> HIDE DEF q
<1>11. /\ \A op, x : Has(q, op, x) <=> Has(m, op, x) \/ Has(e, op, x) \/ Has(r, op, x)
       /\ \A f, v : HasSet(q, f, v) <=> HasSet(m, f, v) \/ HasSet(e, f, v) \/ HasSet(r, f, v)
  BY <1>8, <1>10
<1>12. /\ Has(q, "mode", "-") /\ Has(q, "on", "disc") /\ Has(q, "off", "disc")
       /\ "p2p" \in p => Has(q, "routeP2p", "-")
       /\ HasSet(q, "disc", p) /\ HasSet(q, "idle", ff)
       /\ \A x \in Listened : Wants(p, x) => Has(q, "on", x)
       /\ HostCE(p) /\ ~Wants(p, "isoDepListen") => Has(q, "off", "isoDepListen")
  BY <1>3, <1>4, <1>11
<1>13. /\ ~Has(m, "on", "felica") /\ ~HasSet(m, "llcpEnabled", ff)
       /\ ~Has(e, "on", "felica") /\ ~HasSet(e, "llcpEnabled", ff)
       /\ ~Has(r, "on", "felica") /\ ~HasSet(r, "llcpEnabled", ff)
  <2>1. Part(m, K, 1, 3) /\ \A n \in 1..3 : n \in 1..3 \/ n \in 8..13
    BY <1>3
  <2>2. Part(e, K, 8, 12) /\ \A n \in 8..12 : n \in 1..3 \/ n \in 8..13
    BY <1>4
  <2>3. Part(r, K, 13, 13) /\ \A n \in 13..13 : n \in 1..3 \/ n \in 8..13
    BY <1>5
  <2> QED
    BY <1>6, <2>1, <2>2, <2>3
<1>14. ~Has(q, "on", "felica") /\ ~HasSet(q, "llcpEnabled", ff)
  BY <1>11, <1>13
<1> QED
  BY <1>1, <1>9, <1>12, <1>14 DEF K, ff


(* The initialisation asks the stack nothing before it is up.              *)
Fresh(s, K, l, h) == Part(s, K, l, h) /\ Reached(s, "up", FALSE)

LEMMA FreshThen ==
  ASSUME NEW K, K \subseteq AStep, NEW n \in {5, 13}, NEW p, NEW q, Fresh(p, K, 5, 5), Fresh(q, K, n, n)
  PROVE  /\ Fresh(p \o q, K, 5, n)
         /\ \A op, x : Has(p \o q, op, x) <=> Has(p, op, x) \/ Has(q, op, x)
<1>1. Part(p, K, 5, 5) /\ Part(q, K, n, n) /\ Reached(p, "up", FALSE) /\ Reached(q, "up", FALSE)
  BY DEF Fresh
<1>2. 5 \in Nat /\ n \in Nat /\ 5 <= n /\ 5 \notin Singular
  BY DEF Singular
<1>3. Part(p \o q, K, 5, n)
  BY <1>1, <1>2, PartCat
<1>4. p \in Seq(AStep) /\ q \in Seq(AStep)
  BY <1>1, PartSeq
<1>5. Reached(p \o q, "up", FALSE)
  BY <1>1, <1>4, CatReached
<1> QED
  BY <1>3, <1>4, <1>5, HasJoin DEF Fresh

LEMMA FreshStep ==
  ASSUME NEW p, NEW n \in {5, 13}, NEW e \in AStep, e.within \cap Slack = {}, e.x \notin {"ndef", "p2p", "isoDepListen"},
         e.op = "create" \/ (e.op = "set" /\ e.x \in {"init", "jni"}) \/ (e.op = "return" /\ n = 13), e.op # "return" => n = 5
  PROVE  Fresh(<<e>>, Kind("init", p), n, n)
<1>1. e.within \cap CeDown = {} /\ "ResetDiscoveryConfig" \notin e.within /\ "DiscoveryStop" \notin e.within
      /\ "RoutingUpdate" \notin e.within /\ "P2pRoutingConfigure" \notin e.within /\ "HciRegister" \notin e.within
  BY DEF Slack, CeDown
<1>2. Pinned(e)
  BY <1>1 DEF Pinned, Loose
<1>3. Fits(e, "init", p)
  BY <1>1 DEF Fits, IsSet
<1>4. At(e, n)
  BY <1>1 DEF At, IsSet
<1>5. n \in 1..13 /\ n # 4 /\ e.op \notin {"ee", "route"}
  OBVIOUS
<1>6. Part(<<e>>, Kind("init", p), n, n)
  BY <1>2, <1>3, <1>4, <1>5, PartStep
<1>7. ~Uses(e, "up")
  BY DEF Uses, AsksStack, Waits
<1> QED
  BY <1>6, <1>7, NoUseOne DEF Fresh


LEMMA InitProgram ==
  ASSUME NEW p, ~hdl.jni, ~hdl.init, NEW P, P = JniInit \o <<Return>>
  PROVE  /\ Fresh(P, Kind("init", p), 5, 13)
         /\ \A b \in Base : Has(P, "on", b)
<1> DEFINE K == Kind("init", p)
           x == Ignoring("queue", Create("dtaq"))
           y == Ignoring("congestion", Create("congestq"))
           z == Ignoring("thread", Create("dta"))
           m == MwInit
           i == Set("init", TRUE)
           j == Set("jni", TRUE)
           r == <<Return>>
           a == x \o y
           b == a \o z
           c == b \o m
           d == c \o i
           e == d \o j
           q == e \o r
<1>1. P = q
  BY DEF JniInit, DtaInit, If
<1>2. K \subseteq AStep
  BY KindIn
<1>3. Fresh(x, K, 5, 5) /\ Fresh(y, K, 5, 5) /\ Fresh(z, K, 5, 5)
  <2>1. ASSUME NEW o \in {"dtaq", "congestq", "dta"}, NEW f \in {"queue", "congestion", "thread"}
        PROVE  Fresh(Ignoring(f, Create(o)), K, 5, 5)
    <3> DEFINE s == More(Step("create", o, "-"), f)
    <3>1. Step("create", o, "-") \in AStep /\ f \in Around /\ f \notin Slack
      BY DEF Step, AStep, OsalObjects, Around, Slack, CeDown
    <3>2. Ignoring(f, Create(o)) = <<s>> /\ s.op = "create" /\ s.x = o /\ s.within = {f} /\ s \in AStep
      BY <3>1, AloneIs DEF Create
    <3> HIDE DEF s, K
    <3>3. s.within \cap Slack = {} /\ s.x \notin {"ndef", "p2p", "isoDepListen"}
      BY <3>1, <3>2
    <3>4. Fresh(<<s>>, Kind("init", p), 5, 5)
      BY <3>2, <3>3, FreshStep
    <3> QED
      BY <3>2, <3>4 DEF K
  <2> QED
    BY <2>1
<1>4. Fresh(m, K, 5, 5) /\ \A o \in Base : Has(m, "on", o)
  BY MwInitPart DEF Fresh
<1>5. Fresh(i, K, 5, 5) /\ Fresh(j, K, 5, 5)
  <2>1. ASSUME NEW f \in {"init", "jni"}
        PROVE  Fresh(Set(f, TRUE), K, 5, 5)
    <3> DEFINE s == Step("set", f, TRUE)
    <3>1. s \in AStep
      BY DEF Step, AStep, Flags
    <3>2. s.op = "set" /\ s.x = f /\ s.within = {}
      BY DEF Step
    <3>3. Set(f, TRUE) = <<s>>
      BY DEF Set
    <3> HIDE DEF s, K
    <3>4. Fresh(<<s>>, Kind("init", p), 5, 5)
      BY <3>1, <3>2, FreshStep
    <3> QED
      BY <3>3, <3>4 DEF K
  <2> QED
    BY <2>1
<1>6. Fresh(r, K, 13, 13)
  <2> DEFINE s == Return
  <2>1. s \in AStep /\ s.op = "return" /\ s.x = "-" /\ s.within = {}
    BY DEF Return, Step, AStep
  <2> HIDE DEF s, K
  <2>2. Fresh(<<s>>, Kind("init", p), 13, 13)
    BY <2>1, FreshStep
  <2> QED
    BY <2>2 DEF s, K
<1> HIDE DEF K, x, y, z, m, i, j, r
<1>7. Fresh(a, K, 5, 5)
  BY <1>2, <1>3, FreshThen
<1> HIDE DEF a
<1>8. Fresh(b, K, 5, 5)
  BY <1>2, <1>3, <1>7, FreshThen
<1> HIDE DEF b
<1>9. Fresh(c, K, 5, 5) /\ \A o \in Base : Has(c, "on", o)
  BY <1>2, <1>4, <1>8, FreshThen
<1> HIDE DEF c
<1>10. Fresh(d, K, 5, 5) /\ \A o \in Base : Has(d, "on", o)
  BY <1>2, <1>5, <1>9, FreshThen
<1> HIDE DEF d
<1>11. Fresh(e, K, 5, 5) /\ \A o \in Base : Has(e, "on", o)
  BY <1>2, <1>5, <1>10, FreshThen
<1> HIDE DEF e
<1>12. Fresh(q, K, 5, 13) /\ \A o \in Base : Has(q, "on", o)
  BY <1>2, <1>6, <1>11, FreshThen
<1> QED
  BY <1>1, <1>12 DEF K


(* A release ends no function but those that ask something of the stack    *)
(* before, and takes the LLCP mode back.                                   *)
Withdraws(s) ==
  /\ Mild(s) \/ s.op = "return"
  /\ IsSet(s, "llcpEnabled") => s.to = FALSE /\ s.within \cap Minor = {}
Downward == { s \in AStep : Withdraws(s) }

LEMMA DeInitProgram ==
  ASSUME hdl.jni, hdl.init, NEW P, P = JniDeInit \o <<Return>>
  PROVE  P \in Seq(Downward) /\ HasSet(P, "llcpEnabled", FALSE)
<1> DEFINE S == Downward
           m == Ignoring("MwDeInit", MwDeInit)
           x == Delete("dta")
           y == Delete("dtaq")
           z == Delete("congestq")
           i == Set("init", FALSE)
           l == Set("llcp", FALSE)
           j == Set("jni", FALSE)
           r == <<Return>>
           a == m \o x
           b == a \o y
           c == b \o z
           d == c \o i
           e == d \o l
           f == e \o j
           q == f \o r
           ff == FALSE
<1>1. P = q
  BY DEF JniDeInit, DtaDeInit, If
<1>2. m \in Seq(S) /\ HasSet(m, "llcpEnabled", ff)
  <2>1. MwDeInit \in Seq(Downs) /\ HasSet(MwDeInit, "llcpEnabled", ff)
    <3>1. "enable" \in {"enable", "disable"}
      OBVIOUS
    <3> QED
      BY <3>1, MwDeInitPart
  <2>2. Downs \subseteq AStep
    BY DEF Downs
  <2>3. \A s \in Downs : More(s, "MwDeInit") \in S
    <3> SUFFICES ASSUME NEW s \in Downs PROVE More(s, "MwDeInit") \in S
      OBVIOUS
    <3> DEFINE t == More(s, "MwDeInit")
    <3>1. "MwDeInit" \in Around /\ "MwDeInit" \notin Minor /\ "SetConfig" \in Minor
      BY DEF Around, Minor
    <3>2. s \in AStep
      BY DEF Downs
    <3>3. t.op = s.op /\ t.x = s.x /\ t.to = s.to /\ t.within = s.within \cup {"MwDeInit"} /\ t \in AStep
      BY <3>1, <3>2, WithinMore, WithinMoreIn
    <3> HIDE DEF t
    <3>4. Mild(t)
      BY <3>1, <3>3 DEF Downs, Mild, HciOn, OfInit, IsSet, Base
    <3>5. IsSet(t, "llcpEnabled") => t.to = FALSE /\ t.within \cap Minor = {}
      BY <3>1, <3>3 DEF Downs, IsSet
    <3>6. t \in Downward
      BY <3>3, <3>4, <3>5 DEF Downward, Withdraws
    <3> QED
      BY <3>6 DEF t
  <2> HIDE DEF S, ff
  <2>4. m \in Seq(S)
    BY <2>1, <2>2, <2>3, IgnoringIs
  <2>5. MwDeInit \in Seq(AStep)
    BY <2>1, <2>2, SeqIn
  <2>6. HasSet(m, "llcpEnabled", ff)
    BY <2>1, <2>5, IgnoringSame
  <2> QED
    BY <2>4, <2>6
<1>3. x \in Seq(S) /\ y \in Seq(S) /\ z \in Seq(S)
  <2>1. ASSUME NEW o \in OsalObjects PROVE Delete(o) \in Seq(S)
    <3>1. Step("delete", o, "-") \in S
      BY DEF Step, AStep, Downward, Withdraws, Mild, OfInit, IsSet
    <3> HIDE DEF S
    <3> QED
      BY <3>1 DEF Delete
  <2> QED
    BY <2>1 DEF OsalObjects
<1>4. i \in Seq(S) /\ l \in Seq(S) /\ j \in Seq(S)
  <2>1. ASSUME NEW o \in {"init", "llcp", "jni"} PROVE Set(o, FALSE) \in Seq(S)
    <3> DEFINE s == Step("set", o, FALSE)
    <3>1. s \in S
      BY DEF Step, AStep, Downward, Withdraws, Mild, OfInit, IsSet, Flags
    <3>2. Set(o, FALSE) = <<s>>
      BY DEF Set
    <3> HIDE DEF S, s
    <3>3. <<s>> \in Seq(S)
      BY <3>1
    <3> QED
      BY <3>2, <3>3, Zenon
  <2> QED
    BY <2>1
<1>5. r \in Seq(S)
  <2>1. Return \in S
    BY DEF Return, Step, AStep, Downward, Withdraws, IsSet
  <2> HIDE DEF S
  <2> QED
    BY <2>1
<1> HIDE DEF S, m, x, y, z, i, l, j, r, ff
<1>6. ASSUME NEW s \in Seq(S), NEW t \in Seq(S), HasSet(s, "llcpEnabled", ff)
      PROVE  s \o t \in Seq(S) /\ HasSet(s \o t, "llcpEnabled", ff)
  BY <1>6, Joined, HasJoin
<1>7. a \in Seq(S) /\ HasSet(a, "llcpEnabled", ff)
  BY <1>2, <1>3, <1>6
<1> HIDE DEF a
<1>8. b \in Seq(S) /\ HasSet(b, "llcpEnabled", ff)
  BY <1>3, <1>6, <1>7
<1> HIDE DEF b
<1>9. c \in Seq(S) /\ HasSet(c, "llcpEnabled", ff)
  BY <1>3, <1>6, <1>8
<1> HIDE DEF c
<1>10. d \in Seq(S) /\ HasSet(d, "llcpEnabled", ff)
  BY <1>4, <1>6, <1>9
<1> HIDE DEF d
<1>11. e \in Seq(S) /\ HasSet(e, "llcpEnabled", ff)
  BY <1>4, <1>6, <1>10
<1> HIDE DEF e
<1>12. f \in Seq(S) /\ HasSet(f, "llcpEnabled", ff)
  BY <1>4, <1>6, <1>11
<1> HIDE DEF f
<1>13. q \in Seq(S) /\ HasSet(q, "llcpEnabled", ff)
  BY <1>5, <1>6, <1>12
<1> QED
  BY <1>1, <1>13 DEF S, ff

-----------------------------------------------------------------------------
(* The account of what is configured.                                      *)

(* What a call registers, step by step.                                    *)

(* Whatever failed, as long as the library is whole.                       *)
Ground ==
  /\ call.name = "-" => stack = {} /\ ~hdl.llcpEnabled
  /\ call.name = "deinit" =>
       /\ HasSet(prog, "llcpEnabled", FALSE) \/ ~hdl.llcpEnabled
       /\ \A i \in 1..Len(prog) : Withdraws(prog[i])
  /\ ~Gone =>
       /\ Tidy(prog)
       /\ \A b \in Base : Has(prog, "on", b) \/ (b \in stack /\ ~Has(prog, "off", b) /\ ~Has(prog, "off", "up"))

Asks == call.name \in {"enable", "restart"}

(* What the test registers is registered or will be, and nothing else but  *)
(* what earlier tests do not undo.                                         *)
Registered ==
  Asks =>
    /\ \A x \in Marks \cup {"isoDepListen"} :
         IF Wants(call.p, x)
         THEN Has(prog, "on", x) \/ (x \in stack /\ ~Has(prog, "off", x) /\ ~Has(prog, "off", "up"))
         ELSE x \notin stack \/ x \in Stays \cup {"isoDepListen"}
    /\ HostCE(call.p) /\ ~Wants(call.p, "isoDepListen") =>
         Has(prog, "off", "isoDepListen") \/ "isoDepListen" \notin stack
    /\ Emulates(call.p) => Has(prog, "on", "ee") \/ ("ee" \in stack /\ ~Has(prog, "off", "up"))
    /\ "hci" \in stack => NfceeCE(call.p) \/ Mixed

(* The copies of what the application asked for.                           *)
Remembered ==
  Asks =>
    /\ \A f \in {"app", "prev", "disc"} : HasSet(prog, f, call.p) \/ hdl[f] = call.p
    /\ "llcp" \in call.p => HasSet(prog, "llcp", TRUE) \/ hdl.llcp
    /\ "hceA" \in call.p => HasSet(prog, "protocols", {"ISO_DEP"}) \/ hdl.protocols = {"ISO_DEP"}
    /\ "hceF" \in call.p => HasSet(prog, "felicaHandle", TRUE) \/ hdl.felicaHandle

(* The LLCP mode.                                                          *)
Moded ==
  Asks =>
    /\ "llcp" \in call.p => HasSet(prog, "llcpEnabled", TRUE) \/ (hdl.llcpEnabled /\ ~HasSet(prog, "llcpEnabled", FALSE))
    /\ "llcp" \notin call.p => ~hdl.llcpEnabled
    /\ Has(prog, "mode", "-") \/ hdl.llcpMode = ("llcp" \in call.p)

(* The routing.                                                            *)
Routed ==
  Asks /\ "p2p" \in call.p =>
    \/ Has(prog, "routeP2p", "-")
    \/ /\ {"NFC_DEP"} \cup {q \in {"ISO_DEP"} : "hceA" \in call.p} \subseteq route
       /\ ~Has(prog, "route", "-") /\ ~Has(prog, "off", "up")

(* The discovery is stopped before it is configured, and the middleware's  *)
(* state tells whether it runs.                                            *)
Sensitive(s) ==
  \/ s.op \in {"on", "off"} /\ s.x \in {"poll", "listen", "p2pListen"}
  \/ s.op = "on" /\ s.x = "disc"
Discovered ==
  /\ Has(prog, "off", "disc") \/ "disc" \notin stack \/ \A i \in 1..Len(prog) : ~Sensitive(prog[i])
  /\ (hdl.idle => "disc" \notin stack) \/ (HasSet(prog, "idle", FALSE) /\ ~Has(prog, "off", "disc"))
  /\ Has(prog, "on", "disc") => HasSet(prog, "idle", FALSE)

(* The one handle kept for an AID or a system code is the AID's.           *)
AidHeld ==
  /\ "aid" \in stack => hdl.aidHandle = "aid"
  /\ Asks /\ Has(prog, "off", "aid") => hdl.aidHandle = "aid"
  /\ Has(prog, "on", "felica") => "aid" \notin stack
  /\ Asks /\ HostCE(call.p) => Has(prog, "on", "aid") \/ (hdl.aidHandle = "aid" /\ ~Has(prog, "on", "felica"))

(* Before a test, nothing of another is left.                              *)
Bare ==
  call.name = "init" =>
    stack \cap ((Marks \ Stays) \cup {"disc"}) = {} /\ (Mixed \/ "hci" \notin stack) /\ ~hdl.llcpEnabled

(* The end of a test removes what is registered.  No request refused on    *)
(* the way keeps the system code or the HCI from being deregistered.       *)
FelicaOut ==
  "felica" \in stack => hdl.felicaHandle /\
     \/ OffAt(prog, 1, "felica")
     \/ OffAt(prog, 1, "ee") /\ OffAt(prog, 2, "felica") /\ "ee" \in stack
     \/ OffAt(prog, 1, "aid") /\ OffAt(prog, 2, "ee") /\ OffAt(prog, 3, "felica") /\ "ee" \in stack /\ "aid" \in stack
     \/ /\ SetAt(prog, 1, "protocols") /\ OffAt(prog, 2, "aid") /\ OffAt(prog, 3, "ee") /\ OffAt(prog, 4, "felica")
        /\ "ee" \in stack /\ "aid" \in stack
HciOut ==
  ~Mixed /\ "hci" \in stack =>
     \/ OffAt(prog, 1, "hci")
     \/ OffAt(prog, 1, "ee") /\ OffAt(prog, 2, "hci") /\ "ee" \in stack
Removed ==
  call.name = "disable" =>
    /\ \A x \in Techs : x \in stack => Has(prog, "off", x) \/ (x \in Stays /\ "p2p" \notin hdl.disc)
    /\ \A x \in LlcpEnds : x \in stack => Has(prog, "off", "up")
    /\ "aid" \in stack => ResetsAid(prog)
    /\ "disc" \in stack => Has(prog, "off", "disc")
    /\ FelicaOut /\ HciOut
    /\ HasSet(prog, "llcpEnabled", FALSE) \/ ~hdl.llcpEnabled

Members == \A i \in 1..Len(prog) : Pinned(prog[i]) /\ Fits(prog[i], call.name, call.p)
Reaches == Reached(prog, "up", "up" \in stack) /\ Reached(prog, "ee", "ee" \in stack)

Clean ==
  /\ Members /\ Reaches
  /\ Registered /\ Remembered /\ Moded /\ Routed /\ Discovered /\ AidHeld /\ Bare /\ Removed

(* Strong enough to be inductive.                                          *)
Account == /\ ~broken => Ground
           /\ ~broken /\ ~suspect /\ ~Gone => Clean

-----------------------------------------------------------------------------
(* A step of a call that is not under suspicion.  It succeeds, or it is    *)
(* one that the stack may refuse although nothing failed, with no effect   *)
(* that its success would not have had.                                    *)
Moves ==
  /\ prog # <<>>
  /\ hdl' \in HdlAfter(step) /\ route' = RouteAfter(step)
  /\ stack' = StackAfter(step) \/ (step.op = "on" /\ step.x = "hci" /\ stack' = stack)
  /\ call'.name = call.name /\ call'.p = call.p
  /\ \/ prog' = Tail(prog)
     \/ /\ prog' = Outside(step.within, Tail(prog))
        /\ Loose(step) /\ (step.op = "off" => Optional(step))

LEMMA VainMoves ==
  ASSUME Sound, Library, Members, Reaches, Vain
  PROVE  Moves
<1>1. Steady /\ Types
  BY DEF Sound
<1>2. /\ prog # <<>> /\ ~Fine(step) /\ ~Undefined(step) /\ UNCHANGED faults /\ Failed
      /\ IF "up" \in stack THEN Effect(step) ELSE NoEffect
  BY DEF Vain
<1>3. step = prog[1] /\ 1 \in 1..Len(prog) /\ step \in Steps /\ Typed(step)
  BY <1>1, <1>2, HeadIs
<1>4. Pinned(step)
  BY <1>3 DEF Members
<1>5. AsksStack(step) => "up" \in stack
  <2>1. SUFFICES ASSUME AsksStack(step) PROVE "up" \in stack
    OBVIOUS
  <2>2. Uses(step, "up")
    BY <2>1 DEF Uses
  <2>3. \A k \in 1..Len(prog) : ~(k < 1)
    OBVIOUS
  <2> QED
    BY <1>3, <2>2, <2>3 DEF Reaches, Reached
<1>6. AwaitsEe(step) /\ "ee" \notin stack
  BY <1>2, <1>5 DEF Fine
<1>7. step.op \in {"ee", "route", "routeP2p"} /\ ~Uses(step, "ee")
  <2>1. \A k \in 1..Len(prog) : ~(k < 1)
    OBVIOUS
  <2>2. ~Uses(step, "ee")
    BY <1>3, <1>6, <2>1 DEF Reaches, Reached
  <2> QED
    BY <1>6, <2>2 DEF AwaitsEe
<1>8. Loose(step)
  BY <1>4, <1>7 DEF Loose, Uses, Pinned
<1>9. "up" \in stack
  BY <1>4, <1>5, <1>7 DEF AsksStack, Waits, Pinned, Base
<1>10. Effect(step)
  BY <1>2, <1>9
<1>11. prog' = Outside(step.within, Tail(prog)) /\ call' = [call EXCEPT !.clean = @ /\ faults' = faults, !.result = IF prog' = <<>> THEN "failed" ELSE @]
  BY <1>2 DEF Failed, AfterFailure
<1>12. call'.name = call.name /\ call'.p = call.p
  BY <1>1, <1>11 DEF Types, CallType
<1> QED
  BY <1>2, <1>7, <1>8, <1>10, <1>11, <1>12 DEF Moves, Effect


LEMMA DoneMoves ==
  ASSUME Sound, Done
  PROVE  Moves
<1>1. /\ prog # <<>> /\ Effect(step) /\ prog' = Tail(prog)
      /\ call' = IF step.op = "return" THEN [call EXCEPT !.result = "ok"] ELSE call
  BY DEF Done
<1>2. call'.name = call.name /\ call'.p = call.p
  BY <1>1 DEF Sound, Types, CallType
<1> QED
  BY <1>1, <1>2 DEF Moves, Effect

(* A discovery that runs is stopped before it is configured, so nothing of *)
(* the configuration is refused.                                           *)
LEMMA FaultMoves ==
  ASSUME Sound, Tidy(prog), Discovered, Fault, faults' = faults
  PROVE  Moves
<1>1. Steady /\ Types /\ faults \in Nat
  BY DEF Sound, Types
<1>2. prog # <<>> /\ Failed /\ Optional(step) /\ NoEffect /\ CanFail(step)
  <2>1. ~(faults' = faults + 1)
    BY <1>1
  <2> QED
    BY <2>1 DEF Fault
<1>3. step = prog[1] /\ 1 \in 1..Len(prog) /\ step \in Steps /\ Typed(step)
  BY <1>1, <1>2, HeadIs
<1>4. prog' = Outside(step.within, Tail(prog)) /\ call' = [call EXCEPT !.clean = @ /\ faults' = faults, !.result = IF prog' = <<>> THEN "failed" ELSE @]
  BY <1>2 DEF Failed, AfterFailure
<1>5. call'.name = call.name /\ call'.p = call.p
  BY <1>1, <1>4 DEF Types, CallType
<1>6. hdl' = hdl /\ stack' = stack /\ route' = route
  BY <1>2 DEF NoEffect
<1>7. ~(Sensitive(step) /\ "disc" \in stack)
  <2>1. SUFFICES ASSUME Sensitive(step), "disc" \in stack PROVE FALSE
    OBVIOUS
  <2>2. Has(prog, "off", "disc")
    BY <1>3, <2>1 DEF Discovered
  <2>3. PICK i \in 1..Len(prog) : prog[i].op = "off" /\ prog[i].x = "disc"
    BY <2>2 DEF Has
  <2>4. CASE i = 1
    BY <1>3, <2>1, <2>3, <2>4 DEF Sensitive
  <2>5. CASE i # 1
    <3>1. 1 < i
      BY <2>3, <2>5
    <3>2. Follows(prog[1], prog[i])
      BY <1>3, <3>1 DEF Tidy
    <3> QED
      BY <1>3, <2>1, <2>3, <3>2 DEF Follows, Sensitive
  <2> QED
    BY <2>4, <2>5
<1>8. \/ step.op = "off" /\ step.x \in {"felica", "ee", "hci"} \ stack
      \/ step.op = "off" /\ step.x = "aid" /\ hdl.aidHandle \notin stack
      \/ step.op = "off" /\ step.x = "disc" /\ "disc" \notin stack
      \/ step.op = "on" /\ step.x = "hci"
  BY <1>2, <1>7 DEF Optional, Sensitive
<1>9. Loose(step)
  BY <1>8 DEF Loose
<1>10. hdl' \in HdlAfter(step)
  BY <1>6, <1>8 DEF HdlAfter
<1>11. route' = RouteAfter(step)
  BY <1>6, <1>8 DEF RouteAfter
<1>12. stack' = StackAfter(step) \/ (step.op = "on" /\ step.x = "hci" /\ stack' = stack)
  <2>1. CASE step.op = "on" /\ step.x = "hci"
    BY <1>6, <2>1
  <2>2. CASE step.op = "off" /\ step.x \in {"felica", "ee", "hci"} \ stack
    <3>1. stack \ {step.x} = stack
      BY <2>2
    <3>2. StackAfter(step) = stack
      BY <2>2, <3>1 DEF StackAfter
    <3> QED
      BY <1>6, <3>2
  <2>3. CASE step.op = "off" /\ step.x = "aid" /\ hdl.aidHandle \notin stack
    BY <1>6, <2>3 DEF StackAfter
  <2>4. CASE step.op = "off" /\ step.x = "disc" /\ "disc" \notin stack
    BY <1>6, <2>4 DEF StackAfter
  <2> QED
    BY <1>8, <2>1, <2>2, <2>3, <2>4
<1> QED
  BY <1>2, <1>4, <1>5, <1>9, <1>10, <1>11, <1>12 DEF Moves

LEMMA StepMoves ==
  ASSUME Sound, Library, Ground, ~Gone, Clean, Done \/ Fault \/ HciRefused \/ Vain \/ Misuse, ~suspect, ~suspect'
  PROVE  Moves
<1>1. Tidy(prog) /\ Discovered /\ Members /\ Reaches
  BY DEF Ground, Clean
<1>2. CASE Done
  BY <1>2, DoneMoves
<1>3. CASE Fault
  <2>1. faults' = faults
    BY <1>3 DEF Fault, Failed
  <2> QED
    BY <1>1, <1>3, <2>1, FaultMoves
<1>4. CASE Vain
  BY <1>1, <1>4, VainMoves
<1>5. ~Misuse
  BY WellDefined DEF Misuse
<1>6. ~HciRefused
  BY DEF HciRefused
<1> QED
  BY <1>2, <1>3, <1>4, <1>5, <1>6

-----------------------------------------------------------------------------
(* What one step moves.                                                    *)

(* What such a step changes.                                               *)
LEMMA StackMoved ==
  ASSUME Moves
  PROVE  /\ \A x : x \in stack' => x \in stack \/ (step.op = "on" /\ step.x = x)
         /\ \A x : x \in stack => \/ x \in stack'
                                  \/ step.op = "off" /\ (step.x = x \/ (step.x = "up" /\ x # "driver") \/ (step.x = "aid" /\ x = hdl.aidHandle))
         /\ step.op = "on" /\ step.x # "hci" => step.x \in stack'
         /\ step.op = "off" /\ step.x \notin {"up", "aid", "felica", "disc"} => step.x \notin stack'
         /\ step.op = "off" /\ step.x = "up" => stack' \subseteq {"driver"}
         /\ step.op = "off" /\ step.x = "aid" => hdl.aidHandle \notin stack'
         /\ step.op = "off" /\ step.x = "felica" /\ hdl.felicaHandle => "felica" \notin stack'
         /\ step.op = "off" /\ step.x = "disc" /\ ~hdl.idle => "disc" \notin stack'
         /\ step.op \notin {"on", "off"} => stack' = stack
<1>1. stack' = StackAfter(step) \/ (step.op = "on" /\ step.x = "hci" /\ stack' = stack)
  BY DEF Moves
<1>2. CASE step.op = "on"
  <2>1. StackAfter(step) = stack \cup {step.x}
    BY <1>2 DEF StackAfter
  <2> QED
    BY <1>1, <1>2, <2>1
<1>3. CASE step.op = "off"
  <2>1. stack' = StackAfter(step)
    BY <1>1, <1>3
  <2>2. CASE step.x = "up"
    BY <1>3, <2>1, <2>2 DEF StackAfter
  <2>3. CASE step.x = "aid"
    BY <1>3, <2>1, <2>3 DEF StackAfter
  <2>4. CASE step.x = "felica"
    BY <1>3, <2>1, <2>4 DEF StackAfter
  <2>5. CASE step.x = "disc"
    BY <1>3, <2>1, <2>5 DEF StackAfter
  <2>6. CASE step.x \notin {"up", "aid", "felica", "disc"}
    <3>1. StackAfter(step) = stack \ {step.x}
      BY <1>3, <2>6 DEF StackAfter
    <3> QED
      BY <1>3, <2>1, <2>6, <3>1
  <2> QED
    BY <2>2, <2>3, <2>4, <2>5, <2>6
<1>4. CASE step.op \notin {"on", "off"}
  <2>1. StackAfter(step) = stack
    BY <1>4 DEF StackAfter
  <2> QED
    BY <1>1, <1>4, <2>1
<1> QED
  BY <1>2, <1>3, <1>4

LEMMA HdlTaken ==
  ASSUME Sound, prog # <<>>, hdl' \in HdlAfter(step)
  PROVE  /\ \A f \in {"app", "prev", "disc", "protocols", "llcp", "llcpEnabled", "felicaHandle"} :
              hdl'[f] = (IF IsSet(step, f) THEN step.to ELSE hdl[f])
         /\ IsSet(step, "idle") => hdl'.idle = step.to
         /\ ~IsSet(step, "idle") /\ hdl'.idle # hdl.idle => step.op = "off" /\ step.x = "disc" /\ hdl'.idle = TRUE
         /\ hdl'.llcpMode = (IF step.op = "mode" THEN hdl.llcpEnabled ELSE hdl.llcpMode)
         /\ hdl'.aidHandle = (IF step.op = "on" /\ step.x \in {"aid", "felica"} THEN step.x ELSE hdl.aidHandle)
<1>1. hdl \in HdlType /\ hdl' \in HdlAfter(step) /\ step \in Steps
  BY HeadIs DEF Sound, Types
<1>2. CASE step.op = "set"
  <2>1. hdl' = [hdl EXCEPT ![step.x] = step.to]
    BY <1>1, <1>2 DEF HdlAfter
  <2>2. \/ step.x \in {"app", "prev", "disc"} /\ step.to \in Tests
        \/ step.x = "protocols" /\ step.to \in SUBSET {"ISO_DEP"}
        \/ step.x \in Flags /\ step.to \in BOOLEAN
    BY <1>1, <1>2 DEF Steps, Typed
  <2>6. hdl \in HdlType
    BY <1>1
  <2>5. /\ [hdl EXCEPT ![step.x] = step.to].app = (IF step.x = "app" THEN step.to ELSE hdl.app)
        /\ [hdl EXCEPT ![step.x] = step.to].prev = (IF step.x = "prev" THEN step.to ELSE hdl.prev)
        /\ [hdl EXCEPT ![step.x] = step.to].disc = (IF step.x = "disc" THEN step.to ELSE hdl.disc)
        /\ [hdl EXCEPT ![step.x] = step.to].protocols = (IF step.x = "protocols" THEN step.to ELSE hdl.protocols)
        /\ [hdl EXCEPT ![step.x] = step.to].llcp = (IF step.x = "llcp" THEN step.to ELSE hdl.llcp)
        /\ [hdl EXCEPT ![step.x] = step.to].idle = (IF step.x = "idle" THEN step.to ELSE hdl.idle)
        /\ [hdl EXCEPT ![step.x] = step.to].llcpEnabled = (IF step.x = "llcpEnabled" THEN step.to ELSE hdl.llcpEnabled)
        /\ [hdl EXCEPT ![step.x] = step.to].felicaHandle = (IF step.x = "felicaHandle" THEN step.to ELSE hdl.felicaHandle)
        /\ [hdl EXCEPT ![step.x] = step.to].llcpMode = hdl.llcpMode
        /\ [hdl EXCEPT ![step.x] = step.to].aidHandle = hdl.aidHandle
    BY <2>2, <2>6 DEF HdlType, Flags
  <2>3. /\ \A g \in {"app", "prev", "disc", "protocols", "llcp", "idle", "llcpEnabled", "felicaHandle"} :
             hdl'[g] = (IF g = step.x THEN step.to ELSE hdl[g])
        /\ hdl'.llcpMode = hdl.llcpMode
        /\ hdl'.aidHandle = hdl.aidHandle
    BY <2>1, <2>5
  <2>4. \A g : IsSet(step, g) <=> g = step.x
    BY <1>2 DEF IsSet
  <2> QED
    BY <1>2, <2>3, <2>4
<1>3. CASE step.op # "set"
  <2>1. \A g : ~IsSet(step, g)
    BY <1>3 DEF IsSet
  <2>2. CASE step.op = "mode"
    <3>1. hdl' = [hdl EXCEPT !.llcpMode = hdl.llcpEnabled]
      BY <1>1, <2>2 DEF HdlAfter
    <3> QED
      BY <1>1, <2>1, <2>2, <3>1 DEF HdlType
  <2>3. CASE step.op = "on" /\ step.x \in {"aid", "felica"}
    <3>1. hdl' = [hdl EXCEPT !.aidHandle = step.x]
      BY <1>1, <2>3 DEF HdlAfter
    <3> QED
      BY <1>1, <2>1, <2>3, <3>1 DEF HdlType
  <2>4. CASE step.op = "off" /\ step.x = "disc"
    <3>1. hdl' = hdl \/ hdl' = [hdl EXCEPT !.idle = TRUE]
      BY <1>1, <2>4 DEF HdlAfter
    <3> QED
      BY <1>1, <2>1, <2>4, <3>1 DEF HdlType
  <2>5. CASE step.op # "mode" /\ ~(step.op = "on" /\ step.x \in {"aid", "felica"}) /\ ~(step.op = "off" /\ step.x = "disc")
    <3>1. hdl' = hdl
      BY <1>1, <1>3, <2>5 DEF HdlAfter
    <3> QED
      BY <2>1, <2>5, <3>1
  <2> QED
    BY <2>2, <2>3, <2>4, <2>5
<1> QED
  BY <1>2, <1>3

LEMMA HdlMoved ==
  ASSUME Sound, Moves
  PROVE  /\ \A f \in {"app", "prev", "disc", "protocols", "llcp", "llcpEnabled", "felicaHandle"} :
              hdl'[f] = (IF IsSet(step, f) THEN step.to ELSE hdl[f])
         /\ IsSet(step, "idle") => hdl'.idle = step.to
         /\ ~IsSet(step, "idle") /\ hdl'.idle # hdl.idle => step.op = "off" /\ step.x = "disc" /\ hdl'.idle = TRUE
         /\ hdl'.llcpMode = (IF step.op = "mode" THEN hdl.llcpEnabled ELSE hdl.llcpMode)
         /\ hdl'.aidHandle = (IF step.op = "on" /\ step.x \in {"aid", "felica"} THEN step.x ELSE hdl.aidHandle)
<1>1. prog # <<>> /\ hdl' \in HdlAfter(step)
  BY DEF Moves
<1> QED
  BY <1>1, HdlTaken

-----------------------------------------------------------------------------
(* What a step leaves of the call.                                         *)

(* The steps that are left after it.                                       *)
Lost(s) ==
  \/ s.op = "on" /\ s.x = "hci"
  \/ s.op = "ee"
  \/ s.op = "routeP2p" /\ step.op = "routeP2p"
  \/ s.op = "off" /\ s.x = "disc" /\ step.op = "off" /\ step.x = "disc"
  \/ ~Asks /\ s.within \cap CeDown # {}

LEMMA MovedRest ==
  ASSUME Sound, Moves, Tidy(prog), Members
  PROVE  \E K : /\ prog' \in Seq(Allowed(call.name)) /\ Rest(prog', prog, K)
                /\ \A i \in 2..Len(prog) : prog[i] \in K \/ Lost(prog[i])
                /\ ~Loose(step) => \A i \in 1..Len(prog) : prog[i] \in K
<1> DEFINE A == Allowed(call.name)
<1>1. Steady /\ prog # <<>> /\ prog \in Seq(A)
  BY DEF Sound, Moves, Steady
<1>2. step = prog[1] /\ 1 \in 1..Len(prog) /\ Len(prog) \in Nat
  BY <1>1, HeadIs
<1>3. \A i \in 1..Len(prog) : prog[i] \in A
  BY <1>1
<1>4. \A i \in 2..Len(prog) : i \in 1..Len(prog) /\ 1 < i
  BY <1>2
<1>5. CASE prog' = Tail(prog)
  <2>1. prog' \in Seq(A) /\ Rest(prog', prog, A)
    BY <1>1, <1>5, RestAfter
  <2> QED
    BY <1>3, <1>4, <2>1
<1>6. CASE prog' = Outside(step.within, Tail(prog)) /\ Loose(step) /\ (step.op = "off" => Optional(step))
  <2>1. prog' \in Seq(A) /\ Rest(prog', prog, KeptBy(A, step.within))
    BY <1>1, <1>6, RestAfter
  <2>2. Pinned(step)
    BY <1>2 DEF Members
  <2>3. PICK f \in Slack : step.within = {f}
    BY <1>6, <2>2 DEF Pinned
  <2>4. ASSUME NEW i \in 2..Len(prog), prog[i] \notin KeptBy(A, step.within)
        PROVE  Lost(prog[i])
    <3> DEFINE e == prog[i]
    <3>1. e \in A /\ Pinned(e) /\ Fits(e, call.name, call.p) /\ Follows(step, e)
      BY <1>2, <1>3, <1>4 DEF Members, Tidy
    <3>2. f \in e.within
      BY <2>3, <2>4, <3>1 DEF KeptBy
    <3> HIDE DEF e
    <3>3. e.within = {f}
      BY <2>3, <3>1, <3>2 DEF Pinned
    <3>4. CASE f \in CeDown
      <4>1. e.within \cap CeDown # {}
        BY <3>3, <3>4
      <4>2. ~Asks
        BY <3>1, <4>1 DEF Fits, Asks
      <4> QED
        BY <4>1, <4>2 DEF Lost, e
    <3>5. CASE f = "DiscoveryStop"
      BY <2>2, <2>3, <3>1, <3>2, <3>5 DEF Pinned, Lost, e
    <3>6. CASE f = "RoutingUpdate"
      BY <2>2, <2>3, <3>1, <3>2, <3>6 DEF Pinned, Lost, e
    <3>7. CASE f = "P2pRoutingConfigure"
      BY <2>2, <2>3, <3>1, <3>2, <3>7 DEF Pinned, Lost, e
    <3>8. CASE f = "HciRegister"
      BY <2>2, <2>3, <3>1, <3>2, <3>8 DEF Pinned, Lost, e
    <3>9. f # "ResetDiscoveryConfig"
      <4>1. SUFFICES ASSUME f = "ResetDiscoveryConfig" PROVE FALSE
        OBVIOUS
      <4>2. "ResetDiscoveryConfig" \in step.within /\ "ResetDiscoveryConfig" \in e.within
        BY <2>3, <3>2, <4>1
      <4>3. step.op = "off" /\ step.x \in Techs \cup {"aid"}
        BY <2>2, <4>2 DEF Pinned
      <4>4. step.x = "aid"
        BY <1>6, <4>3 DEF Loose, Techs
      <4> QED
        BY <3>1, <4>2, <4>3, <4>4 DEF Follows
    <3> QED
      BY <3>4, <3>5, <3>6, <3>7, <3>8, <3>9 DEF Slack
  <2> QED
    BY <1>6, <2>1, <2>4
<1> QED
  BY <1>5, <1>6 DEF Moves

LEMMA MovedProg ==
  ASSUME Sound, Moves, Tidy(prog), Members
  PROVE  /\ prog' \in Seq(Allowed(call.name)) /\ Tidy(prog')
         /\ \A i \in 1..Len(prog') : /\ Follows(step, prog'[i])
                                    /\ \E j \in 2..Len(prog) : prog'[i] = prog[j]
         /\ \A j \in 2..Len(prog) : Lost(prog[j]) \/ \E i \in 1..Len(prog') : prog'[i] = prog[j]
<1>1. PICK K : /\ prog' \in Seq(Allowed(call.name)) /\ Rest(prog', prog, K)
               /\ \A i \in 2..Len(prog) : prog[i] \in K \/ Lost(prog[i])
  BY MovedRest
<1>2. Steady /\ prog # <<>> /\ prog \in Seq(Allowed(call.name))
  BY DEF Sound, Moves, Steady
<1>3. step = prog[1] /\ 1 \in 1..Len(prog) /\ Len(prog) \in Nat
  BY <1>2, HeadIs
<1>4. /\ \A i \in 1..Len(prog') : \E j \in 2..Len(prog) : prog'[i] = prog[j]
      /\ \A j \in 2..Len(prog) : prog[j] \in K => \E i \in 1..Len(prog') : prog'[i] = prog[j]
  BY <1>1, <1>2, RestOf
<1>5. Tidy(prog')
  BY <1>1, <1>2, RestTidy
<1>6. \A j \in 2..Len(prog) : Follows(step, prog[j])
  BY <1>3 DEF Tidy
<1> QED
  BY <1>1, <1>4, <1>5, <1>6

LEMMA MovedSteps ==
  ASSUME Sound, Moves, Tidy(prog), Members
  PROVE  /\ \A op, x : Has(prog', op, x) => Has(prog, op, x)
         /\ \A f, v : HasSet(prog', f, v) => HasSet(prog, f, v)
         /\ \A op, x : /\ Has(prog, op, x)
                       /\ op # "ee" /\ (op = "on" => x # "hci")
                       /\ op = "off" => Asks \/ x \notin {"felica", "ee", "hci", "aid"}
                       /\ op # "set"
                       => Has(prog', op, x) \/ (step.op = op /\ (step.x = x \/ op = "routeP2p"))
         /\ \A f, v : HasSet(prog, f, v) /\ (Asks \/ f \notin {"protocols", "felicaHandle"})
                       => HasSet(prog', f, v) \/ (IsSet(step, f) /\ step.to = v)
         /\ ResetsAid(prog) => ResetsAid(prog') \/ (step.op = "off" /\ step.x = "aid" /\ "ResetDiscoveryConfig" \in step.within)
         /\ Has(prog, step.op, step.x)
         /\ \A f : IsSet(step, f) => HasSet(prog, f, step.to)
<1>1. /\ \A i \in 1..Len(prog') : \E j \in 2..Len(prog) : prog'[i] = prog[j]
      /\ \A j \in 2..Len(prog) : Lost(prog[j]) \/ \E i \in 1..Len(prog') : prog'[i] = prog[j]
  BY MovedProg
<1>2. step = prog[1] /\ 1 \in 1..Len(prog) /\ Len(prog) \in Nat
  BY HeadIs DEF Sound, Moves
<1>3. /\ \A i \in 1..Len(prog) : i = 1 \/ i \in 2..Len(prog)
      /\ \A i \in 2..Len(prog) : i \in 1..Len(prog)
  BY <1>2
<1>4. \A i \in 1..Len(prog) : Pinned(prog[i])
  BY DEF Members
<1>5. \A op, x : Has(prog', op, x) => Has(prog, op, x)
  BY <1>1, <1>3 DEF Has
<1>6. \A f, v : HasSet(prog', f, v) => HasSet(prog, f, v)
  BY <1>1, <1>3 DEF HasSet
<1>7. ASSUME NEW op, NEW x, Has(prog, op, x), op # "ee", op = "on" => x # "hci",
             op = "off" => Asks \/ x \notin {"felica", "ee", "hci", "aid"}, op # "set"
      PROVE  Has(prog', op, x) \/ (step.op = op /\ (step.x = x \/ op = "routeP2p"))
  <2>1. PICK j \in 1..Len(prog) : prog[j].op = op /\ prog[j].x = x
    BY <1>7 DEF Has
  <2>2. CASE j = 1
    BY <1>2, <2>1, <2>2
  <2>3. CASE j # 1
    <3>1. Lost(prog[j]) \/ \E i \in 1..Len(prog') : prog'[i] = prog[j]
      BY <1>1, <1>3, <2>3
    <3>2. CASE Lost(prog[j])
      BY <1>4, <1>7, <2>1, <3>2 DEF Lost, Pinned
    <3> QED
      BY <2>1, <3>1, <3>2 DEF Has
  <2> QED
    BY <2>2, <2>3
<1>8. ASSUME NEW f, NEW v, HasSet(prog, f, v), Asks \/ f \notin {"protocols", "felicaHandle"}
      PROVE  HasSet(prog', f, v) \/ (IsSet(step, f) /\ step.to = v)
  <2>1. PICK j \in 1..Len(prog) : IsSet(prog[j], f) /\ prog[j].to = v
    BY <1>8 DEF HasSet
  <2>2. CASE j = 1
    BY <1>2, <2>1, <2>2
  <2>3. CASE j # 1
    <3>1. Lost(prog[j]) \/ \E i \in 1..Len(prog') : prog'[i] = prog[j]
      BY <1>1, <1>3, <2>3
    <3>2. ~Lost(prog[j])
      BY <1>4, <1>8, <2>1 DEF Lost, Pinned, IsSet
    <3> QED
      BY <2>1, <3>1, <3>2 DEF HasSet
  <2> QED
    BY <2>2, <2>3
<1>9. ASSUME ResetsAid(prog)
      PROVE  ResetsAid(prog') \/ (step.op = "off" /\ step.x = "aid" /\ "ResetDiscoveryConfig" \in step.within)
  <2>1. PICK j \in 1..Len(prog) : prog[j].op = "off" /\ prog[j].x = "aid" /\ "ResetDiscoveryConfig" \in prog[j].within
    BY <1>9 DEF ResetsAid
  <2>2. CASE j = 1
    BY <1>2, <2>1, <2>2
  <2>3. CASE j # 1
    <3>1. Lost(prog[j]) \/ \E i \in 1..Len(prog') : prog'[i] = prog[j]
      BY <1>1, <1>3, <2>3
    <3>2. prog[j].within = {"ResetDiscoveryConfig"}
      BY <1>4, <2>1 DEF Pinned, Slack
    <3>3. prog[j].within \cap CeDown = {}
      BY <3>2 DEF CeDown
    <3>4. ~Lost(prog[j])
      BY <2>1, <3>3 DEF Lost
    <3> QED
      BY <2>1, <3>1, <3>4 DEF ResetsAid
  <2> QED
    BY <2>2, <2>3
<1>10. Has(prog, step.op, step.x)
  BY <1>2 DEF Has
<1>11. \A f : IsSet(step, f) => HasSet(prog, f, step.to)
  BY <1>2 DEF HasSet
<1> QED
  BY <1>5, <1>6, <1>7, <1>8, <1>9, <1>10, <1>11

LEMMA MovedMembers ==
  ASSUME Sound, Moves, Tidy(prog), Members
  PROVE  Members'
<1>1. \A i \in 1..Len(prog') : \E j \in 2..Len(prog) : prog'[i] = prog[j]
  BY MovedProg
<1>2. Len(prog) \in Nat
  BY HeadIs DEF Sound, Moves
<1>3. \A j \in 2..Len(prog) : Pinned(prog[j]) /\ Fits(prog[j], call.name, call.p)
  BY <1>2 DEF Members
<1>4. call'.name = call.name /\ call'.p = call.p
  BY DEF Moves
<1>5. \A i \in 1..Len(prog') : Pinned(prog'[i]) /\ Fits(prog'[i], call'.name, call'.p)
  BY <1>1, <1>3, <1>4
<1> QED
  BY <1>5 DEF Members

LEMMA MovedReaches ==
  ASSUME Sound, Moves, Tidy(prog), Members, Reaches
  PROVE  Reaches'
<1>1. PICK K : /\ prog' \in Seq(Allowed(call.name)) /\ Rest(prog', prog, K)
               /\ \A i \in 2..Len(prog) : prog[i] \in K \/ Lost(prog[i])
               /\ ~Loose(step) => \A i \in 1..Len(prog) : prog[i] \in K
  BY MovedRest
<1>2. Steady /\ prog # <<>> /\ prog \in Seq(Allowed(call.name))
  BY DEF Sound, Moves, Steady
<1>3. step = prog[1] /\ 1 \in 1..Len(prog) /\ Len(prog) \in Nat /\ Pinned(step)
  BY <1>2, HeadIs DEF Members
<1>4. \A i \in 1..Len(prog) : i = 1 \/ i \in 2..Len(prog)
  BY <1>3
<1>5. \A j \in 2..Len(prog) : Follows(step, prog[j])
  BY <1>3 DEF Tidy
<1>6. hdl.aidHandle \in {"-", "aid", "felica"}
  BY DEF Sound, Types, HdlType
<1>7. ASSUME NEW y \in {"up", "ee"}, Reached(prog, y, y \in stack)
      PROVE  Reached(prog', y, y \in stack')
  <2>1. ASSUME NEW i \in 1..Len(prog), prog[i].op = "on", prog[i].x = y
        PROVE  prog[i] \in K
    <3>1. ~(Lost(prog[i]))
      BY <2>1, <1>3 DEF Lost, Members, Pinned
    <3>2. CASE i = 1
      <4>1. ~Loose(step)
        BY <1>3, <2>1, <3>2 DEF Loose
      <4> QED
        BY <1>1, <4>1
    <3> QED
      BY <1>1, <1>4, <3>1, <3>2
  <2>2. ASSUME step.op = "on", step.x = y
        PROVE  y \in stack' /\ \A i \in 1..Len(prog) : ~(prog[i].op = "off" /\ prog[i].x \in {"up", y})
    <3>1. y \in stack'
      BY <2>2, StackMoved
    <3>2. \A i \in 2..Len(prog) : prog[i].op # "off" \/ prog[i].x = "isoDepListen"
      BY <1>5, <2>2 DEF Follows
    <3> QED
      BY <1>3, <1>4, <2>2, <3>1, <3>2
  <2>3. ASSUME ~(step.op = "off" /\ step.x \in {"up", y}), y \in stack
        PROVE  y \in stack'
    BY <1>6, <2>3, StackMoved
  <2> DEFINE e == y \in stack
             n == y \in stack'
  <2>4. /\ Reached(prog, y, e)
        /\ \A i \in 1..Len(prog) : prog[i].op = "on" /\ prog[i].x = y => prog[i] \in K
        /\ prog[1].op = "on" /\ prog[1].x = y =>
             n /\ \A i \in 1..Len(prog) : ~(prog[i].op = "off" /\ prog[i].x \in {"up", y})
        /\ ~(prog[1].op = "on" /\ prog[1].x = y) /\ ~(prog[1].op = "off" /\ prog[1].x \in {"up", y}) => (e => n)
    BY <1>3, <1>7, <2>1, <2>2, <2>3
  <2> HIDE DEF e, n
  <2>5. Reached(prog', y, n)
    BY <1>1, <1>2, <2>4, RestReached
  <2> QED
    BY <2>5 DEF n
<1> QED
  BY <1>7 DEF Reaches

-----------------------------------------------------------------------------
(* Steps and what is registered.                                           *)

LEMMA MovedAfter ==
  ASSUME Sound, Moves, Tidy(prog), Members
  PROVE  /\ step \in Steps /\ Typed(step) /\ Pinned(step) /\ Fits(step, call.name, call.p)
         /\ hdl.aidHandle \in {"-", "aid", "felica"} /\ hdl \in HdlType
         /\ step.op = "on" => \A x : x # "isoDepListen" => ~Has(prog', "off", x)
         /\ step.op = "on" /\ step.x = "disc" => \A i \in 1..Len(prog') : prog'[i].op \in {"set", "return"}
         /\ IsSet(step, "idle") => \A op, x : Has(prog', op, x) => op = "return"
         /\ step.op = "on" /\ step.x = "aid" => ~Has(prog', "on", "felica")
         /\ IsSet(step, "llcpEnabled") /\ step.to = TRUE => \A v : ~HasSet(prog', "llcpEnabled", v)
         /\ step.op = "mode" => \A v : ~HasSet(prog', "llcpEnabled", v)
         /\ step.op = "routeP2p" => /\ \A x : ~Has(prog', "route", x) /\ (x # "isoDepListen" => ~Has(prog', "off", x))
                                    /\ \A v : ~HasSet(prog', "protocols", v)
<1>1. \A i \in 1..Len(prog') : Follows(step, prog'[i])
  BY MovedProg
<1>2. step = prog[1] /\ 1 \in 1..Len(prog) /\ step \in Steps /\ Typed(step)
  BY HeadIs DEF Sound, Moves
<1>3. Pinned(step) /\ Fits(step, call.name, call.p)
  BY <1>2 DEF Members
<1>4. hdl \in HdlType
  BY DEF Sound, Types
<1>5. hdl.aidHandle \in {"-", "aid", "felica"}
  BY <1>4 DEF HdlType
<1>6. step.op = "on" => \A x : x # "isoDepListen" => ~Has(prog', "off", x)
  BY <1>1 DEF Has, Follows
<1>7. step.op = "on" /\ step.x = "disc" => \A i \in 1..Len(prog') : prog'[i].op \in {"set", "return"}
  BY <1>1 DEF Follows
<1>8. IsSet(step, "idle") => \A op, x : Has(prog', op, x) => op = "return"
  BY <1>1 DEF Has, Follows
<1>9. step.op = "on" /\ step.x = "aid" => ~Has(prog', "on", "felica")
  BY <1>1 DEF Has, Follows
<1>10. IsSet(step, "llcpEnabled") /\ step.to = TRUE => \A v : ~HasSet(prog', "llcpEnabled", v)
  BY <1>1 DEF HasSet, Follows
<1>11. step.op = "mode" => \A v : ~HasSet(prog', "llcpEnabled", v)
  BY <1>1 DEF HasSet, Follows
<1>12. step.op = "routeP2p" => \A x : ~Has(prog', "route", x) /\ (x # "isoDepListen" => ~Has(prog', "off", x))
  BY <1>1 DEF Has, Follows
<1>13. step.op = "routeP2p" => \A v : ~HasSet(prog', "protocols", v)
  BY <1>1 DEF HasSet, Follows
<1> QED
  BY <1>2, <1>3, <1>4, <1>5, <1>6, <1>7, <1>8, <1>9, <1>10, <1>11, <1>12, <1>13

(* A step registers what the test wants, and deregisters nothing of it     *)
(* that a later one will not register again.                               *)
LEMMA MovedRegistered ==
  ASSUME Sound, Moves, Tidy(prog), Members, Registered, AidHeld
  PROVE  Registered'
<1>1. call'.name = call.name /\ call'.p = call.p
  BY DEF Moves
<1> SUFFICES ASSUME Asks PROVE Registered'
  BY <1>1 DEF Asks, Registered
<1>2. /\ Typed(step) /\ Pinned(step) /\ Fits(step, call.name, call.p)
      /\ hdl.aidHandle \in {"-", "aid", "felica"}
      /\ step.op = "on" => \A x : x # "isoDepListen" => ~Has(prog', "off", x)
  BY MovedAfter
<1>3. /\ \A op, x : Has(prog', op, x) => Has(prog, op, x)
      /\ \A x : Has(prog, "on", x) /\ x # "hci" => Has(prog', "on", x) \/ (step.op = "on" /\ step.x = x)
      /\ Has(prog, step.op, step.x)
  <2>1. \A op, x : /\ Has(prog, op, x)
                   /\ op # "ee" /\ (op = "on" => x # "hci")
                   /\ op = "off" => Asks \/ x \notin {"felica", "ee", "hci", "aid"}
                   /\ op # "set"
                   => Has(prog', op, x) \/ (step.op = op /\ (step.x = x \/ op = "routeP2p"))
    BY MovedSteps
  <2>2. \A x : Has(prog, "on", x) /\ x # "hci" => Has(prog', "on", x) \/ (step.op = "on" /\ step.x = x)
    BY <2>1
  <2>3. (\A op, x : Has(prog', op, x) => Has(prog, op, x)) /\ Has(prog, step.op, step.x)
    BY MovedSteps
  <2> QED
    BY <2>2, <2>3
<1>4. /\ \A x : x \in stack' => x \in stack \/ (step.op = "on" /\ step.x = x)
      /\ \A x : x \in stack => \/ x \in stack'
                               \/ step.op = "off" /\ (step.x = x \/ (step.x = "up" /\ x # "driver") \/ (step.x = "aid" /\ x = hdl.aidHandle))
      /\ step.op = "on" /\ step.x # "hci" => step.x \in stack'
  BY StackMoved
<1> DEFINE M == Marks \cup {"isoDepListen"}
<1>5. "hci" \notin M /\ "driver" \notin M /\ "up" \notin M /\ M \cap (Base \cup {"ee", "hci", "disc"}) = {}
  BY DEF Marks, Techs, LlcpEnds, Base
<1>11. Has(prog, "off", "isoDepListen") => ~Wants(call.p, "isoDepListen")
  <2> SUFFICES ASSUME NEW i \in 1..Len(prog), prog[i].op = "off", prog[i].x = "isoDepListen"
               PROVE  ~Wants(call.p, "isoDepListen")
    BY DEF Has
  <2>1. Fits(prog[i], call.name, call.p)
    BY DEF Members
  <2>2. "hceA" \notin call.p
    BY <2>1 DEF Fits, Asks, Techs
  <2> QED
    BY <2>2 DEF Wants, LlcpEnds
<1> HIDE DEF M
<1>6. ASSUME NEW x \in M, Wants(call.p, x)
      PROVE  Has(prog', "on", x) \/ (x \in stack' /\ ~Has(prog', "off", x) /\ ~Has(prog', "off", "up"))
  <2>1. CASE Has(prog, "on", x)
    <3>1. Has(prog', "on", x) \/ (step.op = "on" /\ step.x = x)
      BY <1>3, <1>5, <2>1
    <3>2. ~(x = "isoDepListen" /\ Has(prog', "off", x))
      BY <1>3, <1>6, <1>11
    <3> QED
      BY <1>2, <1>4, <1>5, <3>1, <3>2
  <2>2. CASE x \in stack /\ ~Has(prog, "off", x) /\ ~Has(prog, "off", "up")
    <3>1. ~Has(prog', "off", x) /\ ~Has(prog', "off", "up")
      BY <1>3, <2>2
    <3>2. ~(step.op = "off" /\ step.x \in {x, "up"})
      BY <1>3, <2>2
    <3>3. ~(step.op = "off" /\ step.x = "aid" /\ x = hdl.aidHandle)
      <4>1. SUFFICES ASSUME step.op = "off", step.x = "aid", x = hdl.aidHandle PROVE FALSE
        OBVIOUS
      <4>2. Has(prog, "off", "aid")
        BY <1>3, <4>1
      <4>3. hdl.aidHandle = "aid"
        BY <4>2 DEF AidHeld
      <4> QED
        BY <2>2, <4>1, <4>2, <4>3
    <3>4. x \in stack'
      BY <1>4, <2>2, <3>2, <3>3
    <3> QED
      BY <3>1, <3>4
  <2> QED
    BY <1>6, <2>1, <2>2 DEF Registered, M
<1>7. ASSUME NEW x \in M, ~Wants(call.p, x), x \notin Stays \cup {"isoDepListen"}
      PROVE  x \notin stack'
  <2>1. x \notin stack
    BY <1>7 DEF Registered, M
  <2>2. ~(step.op = "on" /\ step.x = x)
    BY <1>2, <1>5, <1>7 DEF Fits
  <2> QED
    BY <1>4, <2>1, <2>2
<1>8. ASSUME Emulates(call.p)
      PROVE  Has(prog', "on", "ee") \/ ("ee" \in stack' /\ ~Has(prog', "off", "up"))
  <2>1. CASE Has(prog, "on", "ee")
    <3>1. Has(prog', "on", "ee") \/ (step.op = "on" /\ step.x = "ee")
      BY <1>3, <2>1
    <3> QED
      BY <1>2, <1>4, <3>1
  <2>2. CASE "ee" \in stack /\ ~Has(prog, "off", "up")
    <3>1. ~Has(prog', "off", "up") /\ ~(step.op = "off" /\ step.x = "up")
      BY <1>3, <2>2
    <3>2. ~(step.op = "off" /\ step.x = "ee")
      BY <1>2 DEF Fits, Asks, Techs
    <3>3. "ee" \in stack'
      BY <1>2, <1>4, <2>2, <3>1, <3>2
    <3> QED
      BY <3>1, <3>3
  <2> QED
    BY <1>8, <2>1, <2>2 DEF Registered
<1>9. "hci" \in stack' => NfceeCE(call.p) \/ Mixed
  <2>1. step.op = "on" /\ step.x = "hci" => NfceeCE(call.p)
    BY <1>2 DEF Fits, Base, Wants, Techs, LlcpEnds
  <2> QED
    BY <1>4, <2>1 DEF Registered
<1>12. HostCE(call.p) /\ ~Wants(call.p, "isoDepListen") =>
         Has(prog', "off", "isoDepListen") \/ "isoDepListen" \notin stack'
  <2> SUFFICES ASSUME HostCE(call.p), ~Wants(call.p, "isoDepListen"), ~Has(prog', "off", "isoDepListen")
               PROVE  "isoDepListen" \notin stack'
    OBVIOUS
  <2>1. "isoDepListen" \in M
    BY DEF M
  <2>2. ~(step.op = "on" /\ step.x = "isoDepListen")
    BY <1>2, <1>5, <2>1 DEF Fits
  <2>3. CASE Has(prog, "off", "isoDepListen")
    <3>1. step.op = "off" /\ step.x = "isoDepListen"
      BY <2>3, MovedSteps
    <3>2. "isoDepListen" \notin stack'
      BY <3>1, StackMoved
    <3> QED
      BY <3>2
  <2>4. CASE "isoDepListen" \notin stack
    BY <1>4, <2>2, <2>4
  <2> QED
    BY <2>3, <2>4 DEF Registered
<1>10. /\ \A x \in M : IF Wants(call'.p, x)
                       THEN Has(prog', "on", x) \/ (x \in stack' /\ ~Has(prog', "off", x) /\ ~Has(prog', "off", "up"))
                       ELSE x \notin stack' \/ x \in Stays \cup {"isoDepListen"}
       /\ HostCE(call'.p) /\ ~Wants(call'.p, "isoDepListen") =>
            Has(prog', "off", "isoDepListen") \/ "isoDepListen" \notin stack'
       /\ Emulates(call'.p) => Has(prog', "on", "ee") \/ ("ee" \in stack' /\ ~Has(prog', "off", "up"))
       /\ "hci" \in stack' => NfceeCE(call'.p) \/ Mixed
  <2>1. call'.p = call.p
    BY <1>1
  <2> QED
    BY <1>6, <1>7, <1>8, <1>9, <1>12, <2>1
<1> QED
  BY <1>10 DEF Registered, M

-----------------------------------------------------------------------------
(* Steps and what the handles remember.                                    *)

LEMMA MovedRemembered ==
  ASSUME Sound, Moves, Tidy(prog), Members, Remembered
  PROVE  Remembered'
<1>1. call'.name = call.name /\ call'.p = call.p
  BY DEF Moves
<1> SUFFICES ASSUME Asks PROVE Remembered'
  BY <1>1 DEF Asks, Remembered
<1>2. Typed(step) /\ Fits(step, call.name, call.p) /\ hdl \in HdlType
  BY MovedAfter
<1>3. \A f, v : HasSet(prog, f, v) => HasSet(prog', f, v) \/ (IsSet(step, f) /\ step.to = v)
  BY MovedSteps
<1>4. \A f \in {"app", "prev", "disc", "protocols", "llcp", "llcpEnabled", "felicaHandle"} :
        hdl'[f] = (IF IsSet(step, f) THEN step.to ELSE hdl[f])
  BY HdlMoved
<1>5. /\ step.op = "set" /\ step.x \in {"app", "prev", "disc"} => step.to = call.p
      /\ IsSet(step, "llcp") => step.to = TRUE
      /\ IsSet(step, "protocols") => step.to = {"ISO_DEP"}
      /\ IsSet(step, "felicaHandle") => step.to = TRUE
  BY <1>2 DEF Fits, Asks
<1>6. ASSUME NEW f \in {"app", "prev", "disc"}
      PROVE  HasSet(prog', f, call.p) \/ hdl'[f] = call.p
  <2>1. hdl'[f] = (IF IsSet(step, f) THEN step.to ELSE hdl[f])
    BY <1>4
  <2>2. IsSet(step, f) => step.to = call.p
    BY <1>5 DEF IsSet
  <2>3. HasSet(prog, f, call.p) \/ hdl[f] = call.p
    BY DEF Remembered
  <2> QED
    BY <1>3, <2>1, <2>2, <2>3
<1> DEFINE yes == TRUE
<1>7. HasSet(prog, "llcp", yes) => HasSet(prog', "llcp", yes) \/ IsSet(step, "llcp")
  <2> HIDE DEF yes
  <2> QED
    BY <1>3
<1>8. ASSUME "llcp" \in call.p PROVE HasSet(prog', "llcp", TRUE) \/ hdl'.llcp
  <2>1. hdl'.llcp = (IF IsSet(step, "llcp") THEN step.to ELSE hdl.llcp)
    BY <1>4
  <2>2. HasSet(prog, "llcp", TRUE) \/ hdl.llcp
    BY <1>8 DEF Remembered
  <2>3. CASE IsSet(step, "llcp")
    <3>1. hdl'.llcp = TRUE
      BY <1>5, <2>1, <2>3
    <3> QED
      BY <3>1
  <2>4. CASE ~IsSet(step, "llcp")
    <3>1. hdl'.llcp = hdl.llcp
      BY <2>1, <2>4
    <3>2. HasSet(prog, "llcp", TRUE) => HasSet(prog', "llcp", TRUE)
      BY <1>7, <2>4
    <3> QED
      BY <2>2, <3>1, <3>2
  <2> QED
    BY <2>3, <2>4
<1>9. HasSet(prog, "felicaHandle", yes) => HasSet(prog', "felicaHandle", yes) \/ IsSet(step, "felicaHandle")
  <2> HIDE DEF yes
  <2> QED
    BY <1>3
<1>10. ASSUME "hceF" \in call.p PROVE HasSet(prog', "felicaHandle", TRUE) \/ hdl'.felicaHandle
  <2>1. hdl'.felicaHandle = (IF IsSet(step, "felicaHandle") THEN step.to ELSE hdl.felicaHandle)
    BY <1>4
  <2>2. HasSet(prog, "felicaHandle", TRUE) \/ hdl.felicaHandle
    BY <1>10 DEF Remembered
  <2>3. CASE IsSet(step, "felicaHandle")
    <3>1. hdl'.felicaHandle = TRUE
      BY <1>5, <2>1, <2>3
    <3> QED
      BY <3>1
  <2>4. CASE ~IsSet(step, "felicaHandle")
    <3>1. hdl'.felicaHandle = hdl.felicaHandle
      BY <2>1, <2>4
    <3>2. HasSet(prog, "felicaHandle", TRUE) => HasSet(prog', "felicaHandle", TRUE)
      BY <1>9, <2>4
    <3> QED
      BY <2>2, <3>1, <3>2
  <2> QED
    BY <2>3, <2>4
<1>11. ASSUME "hceA" \in call.p PROVE HasSet(prog', "protocols", {"ISO_DEP"}) \/ hdl'.protocols = {"ISO_DEP"}
  <2>1. hdl'.protocols = (IF IsSet(step, "protocols") THEN step.to ELSE hdl.protocols)
    BY <1>4
  <2>2. HasSet(prog, "protocols", {"ISO_DEP"}) \/ hdl.protocols = {"ISO_DEP"}
    BY <1>11 DEF Remembered
  <2>3. HasSet(prog, "protocols", {"ISO_DEP"}) => HasSet(prog', "protocols", {"ISO_DEP"}) \/ IsSet(step, "protocols")
    BY <1>3
  <2> QED
    BY <1>5, <2>1, <2>2, <2>3
<1>12. /\ \A f \in {"app", "prev", "disc"} : HasSet(prog', f, call'.p) \/ hdl'[f] = call'.p
       /\ "llcp" \in call'.p => HasSet(prog', "llcp", TRUE) \/ hdl'.llcp
       /\ "hceA" \in call'.p => HasSet(prog', "protocols", {"ISO_DEP"}) \/ hdl'.protocols = {"ISO_DEP"}
       /\ "hceF" \in call'.p => HasSet(prog', "felicaHandle", TRUE) \/ hdl'.felicaHandle
  <2>1. call'.p = call.p
    BY <1>1
  <2> QED
    BY <1>6, <1>8, <1>10, <1>11, <2>1
<1> QED
  BY <1>12 DEF Remembered

LEMMA MovedModed ==
  ASSUME Sound, Moves, Tidy(prog), Members, Moded
  PROVE  Moded'
<1>1. call'.name = call.name /\ call'.p = call.p
  BY DEF Moves
<1> SUFFICES ASSUME Asks PROVE Moded'
  BY <1>1 DEF Asks, Moded
<1>2. /\ Typed(step) /\ Fits(step, call.name, call.p) /\ hdl \in HdlType
      /\ IsSet(step, "llcpEnabled") /\ step.to = TRUE => \A v : ~HasSet(prog', "llcpEnabled", v)
      /\ step.op = "mode" => \A v : ~HasSet(prog', "llcpEnabled", v)
  BY MovedAfter
<1> DEFINE yes == TRUE
           no == FALSE
<1>3. /\ HasSet(prog, "llcpEnabled", yes) => HasSet(prog', "llcpEnabled", yes) \/ (IsSet(step, "llcpEnabled") /\ step.to = yes)
      /\ HasSet(prog', "llcpEnabled", no) => HasSet(prog, "llcpEnabled", no)
      /\ Has(prog, "mode", "-") => Has(prog', "mode", "-") \/ step.op = "mode"
      /\ IsSet(step, "llcpEnabled") => HasSet(prog, "llcpEnabled", step.to)
  <2> HIDE DEF yes, no
  <2> QED
    BY MovedSteps
<1>4. /\ hdl'.llcpEnabled = (IF IsSet(step, "llcpEnabled") THEN step.to ELSE hdl.llcpEnabled)
      /\ hdl'.llcpMode = (IF step.op = "mode" THEN hdl.llcpEnabled ELSE hdl.llcpMode)
  BY HdlMoved
<1>5. IsSet(step, "llcpEnabled") => step.to \in BOOLEAN /\ (step.to = FALSE \/ "llcp" \in call.p)
  BY <1>2 DEF Typed, Fits, IsSet, Flags
<1>6. ASSUME "llcp" \in call.p
      PROVE  HasSet(prog', "llcpEnabled", TRUE) \/ (hdl'.llcpEnabled /\ ~HasSet(prog', "llcpEnabled", FALSE))
  <2>1. HasSet(prog, "llcpEnabled", TRUE) \/ (hdl.llcpEnabled /\ ~HasSet(prog, "llcpEnabled", FALSE))
    BY <1>6 DEF Moded
  <2>2. CASE IsSet(step, "llcpEnabled") /\ step.to = TRUE
    <3>1. hdl'.llcpEnabled = TRUE
      BY <1>4, <2>2
    <3>2. ~HasSet(prog', "llcpEnabled", FALSE)
      BY <1>2, <2>2
    <3> QED
      BY <3>1, <3>2
  <2>3. CASE ~(IsSet(step, "llcpEnabled") /\ step.to = TRUE)
    <3>1. CASE HasSet(prog, "llcpEnabled", TRUE)
      <4>1. HasSet(prog', "llcpEnabled", TRUE)
        BY <1>3, <2>3, <3>1
      <4> QED
        BY <4>1
    <3>2. CASE hdl.llcpEnabled /\ ~HasSet(prog, "llcpEnabled", FALSE)
      <4>1. ~IsSet(step, "llcpEnabled")
        <5>1. SUFFICES ASSUME IsSet(step, "llcpEnabled") PROVE FALSE
          OBVIOUS
        <5>2. step.to = FALSE
          BY <1>5, <2>3, <5>1
        <5>3. HasSet(prog, "llcpEnabled", step.to)
          BY <1>3, <5>1
        <5>4. HasSet(prog, "llcpEnabled", FALSE)
          BY <5>2, <5>3, Zenon
        <5> QED
          BY <3>2, <5>4
      <4>2. hdl'.llcpEnabled = hdl.llcpEnabled
        BY <1>4, <4>1
      <4>3. ~HasSet(prog', "llcpEnabled", FALSE)
        BY <1>3, <3>2
      <4> QED
        BY <3>2, <4>2, <4>3
    <3> QED
      BY <2>1, <3>1, <3>2
  <2> QED
    BY <2>2, <2>3
<1>7. ASSUME "llcp" \notin call.p PROVE ~hdl'.llcpEnabled
  <2>1. ~hdl.llcpEnabled
    BY <1>7 DEF Moded
  <2>2. CASE IsSet(step, "llcpEnabled")
    <3>1. hdl'.llcpEnabled = FALSE
      BY <1>4, <1>5, <1>7, <2>2
    <3> QED
      BY <3>1
  <2>3. CASE ~IsSet(step, "llcpEnabled")
    <3>1. hdl'.llcpEnabled = hdl.llcpEnabled
      BY <1>4, <2>3
    <3> QED
      BY <2>1, <3>1
  <2> QED
    BY <2>2, <2>3
<1>8. Has(prog', "mode", "-") \/ hdl'.llcpMode = ("llcp" \in call.p)
  <2>1. CASE step.op = "mode"
    <3>1. hdl'.llcpMode = hdl.llcpEnabled /\ hdl'.llcpEnabled = hdl.llcpEnabled
      BY <1>4, <2>1 DEF IsSet
    <3>2. ~HasSet(prog', "llcpEnabled", TRUE)
      BY <1>2, <2>1
    <3>3. "llcp" \in call.p => hdl'.llcpEnabled
      BY <1>6, <3>2
    <3>4. "llcp" \notin call.p => ~hdl'.llcpEnabled
      BY <1>7
    <3>5. hdl.llcpEnabled \in BOOLEAN
      BY <1>2 DEF HdlType
    <3> QED
      BY <3>1, <3>3, <3>4, <3>5
  <2>2. CASE step.op # "mode"
    <3>1. hdl'.llcpMode = hdl.llcpMode
      BY <1>4, <2>2
    <3>2. Has(prog, "mode", "-") \/ hdl.llcpMode = ("llcp" \in call.p)
      BY DEF Moded
    <3> QED
      BY <1>3, <2>2, <3>1, <3>2
  <2> QED
    BY <2>1, <2>2
<1>9. /\ "llcp" \in call'.p => HasSet(prog', "llcpEnabled", TRUE) \/ (hdl'.llcpEnabled /\ ~HasSet(prog', "llcpEnabled", FALSE))
      /\ "llcp" \notin call'.p => ~hdl'.llcpEnabled
      /\ Has(prog', "mode", "-") \/ hdl'.llcpMode = ("llcp" \in call'.p)
  <2>1. call'.p = call.p
    BY <1>1
  <2> QED
    BY <1>6, <1>7, <1>8, <2>1
<1> QED
  BY <1>9 DEF Moded

LEMMA MovedRouted ==
  ASSUME Sound, Moves, Tidy(prog), Members, Remembered, Routed
  PROVE  Routed'
<1>1. call'.name = call.name /\ call'.p = call.p
  BY DEF Moves
<1> SUFFICES ASSUME Asks, "p2p" \in call.p PROVE Routed'
  BY <1>1 DEF Asks, Routed
<1>2. /\ Pinned(step) /\ hdl \in HdlType
      /\ step.op = "routeP2p" => /\ \A x : ~Has(prog', "route", x) /\ (x # "isoDepListen" => ~Has(prog', "off", x))
                                 /\ \A v : ~HasSet(prog', "protocols", v)
  BY MovedAfter
<1>3. /\ Has(prog, "routeP2p", "-") => Has(prog', "routeP2p", "-") \/ step.op = "routeP2p"
      /\ \A op, x : Has(prog', op, x) => Has(prog, op, x)
      /\ Has(prog, step.op, step.x)
  BY MovedSteps
<1>4. route' = RouteAfter(step)
  BY DEF Moves
<1>5. CASE step.op = "routeP2p"
  <2>1. route' = {"NFC_DEP"} \cup hdl.protocols
    BY <1>4, <1>5 DEF RouteAfter
  <2>2. Remembered'
    BY MovedRemembered
  <2>3. "hceA" \in call.p => hdl'.protocols = {"ISO_DEP"}
    <3>1. ~HasSet(prog', "protocols", {"ISO_DEP"})
      BY <1>2, <1>5
    <3> QED
      BY <1>1, <2>2, <3>1 DEF Remembered, Asks
  <2>4. hdl'.protocols = hdl.protocols
    BY <1>5, HdlMoved DEF IsSet
  <2>5. {"NFC_DEP"} \cup {q \in {"ISO_DEP"} : "hceA" \in call'.p} \subseteq route' /\ ~Has(prog', "route", "-") /\ ~Has(prog', "off", "up")
    BY <1>1, <1>2, <1>5, <2>1, <2>3, <2>4
  <2> QED
    BY <2>5 DEF Routed
<1>6. CASE step.op # "routeP2p"
  <2>1. CASE Has(prog, "routeP2p", "-")
    <3>1. Has(prog', "routeP2p", "-")
      BY <1>3, <1>6, <2>1
    <3> QED
      BY <3>1 DEF Routed
  <2>2. CASE /\ {"NFC_DEP"} \cup {q \in {"ISO_DEP"} : "hceA" \in call.p} \subseteq route
             /\ ~Has(prog, "route", "-") /\ ~Has(prog, "off", "up")
    <3>1. step.op # "route" /\ ~(step.op = "off" /\ step.x = "up")
      BY <1>2, <1>3, <2>2 DEF Pinned
    <3>2. route' = route
      BY <1>4, <1>6, <3>1 DEF RouteAfter
    <3>3. ~Has(prog', "route", "-") /\ ~Has(prog', "off", "up")
      BY <1>3, <2>2
    <3>4. {"NFC_DEP"} \cup {q \in {"ISO_DEP"} : "hceA" \in call'.p} \subseteq route'
      BY <1>1, <2>2, <3>2
    <3> QED
      BY <3>3, <3>4 DEF Routed
  <2> QED
    BY <2>1, <2>2 DEF Routed
<1> QED
  BY <1>5, <1>6

-----------------------------------------------------------------------------
(* Steps and the discovery.                                                *)

LEMMA MovedDiscovered ==
  ASSUME Sound, Moves, Tidy(prog), Members, Discovered
  PROVE  Discovered'
<1>1. /\ Fits(step, call.name, call.p)
      /\ hdl.aidHandle \in {"-", "aid", "felica"} /\ hdl \in HdlType
      /\ step.op = "on" => \A x : x # "isoDepListen" => ~Has(prog', "off", x)
      /\ step.op = "on" /\ step.x = "disc" => \A i \in 1..Len(prog') : prog'[i].op \in {"set", "return"}
      /\ IsSet(step, "idle") => \A op, x : Has(prog', op, x) => op = "return"
  BY MovedAfter
<1> DEFINE no == FALSE
<1>2. /\ Has(prog, "off", "disc") => Has(prog', "off", "disc") \/ (step.op = "off" /\ step.x = "disc")
      /\ \A op, x : Has(prog', op, x) => Has(prog, op, x)
      /\ Has(prog, step.op, step.x)
      /\ HasSet(prog, "idle", no) => HasSet(prog', "idle", no) \/ (IsSet(step, "idle") /\ step.to = no)
  <2> HIDE DEF no
  <2> QED
    BY MovedSteps
<1>3. /\ "disc" \in stack' => "disc" \in stack \/ (step.op = "on" /\ step.x = "disc")
      /\ "disc" \in stack => \/ "disc" \in stack'
                             \/ step.op = "off" /\ step.x \in {"disc", "up"}
      /\ step.op = "off" /\ step.x = "disc" /\ ~hdl.idle => "disc" \notin stack'
  BY <1>1, StackMoved
<1>4. /\ IsSet(step, "idle") => hdl'.idle = FALSE
      /\ ~IsSet(step, "idle") /\ hdl'.idle # hdl.idle => step.op = "off" /\ step.x = "disc" /\ hdl'.idle = TRUE
  BY <1>1, HdlMoved DEF Fits
<1>5. Has(prog', "off", "disc") \/ "disc" \notin stack' \/ \A i \in 1..Len(prog') : ~Sensitive(prog'[i])
  <2>1. CASE step.op = "on" /\ step.x = "disc"
    BY <1>1, <2>1 DEF Sensitive
  <2>2. CASE step.op = "off" /\ step.x = "disc"
    <3>1. Has(prog, "off", "disc")
      BY <1>2, <2>2
    <3>2. hdl.idle => "disc" \notin stack
      BY <3>1 DEF Discovered
    <3> QED
      BY <1>3, <2>2, <3>2
  <2>3. CASE step.x # "disc" \/ step.op \notin {"on", "off"}
    <3>1. "disc" \in stack' => "disc" \in stack
      BY <1>3, <2>3
    <3>2. ASSUME \A i \in 1..Len(prog) : ~Sensitive(prog[i])
          PROVE  \A i \in 1..Len(prog') : ~Sensitive(prog'[i])
      <4>1. \A i \in 1..Len(prog') : \E j \in 2..Len(prog) : prog'[i] = prog[j]
        BY MovedProg
      <4>2. Len(prog) \in Nat
        BY HeadIs DEF Sound, Moves
      <4>3. \A j \in 2..Len(prog) : j \in 1..Len(prog)
        BY <4>2
      <4> QED
        BY <3>2, <4>1, <4>3
    <3> QED
      BY <1>2, <2>3, <3>1, <3>2 DEF Discovered
  <2> QED
    BY <2>1, <2>2, <2>3
<1>6. (hdl'.idle => "disc" \notin stack') \/ (HasSet(prog', "idle", FALSE) /\ ~Has(prog', "off", "disc"))
  <2>1. CASE step.op = "on" /\ step.x = "disc"
    <3>1. HasSet(prog, "idle", FALSE)
      BY <1>2, <2>1 DEF Discovered
    <3>2. HasSet(prog', "idle", FALSE)
      BY <1>2, <2>1, <3>1 DEF IsSet
    <3> QED
      BY <1>1, <2>1, <3>2
  <2>2. CASE ~(step.op = "on" /\ step.x = "disc")
    <3>1. CASE hdl.idle => "disc" \notin stack
      <4>1. CASE IsSet(step, "idle")
        BY <1>4, <4>1
      <4>2. CASE ~IsSet(step, "idle")
        <5>1. hdl.idle \in BOOLEAN
          BY <1>1 DEF HdlType
        <5> QED
          BY <1>3, <1>4, <2>2, <3>1, <4>2, <5>1
      <4> QED
        BY <4>1, <4>2
    <3>2. CASE HasSet(prog, "idle", FALSE) /\ ~Has(prog, "off", "disc")
      <4>1. ~Has(prog', "off", "disc")
        BY <1>2, <3>2
      <4>2. HasSet(prog', "idle", FALSE) \/ IsSet(step, "idle")
        BY <1>2, <3>2
      <4> QED
        BY <1>4, <4>1, <4>2
    <3> QED
      BY <3>1, <3>2 DEF Discovered
  <2> QED
    BY <2>1, <2>2
<1>7. Has(prog', "on", "disc") => HasSet(prog', "idle", FALSE)
  <2>1. SUFFICES ASSUME Has(prog', "on", "disc") PROVE HasSet(prog', "idle", FALSE)
    OBVIOUS
  <2>2. Has(prog, "on", "disc")
    BY <1>2, <2>1
  <2>3. HasSet(prog, "idle", FALSE)
    BY <2>2 DEF Discovered
  <2>4. ~IsSet(step, "idle")
    BY <1>1, <2>1
  <2> QED
    BY <1>2, <2>3, <2>4
<1> QED
  BY <1>5, <1>6, <1>7 DEF Discovered

LEMMA MovedAidHeld ==
  ASSUME Sound, Moves, Tidy(prog), Members, AidHeld
  PROVE  AidHeld'
<1>1. call'.name = call.name /\ call'.p = call.p
  BY DEF Moves
<1>2. /\ step.op = "on" => \A x : x # "isoDepListen" => ~Has(prog', "off", x)
      /\ step.op = "on" /\ step.x = "aid" => ~Has(prog', "on", "felica")
  BY MovedAfter
<1>3. /\ \A op, x : Has(prog', op, x) => Has(prog, op, x)
      /\ Has(prog, step.op, step.x)
      /\ Has(prog, "on", "aid") => Has(prog', "on", "aid") \/ (step.op = "on" /\ step.x = "aid")
  BY MovedSteps
<1>4. "aid" \in stack' => "aid" \in stack \/ (step.op = "on" /\ step.x = "aid")
  BY StackMoved
<1>5. hdl'.aidHandle = (IF step.op = "on" /\ step.x \in {"aid", "felica"} THEN step.x ELSE hdl.aidHandle)
  BY HdlMoved
<1>6. "aid" \in stack' => hdl'.aidHandle = "aid"
  BY <1>3, <1>4, <1>5 DEF AidHeld
<1>7. Asks /\ Has(prog', "off", "aid") => hdl'.aidHandle = "aid"
  BY <1>2, <1>3, <1>5 DEF AidHeld
<1>8. Has(prog', "on", "felica") => "aid" \notin stack'
  BY <1>2, <1>3, <1>4 DEF AidHeld
<1>9. Asks /\ HostCE(call.p) => Has(prog', "on", "aid") \/ (hdl'.aidHandle = "aid" /\ ~Has(prog', "on", "felica"))
  <2>1. SUFFICES ASSUME Asks, HostCE(call.p)
                 PROVE  Has(prog', "on", "aid") \/ (hdl'.aidHandle = "aid" /\ ~Has(prog', "on", "felica"))
    OBVIOUS
  <2>2. CASE Has(prog, "on", "aid")
    BY <1>2, <1>3, <1>5, <2>2
  <2>3. CASE hdl.aidHandle = "aid" /\ ~Has(prog, "on", "felica")
    BY <1>3, <1>5, <2>3
  <2> QED
    BY <2>1, <2>2, <2>3 DEF AidHeld
<1>10. /\ Asks' /\ Has(prog', "off", "aid") => hdl'.aidHandle = "aid"
       /\ Asks' /\ HostCE(call'.p) => Has(prog', "on", "aid") \/ (hdl'.aidHandle = "aid" /\ ~Has(prog', "on", "felica"))
  <2>1. Asks' <=> Asks
    BY <1>1 DEF Asks
  <2>2. call'.p = call.p
    BY <1>1
  <2> QED
    BY <1>7, <1>9, <2>1, <2>2
<1> QED
  BY <1>6, <1>8, <1>10 DEF AidHeld

LEMMA MovedBare ==
  ASSUME Sound, Moves, Tidy(prog), Members, Bare
  PROVE  Bare'
<1>1. call'.name = call.name
  BY DEF Moves
<1> SUFFICES ASSUME call.name = "init" PROVE Bare'
  BY <1>1 DEF Bare
<1>2. Fits(step, call.name, call.p)
  BY MovedAfter
<1>3. step.op = "on" => step.x \in Base \cup {"ee"}
  BY <1>2 DEF Fits
<1>4. \A x : x \in stack' => x \in stack \/ x \in Base \cup {"ee"}
  BY <1>3, StackMoved
<1>5. stack' \cap ((Marks \ Stays) \cup {"disc"}) = {} /\ (Mixed \/ "hci" \notin stack')
  <2>1. (Base \cup {"ee"}) \cap (Marks \cup {"disc", "hci"}) = {}
    BY DEF Base, Marks, Techs, LlcpEnds
  <2> QED
    BY <1>4, <2>1 DEF Bare
<1>6. ~hdl'.llcpEnabled
  <2>1. hdl'.llcpEnabled = (IF IsSet(step, "llcpEnabled") THEN step.to ELSE hdl.llcpEnabled)
    BY HdlMoved
  <2>2. IsSet(step, "llcpEnabled") => step.to = FALSE
    BY <1>2 DEF Fits
  <2>3. ~hdl.llcpEnabled
    BY DEF Bare
  <2> QED
    BY <2>1, <2>2, <2>3
<1> QED
  BY <1>5, <1>6 DEF Bare

-----------------------------------------------------------------------------
(* Steps and what a release removes.                                       *)

(* What is at the start of the call moves up when the step leaves the      *)
(* rest alone, and it does when it finds what it removes.                  *)
LEMMA MovedTail ==
  ASSUME Sound, Moves, ~Loose(step) \/ (step.op = "off" /\ ~Optional(step))
  PROVE  /\ \A i \in Nat : \A x : OffAt(prog, i + 2, x) => OffAt(prog', i + 1, x)
         /\ \A x : OffAt(prog, 2, x) => OffAt(prog', 1, x)
         /\ \A x : OffAt(prog, 3, x) => OffAt(prog', 2, x)
         /\ \A x : OffAt(prog, 4, x) => OffAt(prog', 3, x)
<1>1. prog' = Tail(prog) /\ prog # <<>> /\ prog \in Seq(Allowed(call.name))
  BY DEF Sound, Steady, Moves
<1>2. /\ Len(prog) \in Nat /\ Len(prog') = Len(prog) - 1
      /\ \A i \in 1..Len(prog') : prog'[i] = prog[i + 1]
  BY <1>1, TailIs
<1>3. ASSUME NEW i \in Nat, NEW x, OffAt(prog, i + 2, x) PROVE OffAt(prog', i + 1, x)
  <2>1. i + 2 \in 1..Len(prog) /\ prog[i + 2].op = "off" /\ prog[i + 2].x = x
    BY <1>3 DEF OffAt
  <2>2. i + 1 \in 1..Len(prog')
    BY <1>2, <2>1
  <2>3. prog'[i + 1] = prog[i + 2]
    BY <1>2, <2>2
  <2> QED
    BY <2>1, <2>2, <2>3 DEF OffAt
<1>4. /\ 0 \in Nat /\ 1 \in Nat /\ 2 \in Nat
      /\ 0 + 2 = 2 /\ 0 + 1 = 1 /\ 1 + 2 = 3 /\ 1 + 1 = 2 /\ 2 + 2 = 4 /\ 2 + 1 = 3
  OBVIOUS
<1>5. \A x : OffAt(prog, 0 + 2, x) => OffAt(prog', 0 + 1, x)
  BY <1>3, <1>4
<1>6. \A x : OffAt(prog, 1 + 2, x) => OffAt(prog', 1 + 1, x)
  BY <1>3, <1>4
<1>7. \A x : OffAt(prog, 2 + 2, x) => OffAt(prog', 2 + 1, x)
  BY <1>3, <1>4
<1> QED
  BY <1>3, <1>4, <1>5, <1>6, <1>7

LEMMA MovedFelicaOut ==
  ASSUME Sound, Moves, Tidy(prog), Members, AidHeld, FelicaOut, call.name = "disable"
  PROVE  FelicaOut'
<1> SUFFICES ASSUME "felica" \in stack' PROVE FelicaOut'
  BY DEF FelicaOut
<1>1. /\ Fits(step, call.name, call.p) /\ hdl.aidHandle \in {"-", "aid", "felica"}
      /\ step = prog[1]
  BY MovedAfter, HeadIs DEF Sound, Moves
<1>2. "felica" \in stack
  <2>1. ~(step.op = "on" /\ step.x = "felica")
    BY <1>1 DEF Fits, Base
  <2> QED
    BY <2>1, StackMoved
<1>3. /\ hdl.felicaHandle
      /\ \/ OffAt(prog, 1, "felica")
         \/ OffAt(prog, 1, "ee") /\ OffAt(prog, 2, "felica") /\ "ee" \in stack
         \/ OffAt(prog, 1, "aid") /\ OffAt(prog, 2, "ee") /\ OffAt(prog, 3, "felica") /\ "ee" \in stack /\ "aid" \in stack
         \/ /\ SetAt(prog, 1, "protocols") /\ OffAt(prog, 2, "aid") /\ OffAt(prog, 3, "ee") /\ OffAt(prog, 4, "felica")
            /\ "ee" \in stack /\ "aid" \in stack
  BY <1>2 DEF FelicaOut
<1>4. step.op # "set" \/ step.x = "protocols" => hdl'.felicaHandle
  <2>1. hdl'.felicaHandle = (IF IsSet(step, "felicaHandle") THEN step.to ELSE hdl.felicaHandle)
    BY HdlMoved
  <2> QED
    BY <1>3, <2>1 DEF IsSet
<1>5. ~OffAt(prog, 1, "felica")
  <2>1. step.op = "off" /\ step.x = "felica" => "felica" \notin stack'
    BY <1>3, StackMoved
  <2> QED
    BY <1>1, <2>1 DEF OffAt
<1>6. CASE OffAt(prog, 1, "ee") /\ OffAt(prog, 2, "felica") /\ "ee" \in stack
  <2>1. step.op = "off" /\ step.x = "ee"
    BY <1>1, <1>6 DEF OffAt
  <2>2. ~Optional(step)
    BY <1>6, <2>1 DEF Optional
  <2>3. OffAt(prog', 1, "felica")
    BY <1>6, <2>1, <2>2, MovedTail
  <2> QED
    BY <1>4, <2>1, <2>3 DEF FelicaOut
<1>7. CASE OffAt(prog, 1, "aid") /\ OffAt(prog, 2, "ee") /\ OffAt(prog, 3, "felica") /\ "ee" \in stack /\ "aid" \in stack
  <2>1. step.op = "off" /\ step.x = "aid"
    BY <1>1, <1>7 DEF OffAt
  <2>2. hdl.aidHandle = "aid"
    BY <1>7 DEF AidHeld
  <2>3. ~Optional(step)
    BY <1>7, <2>1, <2>2 DEF Optional
  <2>4. OffAt(prog', 1, "ee") /\ OffAt(prog', 2, "felica")
    BY <1>7, <2>1, <2>3, MovedTail
  <2>5. "ee" \in stack'
    BY <1>7, <2>1, <2>2, StackMoved
  <2> QED
    BY <1>4, <2>1, <2>4, <2>5 DEF FelicaOut
<1>8. CASE /\ SetAt(prog, 1, "protocols") /\ OffAt(prog, 2, "aid") /\ OffAt(prog, 3, "ee") /\ OffAt(prog, 4, "felica")
           /\ "ee" \in stack /\ "aid" \in stack
  <2>1. step.op = "set" /\ step.x = "protocols"
    BY <1>1, <1>8 DEF SetAt, IsSet
  <2>2. ~Loose(step)
    BY <2>1 DEF Loose
  <2>3. OffAt(prog', 1, "aid") /\ OffAt(prog', 2, "ee") /\ OffAt(prog', 3, "felica")
    BY <1>8, <2>2, MovedTail
  <2>4. stack' = stack
    BY <2>1, StackMoved
  <2>5. "ee" \in stack' /\ "aid" \in stack'
    BY <1>8, <2>4
  <2> QED
    BY <1>4, <2>1, <2>3, <2>5 DEF FelicaOut
<1> QED
  BY <1>3, <1>5, <1>6, <1>7, <1>8

LEMMA MovedHciOut ==
  ASSUME Sound, Moves, Tidy(prog), Members, HciOut, call.name = "disable"
  PROVE  HciOut'
<1> SUFFICES ASSUME ~Mixed, "hci" \in stack' PROVE HciOut'
  BY DEF HciOut
<1>1. /\ Fits(step, call.name, call.p) /\ hdl.aidHandle \in {"-", "aid", "felica"}
      /\ step = prog[1]
  BY MovedAfter, HeadIs DEF Sound, Moves
<1>2. "hci" \in stack
  <2>1. ~(step.op = "on" /\ step.x = "hci")
    BY <1>1 DEF Fits, Base
  <2> QED
    BY <2>1, StackMoved
<1>3. OffAt(prog, 1, "hci") \/ (OffAt(prog, 1, "ee") /\ OffAt(prog, 2, "hci") /\ "ee" \in stack)
  BY <1>2 DEF HciOut
<1>4. ~OffAt(prog, 1, "hci")
  <2>1. step.op = "off" /\ step.x = "hci" => "hci" \notin stack'
    BY StackMoved
  <2> QED
    BY <1>1, <2>1 DEF OffAt
<1>5. step.op = "off" /\ step.x = "ee" /\ "ee" \in stack /\ OffAt(prog, 2, "hci")
  BY <1>1, <1>3, <1>4 DEF OffAt
<1>6. ~Optional(step)
  BY <1>5 DEF Optional
<1>7. OffAt(prog', 1, "hci")
  BY <1>5, <1>6, MovedTail
<1> QED
  BY <1>7 DEF HciOut

LEMMA MovedRemoved ==
  ASSUME Sound, Moves, Tidy(prog), Members, Discovered, AidHeld, Removed
  PROVE  Removed'
<1>1. call'.name = call.name
  BY DEF Moves
<1> SUFFICES ASSUME call.name = "disable" PROVE Removed'
  BY <1>1 DEF Removed
<1>2. Fits(step, call.name, call.p) /\ hdl.aidHandle \in {"-", "aid", "felica"}
  BY MovedAfter
<1> DEFINE no == FALSE
<1>3. /\ \A op, x : Has(prog', op, x) => Has(prog, op, x)
      /\ \A x : Has(prog, "off", x) /\ x \notin {"felica", "ee", "hci", "aid"} => Has(prog', "off", x) \/ (step.op = "off" /\ step.x = x)
      /\ ResetsAid(prog) => ResetsAid(prog') \/ (step.op = "off" /\ step.x = "aid")
      /\ Has(prog, step.op, step.x)
      /\ HasSet(prog, "llcpEnabled", no) => HasSet(prog', "llcpEnabled", no) \/ IsSet(step, "llcpEnabled")
  <2>1. \A op, x : /\ Has(prog, op, x)
                   /\ op # "ee" /\ (op = "on" => x # "hci")
                   /\ op = "off" => Asks \/ x \notin {"felica", "ee", "hci", "aid"}
                   /\ op # "set"
                   => Has(prog', op, x) \/ (step.op = op /\ (step.x = x \/ op = "routeP2p"))
    BY MovedSteps
  <2>2. \A x : Has(prog, "off", x) /\ x \notin {"felica", "ee", "hci", "aid"} => Has(prog', "off", x) \/ (step.op = "off" /\ step.x = x)
    BY <2>1
  <2> HIDE DEF no
  <2>3. /\ \A op, x : Has(prog', op, x) => Has(prog, op, x)
        /\ ResetsAid(prog) => ResetsAid(prog') \/ (step.op = "off" /\ step.x = "aid")
        /\ Has(prog, step.op, step.x)
        /\ HasSet(prog, "llcpEnabled", no) => HasSet(prog', "llcpEnabled", no) \/ IsSet(step, "llcpEnabled")
    BY MovedSteps
  <2> QED
    BY <2>2, <2>3
<1>4. \A x : x \in stack' => x \in stack \/ x \in Base \cup {"ee"}
  <2>1. step.op = "on" => step.x \in Base \cup {"ee"}
    BY <1>2 DEF Fits
  <2> QED
    BY <2>1, StackMoved
<1>5. (Base \cup {"ee"}) \cap (Marks \cup {"disc", "hci"}) = {} /\ Techs \cup LlcpEnds \cup {"aid"} \subseteq Marks
  BY DEF Base, Marks, Techs, LlcpEnds
<1>12. hdl'.disc = hdl.disc
  <2>1. hdl'["disc"] = (IF IsSet(step, "disc") THEN step.to ELSE hdl["disc"])
    BY HdlMoved
  <2>2. ~IsSet(step, "disc")
    BY <1>2 DEF Fits
  <2> QED
    BY <2>1, <2>2
<1>6. ASSUME NEW x \in Techs, x \in stack' PROVE Has(prog', "off", x) \/ (x \in Stays /\ "p2p" \notin hdl'.disc)
  <2>1. x \notin {"felica", "ee", "hci", "aid", "up", "disc"}
    BY <1>6 DEF Techs
  <2>2. Has(prog, "off", x) \/ (x \in Stays /\ "p2p" \notin hdl.disc)
    BY <1>4, <1>5, <1>6 DEF Removed
  <2>3. ~(step.op = "off" /\ step.x = x)
    BY <1>6, <2>1, StackMoved
  <2> QED
    BY <1>3, <1>12, <2>1, <2>2, <2>3
<1>7. ASSUME NEW x \in LlcpEnds, x \in stack' PROVE Has(prog', "off", "up")
  <2>1. Has(prog, "off", "up")
    BY <1>4, <1>5, <1>7 DEF Removed
  <2>2. x # "driver"
    BY <1>7 DEF LlcpEnds
  <2>3. ~(step.op = "off" /\ step.x = "up")
    BY <1>7, <2>2, StackMoved
  <2> QED
    BY <1>3, <2>1, <2>3
<1>8. "aid" \in stack' => ResetsAid(prog')
  <2>1. SUFFICES ASSUME "aid" \in stack' PROVE ResetsAid(prog')
    OBVIOUS
  <2>2. "aid" \in stack
    BY <1>4, <1>5, <2>1
  <2>3. ~(step.op = "off" /\ step.x = "aid")
    BY <2>1, <2>2, StackMoved DEF AidHeld
  <2> QED
    BY <1>3, <2>2, <2>3 DEF Removed
<1>9. "disc" \in stack' => Has(prog', "off", "disc")
  <2>1. SUFFICES ASSUME "disc" \in stack' PROVE Has(prog', "off", "disc")
    OBVIOUS
  <2>2. "disc" \in stack
    BY <1>4, <1>5, <2>1
  <2>3. Has(prog, "off", "disc")
    BY <2>2 DEF Removed
  <2>4. ~hdl.idle
    BY <2>2, <2>3 DEF Discovered
  <2>5. ~(step.op = "off" /\ step.x = "disc")
    BY <2>1, <2>4, StackMoved
  <2> QED
    BY <1>3, <2>3, <2>5
<1>10. FelicaOut' /\ HciOut'
  BY MovedFelicaOut, MovedHciOut DEF Removed
<1>11. HasSet(prog', "llcpEnabled", FALSE) \/ ~hdl'.llcpEnabled
  <2>1. hdl'.llcpEnabled = (IF IsSet(step, "llcpEnabled") THEN step.to ELSE hdl.llcpEnabled)
    BY HdlMoved
  <2>2. IsSet(step, "llcpEnabled") => step.to = FALSE
    BY <1>2 DEF Fits
  <2>3. HasSet(prog, "llcpEnabled", FALSE) \/ ~hdl.llcpEnabled
    BY DEF Removed
  <2> QED
    BY <1>3, <2>1, <2>2, <2>3
<1> QED
  BY <1>6, <1>7, <1>8, <1>9, <1>10, <1>11 DEF Removed

(* A step that is not suspicious keeps the account.                        *)
LEMMA MovedClean ==
  ASSUME Sound, Moves, Tidy(prog), Clean
  PROVE  Clean'
<1>1. Members /\ Reaches /\ Registered /\ Remembered /\ Moded /\ Routed /\ Discovered /\ AidHeld /\ Bare /\ Removed
  BY DEF Clean
<1>2. Members' /\ Reaches' /\ Registered' /\ Remembered'
  BY <1>1, MovedMembers, MovedReaches, MovedRegistered, MovedRemembered
<1>3. Moded' /\ Routed' /\ Discovered' /\ AidHeld' /\ Bare' /\ Removed'
  BY <1>1, MovedModed, MovedRouted, MovedDiscovered, MovedAidHeld, MovedBare, MovedRemoved
<1> QED
  BY <1>2, <1>3 DEF Clean

-----------------------------------------------------------------------------
(* Steps and the base of the middleware.                                   *)

(* What holds under suspicion too.                                         *)
LEMMA BaseStays ==
  ASSUME Sound, NEW s, stack' = StackAfter(s)
  PROVE  /\ \A b \in Base : b \in stack /\ ~(s.op = "off" /\ s.x \in {b, "up"}) => b \in stack'
         /\ s.op = "on" => s.x \in stack'
<1>1. hdl.aidHandle \in {"-", "aid", "felica"}
  BY DEF Sound, Types, HdlType
<1>2. \A b \in Base : b \notin {"aid", "felica", "disc", "-"}
  BY DEF Base
<1>3. CASE s.op = "on"
  <2>1. stack' = stack \cup {s.x}
    BY <1>3 DEF StackAfter
  <2> QED
    BY <1>3, <2>1
<1>4. CASE s.op = "off" /\ s.x \in {"up", "aid", "felica", "disc"}
  <2>1. CASE s.x = "up"
    BY <1>4, <2>1
  <2>2. CASE s.x = "aid"
    BY <1>1, <1>2, <1>4, <2>2 DEF StackAfter
  <2>3. CASE s.x = "felica"
    BY <1>2, <1>4, <2>3 DEF StackAfter
  <2>4. CASE s.x = "disc"
    BY <1>2, <1>4, <2>4 DEF StackAfter
  <2> QED
    BY <1>4, <2>1, <2>2, <2>3, <2>4
<1>5. CASE s.op = "off" /\ s.x \notin {"up", "aid", "felica", "disc"}
  <2>1. stack' = stack \ {s.x}
    BY <1>5 DEF StackAfter
  <2> QED
    BY <1>5, <2>1
<1>6. CASE s.op \notin {"on", "off"}
  <2>1. stack' = stack
    BY <1>6 DEF StackAfter
  <2> QED
    BY <1>6, <2>1
<1> QED
  BY <1>3, <1>4, <1>5, <1>6

LEMMA GroundTaken ==
  ASSUME Sound, Taken, Ground
  PROVE  Ground'
<1>1. /\ step \in Steps /\ step = prog[1] /\ Typed(step)
      /\ \A op, x : Has(prog', op, x) => Has(prog, op, x)
      /\ \A op, x : Has(prog, op, x) => Has(prog', op, x) \/ (step.op = op /\ step.x = x)
      /\ \A f, v : HasSet(prog, f, v) => HasSet(prog', f, v) \/ (IsSet(step, f) /\ step.to = v)
      /\ Has(prog, step.op, step.x)
      /\ call'.name = call.name
  BY TakenRest
<1>2. /\ prog # <<>> /\ stack' = StackAfter(step) /\ hdl' \in HdlAfter(step) /\ prog' = Tail(prog)
  BY DEF Taken, Effect
<1>3. Steady
  BY DEF Sound
<1>4. prog' \in Seq(Allowed(call.name)) /\ Rest(prog', prog, Allowed(call.name)) /\ prog \in Seq(Allowed(call.name))
  BY <1>2, <1>3, RestAfter DEF Steady
<1>5. Len(prog) \in Nat /\ 1 \in 1..Len(prog)
  BY <1>2, <1>3, HeadIs
<1>6. \A i \in 1..Len(prog') : \E j \in 2..Len(prog) : prog'[i] = prog[j]
  BY <1>4, RestOf
<1>7. \A j \in 2..Len(prog) : j \in 1..Len(prog) /\ 1 < j
  BY <1>5
<1>8. hdl'.llcpEnabled = (IF IsSet(step, "llcpEnabled") THEN step.to ELSE hdl.llcpEnabled)
  BY <1>2, HdlTaken
<1>9. call.name # "-"
  BY <1>2 DEF Sound, Asked
<1> DEFINE no == FALSE
<1>10. HasSet(prog, "llcpEnabled", no) => HasSet(prog', "llcpEnabled", no) \/ (IsSet(step, "llcpEnabled") /\ step.to = no)
  <2> HIDE DEF no
  <2> QED
    BY <1>1
<1>11. ASSUME call.name = "deinit"
       PROVE  /\ HasSet(prog', "llcpEnabled", FALSE) \/ ~hdl'.llcpEnabled
              /\ \A i \in 1..Len(prog') : Withdraws(prog'[i])
  <2>1. \A i \in 1..Len(prog) : Withdraws(prog[i])
    BY <1>11 DEF Ground
  <2>2. \A i \in 1..Len(prog') : Withdraws(prog'[i])
    BY <1>6, <1>7, <2>1
  <2>3. IsSet(step, "llcpEnabled") => step.to = FALSE
    BY <1>1, <1>5, <2>1 DEF Withdraws
  <2>4. HasSet(prog, "llcpEnabled", FALSE) \/ ~hdl.llcpEnabled
    BY <1>11 DEF Ground
  <2>5. HasSet(prog', "llcpEnabled", FALSE) \/ ~hdl'.llcpEnabled
    BY <1>8, <1>10, <2>3, <2>4
  <2> QED
    BY <2>2, <2>5
<1>12. ASSUME ~Gone
       PROVE  /\ Tidy(prog')
              /\ \A b \in Base : Has(prog', "on", b) \/ (b \in stack' /\ ~Has(prog', "off", b) /\ ~Has(prog', "off", "up"))
  <2>1. Tidy(prog)
    BY <1>12 DEF Ground
  <2>2. Tidy(prog')
    BY <1>4, <2>1, RestTidy
  <2>3. step.op = "on" => \A x : x # "isoDepListen" => ~Has(prog', "off", x)
    <3>1. \A i \in 1..Len(prog') : Follows(step, prog'[i])
      BY <1>1, <1>5, <1>6, <1>7, <2>1 DEF Tidy
    <3> QED
      BY <3>1 DEF Has, Follows
  <2>4. ASSUME NEW b \in Base
        PROVE  Has(prog', "on", b) \/ (b \in stack' /\ ~Has(prog', "off", b) /\ ~Has(prog', "off", "up"))
    <3>1. /\ b \in stack /\ ~(step.op = "off" /\ step.x \in {b, "up"}) => b \in stack'
          /\ step.op = "on" => step.x \in stack'
      BY <1>2, BaseStays
    <3>2. CASE Has(prog, "on", b)
      BY <1>1, <2>3, <3>1, <3>2 DEF Base
    <3>3. CASE b \in stack /\ ~Has(prog, "off", b) /\ ~Has(prog, "off", "up")
      <4>1. ~(step.op = "off" /\ step.x \in {b, "up"})
        BY <1>1, <3>3
      <4> QED
        BY <1>1, <3>1, <3>3, <4>1
    <3> QED
      BY <1>12, <3>2, <3>3 DEF Ground
  <2> QED
    BY <2>2, <2>4
<1>13. (Gone)' <=> Gone
  BY <1>1 DEF Gone
<1>14. call'.name # "-" /\ (call'.name = "deinit" <=> call.name = "deinit")
  BY <1>1, <1>9
<1> QED
  BY <1>11, <1>12, <1>13, <1>14 DEF Ground

LEMMA GroundLapsed ==
  ASSUME Sound, Library, NEW w, Lapsed(w), ~OfInit(step), Ground
  PROVE  Ground'
<1>1. /\ step \in Steps /\ step.op \notin {"set", "return", "create", "delete"}
      /\ \A op, x : /\ Has(prog, op, x)
                    /\ op \in {"create", "delete"} \/ (op \in {"on", "off"} /\ x \in Base)
                    => Has(prog', op, x)
  BY LapsedVital
<1>2. /\ prog # <<>> /\ call'.name = call.name
      /\ (stack' = stack /\ hdl' = hdl) \/ (stack' = StackAfter(step) /\ hdl' \in HdlAfter(step))
  BY DEF Lapsed, NoEffect, Effect
<1>3. Steady
  BY DEF Sound
<1> DEFINE A == Allowed(call.name)
<1>4. /\ prog' \in Seq(A) /\ Rest(prog', prog, KeptBy(A, w)) /\ prog \in Seq(A)
      /\ \A op, x : Has(prog', op, x) => Has(prog, op, x)
  BY <1>3, LapsedProg DEF Steady
<1>5. Len(prog) \in Nat /\ 1 \in 1..Len(prog) /\ step = prog[1]
  BY <1>2, <1>3, HeadIs
<1>6. /\ \A i \in 1..Len(prog') : \E j \in 2..Len(prog) : prog'[i] = prog[j]
      /\ \A j \in 2..Len(prog) : prog[j] \in KeptBy(A, w) => \E i \in 1..Len(prog') : prog'[i] = prog[j]
  <2> HIDE DEF A
  <2> QED
    BY <1>4, RestOf
<1>7. \A j \in 1..Len(prog) : (j = 1 \/ j \in 2..Len(prog)) /\ prog[j] \in A
  BY <1>4, <1>5
<1>8. hdl'.llcpEnabled = hdl.llcpEnabled
  <2>1. hdl' \in HdlAfter(step) => hdl'.llcpEnabled = hdl.llcpEnabled
    BY <1>1, <1>2, HdlTaken DEF IsSet
  <2> QED
    BY <1>2, <2>1
<1>9. call.name # "-"
  BY <1>2 DEF Sound, Asked
<1>10. ASSUME call.name = "deinit"
       PROVE  /\ HasSet(prog', "llcpEnabled", FALSE) \/ ~hdl'.llcpEnabled
              /\ \A i \in 1..Len(prog') : Withdraws(prog'[i])
  <2>1. \A i \in 1..Len(prog) : Withdraws(prog[i])
    BY <1>10 DEF Ground
  <2>2. \A i \in 1..Len(prog') : Withdraws(prog'[i])
    BY <1>5, <1>6, <2>1
  <2>3. w \cap Minor # {}
    BY <1>1, <1>5, <2>1 DEF Withdraws, Mild, Lapsed
  <2>4. HasSet(prog, "llcpEnabled", FALSE) => HasSet(prog', "llcpEnabled", FALSE)
    <3>1. SUFFICES ASSUME HasSet(prog, "llcpEnabled", FALSE) PROVE HasSet(prog', "llcpEnabled", FALSE)
      OBVIOUS
    <3>2. PICK j \in 1..Len(prog) : IsSet(prog[j], "llcpEnabled") /\ prog[j].to = FALSE
      BY <3>1 DEF HasSet
    <3>3. j \in 2..Len(prog) /\ prog[j] \in A
      BY <1>1, <1>5, <1>7, <3>2 DEF IsSet
    <3>4. prog[j].within \cap Minor = {}
      BY <2>1, <3>2 DEF Withdraws
    <3>5. prog[j] \in KeptBy(A, w)
      BY <2>3, <3>3, <3>4 DEF KeptBy
    <3> QED
      BY <1>6, <3>2, <3>3, <3>5 DEF HasSet
  <2>5. HasSet(prog, "llcpEnabled", FALSE) \/ ~hdl.llcpEnabled
    BY <1>10 DEF Ground
  <2> QED
    BY <1>8, <2>2, <2>4, <2>5
<1>11. ASSUME ~Gone
       PROVE  /\ Tidy(prog')
              /\ \A b \in Base : Has(prog', "on", b) \/ (b \in stack' /\ ~Has(prog', "off", b) /\ ~Has(prog', "off", "up"))
  <2>1. Tidy(prog)
    BY <1>11 DEF Ground
  <2>2. Tidy(prog')
    <3> HIDE DEF A
    <3> QED
      BY <1>4, <2>1, RestTidy
  <2>3. ASSUME NEW b \in Base
        PROVE  Has(prog', "on", b) \/ (b \in stack' /\ ~Has(prog', "off", b) /\ ~Has(prog', "off", "up"))
    <3>1. CASE Has(prog, "on", b)
      BY <1>1, <3>1
    <3>2. CASE b \in stack /\ ~Has(prog, "off", b) /\ ~Has(prog, "off", "up")
      <4>1. ~Has(prog', "off", b) /\ ~Has(prog', "off", "up")
        BY <1>4, <3>2
      <4>2. ~(step.op = "off" /\ step.x \in {b, "up"})
        BY DEF OfInit, Base
      <4>3. b \in stack'
        <5>1. stack' = StackAfter(step) => b \in stack'
          BY <3>2, <4>2, BaseStays
        <5> QED
          BY <1>2, <3>2, <5>1
      <4> QED
        BY <4>1, <4>3
    <3> QED
      BY <1>11, <3>1, <3>2 DEF Ground
  <2> QED
    BY <2>2, <2>3
<1>12. (Gone)' <=> Gone
  BY <1>2 DEF Gone
<1>13. call'.name # "-" /\ (call'.name = "deinit" <=> call.name = "deinit")
  BY <1>2, <1>9
<1> QED
  BY <1>10, <1>11, <1>12, <1>13 DEF Ground

-----------------------------------------------------------------------------
(* A step keeps the account.                                               *)

(* The return of a call that was under suspicion and left nothing behind.  *)
LEMMA ClearedClean ==
  ASSUME Sound, Taken, Tidy(prog), step.op = "return", call.name = "disable",
         stack \subseteq Base \cup {"ee", "isoDepListen"}, ~hdl.llcpEnabled
  PROVE  Clean'
<1>1. /\ prog # <<>> /\ stack' = StackAfter(step) /\ hdl' \in HdlAfter(step) /\ prog' = Tail(prog)
      /\ call'.name = "disable"
  <2>1. call'.name = call.name
    BY TakenRest
  <2> QED
    BY <2>1 DEF Taken, Effect
<1>2. Len(prog') = 0
  <2>1. Steady
    BY DEF Sound
  <2>2. Len(prog) \in Nat /\ 1 \in 1..Len(prog) /\ step = prog[1]
    BY <1>1, <2>1, HeadIs
  <2>3. ~(2 \in 1..Len(prog))
    <3>1. SUFFICES ASSUME 2 \in 1..Len(prog) PROVE FALSE
      OBVIOUS
    <3>2. 1 < 2
      OBVIOUS
    <3>3. Follows(prog[1], prog[2])
      BY <2>2, <3>1, <3>2 DEF Tidy
    <3> QED
      BY <2>2, <3>3 DEF Follows
  <2>4. Len(Tail(prog)) = Len(prog) - 1
    BY <1>1, <2>1, TailIs DEF Steady
  <2> QED
    BY <1>1, <2>2, <2>3, <2>4
<1>3. stack' = stack
  BY <1>1 DEF StackAfter
<1>4. hdl' = hdl
  BY <1>1 DEF HdlAfter
<1>5. /\ \A op, x : ~Has(prog', op, x)
      /\ \A i \in 1..Len(prog') : FALSE
  BY <1>2 DEF Has
<1>6. \A x \in {"aid", "felica", "disc", "hci"} \cup Techs \cup LlcpEnds : x \notin stack'
  BY <1>3 DEF Base, Techs, LlcpEnds
<1>7. ~Asks'
  BY <1>1 DEF Asks
<1>8. Members' /\ Reaches'
  BY <1>5 DEF Members, Reaches, Reached
<1>9. Registered' /\ Remembered' /\ Moded' /\ Routed'
  BY <1>7 DEF Registered, Remembered, Moded, Routed
<1>10. Discovered' /\ AidHeld'
  BY <1>5, <1>6, <1>7 DEF Discovered, AidHeld
<1>11. Bare'
  BY <1>1 DEF Bare
<1>12. FelicaOut' /\ HciOut'
  BY <1>6 DEF FelicaOut, HciOut
<1>13. Removed'
  BY <1>4, <1>6, <1>12 DEF Removed
<1> QED
  BY <1>8, <1>9, <1>10, <1>11, <1>13 DEF Clean

LEMMA InsideAccount ==
  ASSUME Sound, ~broken => Library, Account, Done \/ Fault \/ HciRefused \/ Vain \/ Misuse
  PROVE  Account'
<1> SUFFICES ASSUME ~broken' PROVE Ground' /\ (~suspect' /\ ~(Gone)' => Clean')
  BY DEF Account
<1>1. prog # <<>> /\ ~broken
  <2>1. broken \in BOOLEAN
    BY DEF Sound, Types
  <2>2. Failed => ~broken
    BY <2>1 DEF Failed
  <2>3. CASE Done
    BY <2>3 DEF Done
  <2>4. CASE Fault
    BY <2>2, <2>4 DEF Fault
  <2>5. CASE Vain
    BY <2>2, <2>5 DEF Vain
  <2>6. CASE Misuse
    BY <2>2, <2>6 DEF Misuse
  <2>7. CASE HciRefused
    BY <2>7 DEF HciRefused
  <2> QED
    BY <2>3, <2>4, <2>5, <2>6, <2>7
<1>2. Library /\ Ground
  BY <1>1 DEF Account
<1>3. ~Undefined(step)
  BY <1>1, <1>2, WellDefined
<1>4. Taken \/ \E w : Lapsed(w) /\ ~OfInit(step)
  <2>1. Taken \/ (\E w : Lapsed(w)) \/ Ended
    BY StepKinds
  <2>2. ~Ended
    BY <1>3 DEF Ended
  <2>3. \A w : Lapsed(w) => ~OfInit(step)
    BY DEF Lapsed
  <2> QED
    BY <2>1, <2>2, <2>3
<1>5. Ground'
  BY <1>2, <1>4, GroundTaken, GroundLapsed
<1>6. call'.name = call.name
  <2>1. Taken => call'.name = call.name
    BY TakenRest
  <2> QED
    BY <1>4, <2>1 DEF Lapsed
<1>7. ASSUME ~suspect', ~Gone PROVE Clean'
  <2>1. Tidy(prog)
    BY <1>2, <1>7 DEF Ground
  <2>2. CASE ~suspect
    <3>1. Clean
      BY <1>1, <1>7, <2>2 DEF Account
    <3>2. Moves
      BY <1>2, <1>7, <2>2, <3>1, StepMoves
    <3> QED
      BY <2>1, <3>1, <3>2, MovedClean
  <2>3. CASE suspect
    <3>1. ~Failed
      BY <1>7, <2>3 DEF Failed
    <3>2. Done
      BY <1>3, <1>7, <3>1 DEF Fault, HciRefused, Vain, Misuse
    <3>3. step.op = "return" /\ Clear
      BY <1>7, <2>3, <3>2 DEF Done
    <3>4. call.name = "disable" /\ stack \subseteq Base \cup {"ee", "isoDepListen"} /\ ~hdl.llcpEnabled
      BY <1>7, <3>3 DEF Clear, Gone
    <3>5. Taken
      BY <3>2, StepKinds
    <3> QED
      BY <2>1, <3>3, <3>4, <3>5, ClearedClean
  <2> QED
    BY <2>2, <2>3
<1>8. (Gone)' <=> Gone
  BY <1>6 DEF Gone
<1> QED
  BY <1>5, <1>7, <1>8

(* The peer's deactivation to idle between two calls.                      *)
LEMMA SessionAccount ==
  ASSUME Sound, Account, SessionEnds
  PROVE  Account'
<1>1. /\ prog = <<>> /\ stack' = stack \ {"disc"} /\ hdl' = [hdl EXCEPT !.idle = TRUE]
      /\ prog' = prog /\ call' = call /\ route' = route /\ broken' = broken /\ (suspect' <=> suspect)
  BY DEF SessionEnds
<1>2. hdl \in HdlType
  BY DEF Sound, Types
<1>3. /\ hdl'.idle = TRUE
      /\ \A f \in {"app", "prev", "disc"} : hdl'[f] = hdl[f]
      /\ hdl'.llcp = hdl.llcp /\ hdl'.protocols = hdl.protocols /\ hdl'.felicaHandle = hdl.felicaHandle
      /\ hdl'.llcpEnabled = hdl.llcpEnabled /\ hdl'.llcpMode = hdl.llcpMode /\ hdl'.aidHandle = hdl.aidHandle
  BY <1>1, <1>2 DEF HdlType
<1>4. /\ \A op, x : ~Has(prog, op, x)
      /\ \A f, v : ~HasSet(prog, f, v)
      /\ \A i \in 1..Len(prog) : FALSE
  <2>1. Len(<<>>) = 0
    OBVIOUS
  <2> QED
    BY <1>1, <2>1 DEF Has, HasSet
<1>5. \A x : x # "disc" => (x \in stack' <=> x \in stack)
  BY <1>1
<1>6. \A b \in Base \cup Marks \cup {"ee", "hci"} : b # "disc"
  BY DEF Base, Marks, Techs, LlcpEnds
<1>7. Ground => Ground'
  <2> SUFFICES ASSUME Ground PROVE Ground'
    OBVIOUS
  <2>1. call'.name = "-" => stack' = {} /\ ~hdl'.llcpEnabled
    BY <1>1, <1>3 DEF Ground
  <2>2. call'.name = "deinit" =>
          /\ HasSet(prog', "llcpEnabled", FALSE) \/ ~hdl'.llcpEnabled
          /\ \A i \in 1..Len(prog') : Withdraws(prog'[i])
    <3>1. call.name = "deinit" => ~hdl.llcpEnabled
      BY <1>4 DEF Ground
    <3> QED
      BY <1>1, <1>3, <1>4, <3>1
  <2>3. ASSUME ~Gone
        PROVE  /\ Tidy(prog')
               /\ \A b \in Base : Has(prog', "on", b) \/ (b \in stack' /\ ~Has(prog', "off", b) /\ ~Has(prog', "off", "up"))
    <3>1. Tidy(prog) /\ \A b \in Base : b \in stack
      BY <1>4, <2>3 DEF Ground
    <3>2. \A b \in Base : b \in stack'
      BY <1>5, <1>6, <3>1
    <3> QED
      BY <1>1, <1>4, <3>1, <3>2
  <2>4. (Gone)' <=> Gone
    BY <1>1 DEF Gone
  <2> QED
    BY <2>1, <2>2, <2>3, <2>4 DEF Ground
<1>8. Clean => Clean'
  <2> SUFFICES ASSUME Clean PROVE Clean'
    OBVIOUS
  <2>1. Registered /\ Remembered /\ Moded /\ Routed /\ Discovered /\ AidHeld /\ Bare /\ Removed
    BY DEF Clean
  <2>2. Asks' <=> Asks
    BY <1>1 DEF Asks
  <2>3. Members' /\ Reaches'
    BY <1>1, <1>4 DEF Members, Reaches, Reached
  <2>4. ASSUME Asks PROVE Registered'
    <3> DEFINE M == Marks \cup {"isoDepListen"}
               S == Stays \cup {"isoDepListen"}
    <3>3. \A x \in M : x # "disc"
      BY <1>6
    <3>1. /\ \A x \in M : IF Wants(call.p, x) THEN x \in stack ELSE x \notin stack \/ x \in S
          /\ HostCE(call.p) /\ ~Wants(call.p, "isoDepListen") => "isoDepListen" \notin stack
          /\ Emulates(call.p) => "ee" \in stack
          /\ "hci" \in stack => NfceeCE(call.p) \/ Mixed
      BY <1>4, <2>1, <2>4 DEF Registered
    <3> HIDE DEF M, S
    <3>2. /\ \A x \in M : IF Wants(call'.p, x) THEN x \in stack' ELSE x \notin stack' \/ x \in S
          /\ HostCE(call'.p) /\ ~Wants(call'.p, "isoDepListen") => "isoDepListen" \notin stack'
          /\ Emulates(call'.p) => "ee" \in stack'
          /\ "hci" \in stack' => NfceeCE(call'.p) \/ Mixed
      <4>1. call'.p = call.p
        BY <1>1
      <4> QED
        BY <1>5, <1>6, <3>1, <3>3, <4>1
    <3> QED
      BY <1>1, <1>4, <3>2 DEF Registered, M, S
  <2>5. ASSUME Asks PROVE Remembered'
    <3>1. /\ \A f \in {"app", "prev", "disc"} : hdl[f] = call.p
          /\ "llcp" \in call.p => hdl.llcp
          /\ "hceA" \in call.p => hdl.protocols = {"ISO_DEP"}
          /\ "hceF" \in call.p => hdl.felicaHandle
      BY <1>4, <2>1, <2>5 DEF Remembered
    <3> QED
      BY <1>1, <1>3, <3>1 DEF Remembered
  <2>6. ASSUME Asks PROVE Moded'
    <3>1. ("llcp" \in call.p <=> hdl.llcpEnabled) /\ hdl.llcpMode = ("llcp" \in call.p)
      BY <1>4, <2>1, <2>6 DEF Moded
    <3>2. ~HasSet(prog', "llcpEnabled", FALSE)
      BY <1>1, <1>4
    <3> QED
      BY <1>1, <1>3, <3>1, <3>2 DEF Moded
  <2>7. Routed'
    <3>1. ASSUME Asks, "p2p" \in call.p
          PROVE  {"NFC_DEP"} \cup {q \in {"ISO_DEP"} : "hceA" \in call.p} \subseteq route
      BY <1>4, <2>1, <3>1 DEF Routed
    <3>2. ~Has(prog', "route", "-") /\ ~Has(prog', "off", "up")
      BY <1>1, <1>4
    <3> QED
      BY <1>1, <2>2, <3>1, <3>2 DEF Routed
  <2>8. Discovered'
    BY <1>1, <1>4 DEF Discovered
  <2>9. AidHeld'
    <3>1. /\ "aid" \in stack => hdl.aidHandle = "aid"
          /\ Asks /\ HostCE(call.p) => hdl.aidHandle = "aid"
      BY <1>4, <2>1 DEF AidHeld
    <3>2. \A op, x : ~Has(prog', op, x)
      BY <1>1, <1>4
    <3> QED
      BY <1>1, <1>3, <1>5, <2>2, <3>1, <3>2 DEF AidHeld
  <2>10. Bare'
    BY <1>1, <1>3, <1>5, <2>1 DEF Bare
  <2>11. Removed'
    <3>1. call.name = "disable" =>
            /\ \A x \in Techs : x \notin stack \/ (x \in Stays /\ "p2p" \notin hdl.disc)
            /\ \A x \in LlcpEnds : x \notin stack
            /\ "aid" \notin stack /\ "disc" \notin stack /\ "felica" \notin stack
            /\ Mixed \/ "hci" \notin stack
            /\ ~hdl.llcpEnabled
      BY <1>4, <2>1 DEF Removed, ResetsAid, FelicaOut, HciOut, OffAt, SetAt
    <3>2. call.name = "disable" =>
            /\ \A x \in Techs : x \notin stack' \/ (x \in Stays /\ "p2p" \notin hdl'.disc)
            /\ \A x \in LlcpEnds : x \notin stack'
            /\ "aid" \notin stack' /\ "disc" \notin stack' /\ "felica" \notin stack'
            /\ Mixed \/ "hci" \notin stack'
            /\ ~hdl'.llcpEnabled
      BY <1>1, <1>3, <3>1
    <3>3. call.name = "disable" => FelicaOut' /\ HciOut'
      BY <3>2 DEF FelicaOut, HciOut
    <3> QED
      BY <1>1, <3>2, <3>3 DEF Removed
  <2>12. Registered' /\ Remembered' /\ Moded'
    BY <2>2, <2>4, <2>5, <2>6 DEF Registered, Remembered, Moded
  <2> QED
    BY <2>3, <2>7, <2>8, <2>9, <2>10, <2>11, <2>12 DEF Clean
<1>9. (Gone)' <=> Gone
  BY <1>1 DEF Gone
<1> QED
  BY <1>1, <1>7, <1>8, <1>9 DEF Account

-----------------------------------------------------------------------------
(* Between the calls.                                                      *)

(* What the account says between two calls.                                *)
LEMMA IdleGround ==
  ASSUME Ground, prog = <<>>
  PROVE  /\ ~Gone => Base \subseteq stack
         /\ Gone => ~hdl.llcpEnabled
         /\ call.name = "-" => stack = {}
<1>1. /\ \A op, x : ~Has(prog, op, x)
      /\ \A f, v : ~HasSet(prog, f, v)
  BY HasNone DEF HasSet
<1> QED
  BY <1>1 DEF Ground, Gone

LEMMA IdleConfigured ==
  ASSUME Clean, prog = <<>>, Asks
  PROVE  /\ \A x \in Marks \cup {"isoDepListen"} : Wants(call.p, x) => x \in stack
         /\ \A x \in Marks \ Stays : x \in stack => Wants(call.p, x)
         /\ HostCE(call.p) /\ ~Wants(call.p, "isoDepListen") => "isoDepListen" \notin stack
         /\ Emulates(call.p) => "ee" \in stack
         /\ "hci" \in stack => NfceeCE(call.p) \/ Mixed
         /\ hdl.app = call.p /\ hdl.prev = call.p /\ hdl.disc = call.p
         /\ "llcp" \in call.p => hdl.llcp
         /\ "hceA" \in call.p => hdl.protocols = {"ISO_DEP"}
         /\ "hceF" \in call.p => hdl.felicaHandle
         /\ "llcp" \in call.p <=> hdl.llcpEnabled
         /\ hdl.llcpMode = ("llcp" \in call.p)
         /\ "p2p" \in call.p => {"NFC_DEP"} \cup {q \in {"ISO_DEP"} : "hceA" \in call.p} \subseteq route
         /\ hdl.idle => "disc" \notin stack
         /\ "aid" \in stack => hdl.aidHandle = "aid"
         /\ HostCE(call.p) => hdl.aidHandle = "aid"
<1>1. /\ \A op, x : ~Has(prog, op, x)
      /\ \A f, v : ~HasSet(prog, f, v)
  BY HasNone DEF HasSet
<1>2. Registered /\ Remembered /\ Moded /\ Routed /\ Discovered /\ AidHeld
  BY DEF Clean
<1>3. /\ \A x \in Marks \cup {"isoDepListen"} : Wants(call.p, x) => x \in stack
      /\ \A x \in Marks \ Stays : x \in stack => Wants(call.p, x)
      /\ HostCE(call.p) /\ ~Wants(call.p, "isoDepListen") => "isoDepListen" \notin stack
      /\ Emulates(call.p) => "ee" \in stack
      /\ "hci" \in stack => NfceeCE(call.p) \/ Mixed
  <2>1. /\ \A x \in Marks \cup {"isoDepListen"} :
              IF Wants(call.p, x) THEN x \in stack ELSE x \notin stack \/ x \in Stays \cup {"isoDepListen"}
        /\ HostCE(call.p) /\ ~Wants(call.p, "isoDepListen") => "isoDepListen" \notin stack
        /\ Emulates(call.p) => "ee" \in stack
        /\ "hci" \in stack => NfceeCE(call.p) \/ Mixed
    BY <1>1, <1>2 DEF Registered
  <2>2. "isoDepListen" \notin Marks
    BY DEF Marks, Techs, LlcpEnds
  <2> QED
    BY <2>1, <2>2
<1>4. \A f \in {"app", "prev", "disc"} : hdl[f] = call.p
  BY <1>1, <1>2 DEF Remembered
<1>5. /\ "llcp" \in call.p => hdl.llcp
      /\ "hceA" \in call.p => hdl.protocols = {"ISO_DEP"}
      /\ "hceF" \in call.p => hdl.felicaHandle
  BY <1>1, <1>2 DEF Remembered
<1>6. ("llcp" \in call.p <=> hdl.llcpEnabled) /\ hdl.llcpMode = ("llcp" \in call.p)
  BY <1>1, <1>2 DEF Moded
<1>7. "p2p" \in call.p => {"NFC_DEP"} \cup {q \in {"ISO_DEP"} : "hceA" \in call.p} \subseteq route
  BY <1>1, <1>2 DEF Routed
<1>8. hdl.idle => "disc" \notin stack
  BY <1>1, <1>2 DEF Discovered
<1>9. /\ "aid" \in stack => hdl.aidHandle = "aid"
      /\ HostCE(call.p) => hdl.aidHandle = "aid"
  BY <1>1, <1>2 DEF AidHeld
<1> QED
  BY <1>3, <1>4, <1>5, <1>6, <1>7, <1>8, <1>9

LEMMA IdleRemoved ==
  ASSUME Clean, prog = <<>>, call.name = "disable"
  PROVE  /\ stack \cap ((Marks \ Stays) \cup {"disc"}) = {}
         /\ "p2pListen" \in stack => "p2p" \notin hdl.disc
         /\ Mixed \/ "hci" \notin stack
         /\ ~hdl.llcpEnabled
<1>1. /\ \A op, x : ~Has(prog, op, x)
      /\ \A f, v : ~HasSet(prog, f, v)
      /\ \A i \in 1..Len(prog) : FALSE
  <2>1. Len(<<>>) = 0
    OBVIOUS
  <2> QED
    BY <2>1, HasNone DEF HasSet
<1>2. Removed
  BY DEF Clean
<1>3. /\ \A x \in Techs : x \in stack => x \in Stays /\ "p2p" \notin hdl.disc
      /\ \A x \in LlcpEnds \cup {"aid", "disc", "felica"} : x \notin stack
  BY <1>1, <1>2 DEF Removed, ResetsAid, FelicaOut, OffAt, SetAt
<1>4. Mixed \/ "hci" \notin stack
  BY <1>1, <1>2 DEF Removed, HciOut, OffAt
<1>5. ~hdl.llcpEnabled
  BY <1>1, <1>2 DEF Removed
<1> QED
  BY <1>3, <1>4, <1>5 DEF Marks, Techs

LEMMA IdleBare ==
  ASSUME Clean, prog = <<>>, call.name = "init"
  PROVE  /\ stack \cap ((Marks \ Stays) \cup {"disc"}) = {}
         /\ Mixed \/ "hci" \notin stack
         /\ ~hdl.llcpEnabled
BY DEF Clean, Bare

-----------------------------------------------------------------------------
(* The program of a call.                                                  *)
LEMMA PartFits ==
  ASSUME NEW name, NEW p, NEW l \in Nat, NEW h \in Nat, NEW P, Part(P, Kind(name, p), l, h)
  PROVE  /\ \A i \in 1..Len(P) : Pinned(P[i]) /\ Fits(P[i], name, p)
         /\ \A x : Has(P, "on", x) => \E s : s.op = "on" /\ s.x = x /\ Fits(s, name, p)
         /\ \A x : Has(P, "off", x) => \E s : s.op = "off" /\ s.x = x /\ Fits(s, name, p)
         /\ Tidy(P) /\ Restores(P)
<1>1. P \in Seq(Span(Kind(name, p), l, h)) /\ Tidy(P) /\ Restores(P)
  BY DEF Part
<1>2. \A i \in 1..Len(P) : P[i] \in Span(Kind(name, p), l, h)
  BY <1>1
<1>3. \A i \in 1..Len(P) : Pinned(P[i]) /\ Fits(P[i], name, p)
  BY <1>2 DEF Span, Kind
<1>4. \A op, x : Has(P, op, x) => \E s : s.op = op /\ s.x = x /\ Fits(s, name, p)
  BY <1>3 DEF Has
<1> QED
  BY <1>1, <1>3, <1>4

LEMMA PartReaches ==
  ASSUME NEW K, NEW l \in Nat, NEW h \in Nat, NEW P, Part(P, K, l, h),
         prog' = P, "up" \in stack'
  PROVE  Reaches'
<1> DEFINE u == "up" \in stack'
           v == "ee" \in stack'
<1>1. Reached(P, "up", TRUE) /\ Reached(P, "ee", FALSE)
  BY DEF Part
<1>2. Reached(P, "up", u)
  BY <1>1 DEF Reached
<1>3. Reached(P, "ee", v)
  BY <1>1 DEF Reached
<1> QED
  BY <1>2, <1>3 DEF Reaches

(* The middleware's base is there after the call if it was before.         *)
LEMMA GroundCall ==
  ASSUME Ground, ~Gone, prog = <<>>, NEW name \in {"enable", "disable", "restart", "init"},
         NEW P \in Seq(Steps), Tidy(P), Restores(P),
         prog' = P, call'.name = name, stack' = stack
  PROVE  Ground'
<1>1. Base \subseteq stack
  BY IdleGround
<1>2. ~Has(P, "off", "ndef") /\ ~Has(P, "off", "p2p")
  <2>1. \A i \in 1..Len(P) : P[i] \in Steps
    OBVIOUS
  <2>2. \A s \in Steps : s.op = "off" => s.x \in {"driver", "up"} \cup Registrations
    BY DEF Steps, Typed
  <2> QED
    BY <2>1, <2>2 DEF Has, Registrations
<1>3. ASSUME NEW b \in Base
      PROVE  Has(P, "on", b) \/ (b \in stack /\ ~Has(P, "off", b) /\ ~Has(P, "off", "up"))
  <2>1. Has(P, "off", "up") \/ Has(P, "off", "driver") => Has(P, "on", b)
    BY DEF Restores
  <2>2. b \in {"driver", "up", "ndef", "p2p"}
    BY DEF Base
  <2> QED
    BY <1>1, <1>2, <2>1, <2>2
<1>4. ~(Gone)' /\ call'.name \notin {"-", "deinit"}
  BY DEF Gone
<1> QED
  BY <1>3, <1>4 DEF Ground

-----------------------------------------------------------------------------
(* Calls that initialise and enable.                                       *)

LEMMA RunAccount ==
  ASSUME Sound, Library, Account, ~broken, NEW p \in Params, RunButton(p)
  PROVE  Account'
<1> DEFINE P == JniInit \o <<Return>>
<1>1. /\ prog = <<>> /\ prog' = P /\ call' = [name |-> "init", p |-> p, result |-> "-", clean |-> TRUE]
      /\ stack' = stack /\ hdl' = hdl /\ broken' = broken /\ (suspect' <=> suspect) /\ ui = "stopped"
  BY DEF RunButton, Call, Return
<1>2. call'.name = "init" /\ call'.p = p /\ ~(Gone)' /\ ~Asks'
  BY <1>1 DEF Gone, Asks
<1>3. call.name \in {"-", "disable", "deinit"}
  BY <1>1 DEF Sound, Asked
<1>4. Ground
  BY DEF Account
<1>5. /\ Gone => ~hdl.jni /\ ~hdl.init
      /\ ~Gone => hdl.jni
      /\ call.name = "deinit" => stack = {}
  BY <1>1, IdleLibrary
<1>6. CASE Gone
  <2>1. ~hdl.jni /\ ~hdl.init /\ stack = {} /\ ~hdl.llcpEnabled
    BY <1>1, <1>4, <1>5, <1>6, IdleGround DEF Gone
  <2>2. Fresh(P, Kind("init", p), 5, 13) /\ \A b \in Base : Has(P, "on", b)
    BY <2>1, InitProgram
  <2> HIDE DEF P
  <2>3. Part(P, Kind("init", p), 5, 13) /\ Reached(P, "up", FALSE)
    BY <2>2 DEF Fresh
  <2>4. /\ \A i \in 1..Len(P) : Pinned(P[i]) /\ Fits(P[i], "init", p)
        /\ \A x : Has(P, "on", x) => \E s : s.op = "on" /\ s.x = x /\ Fits(s, "init", p)
        /\ Tidy(P)
    <3>1. 5 \in Nat /\ 13 \in Nat
      OBVIOUS
    <3> QED
      BY <2>3, <3>1, PartFits
  <2>5. Ground'
    BY <1>1, <1>2, <2>2, <2>4 DEF Ground
  <2>6. Members'
    BY <1>1, <1>2, <2>4 DEF Members
  <2>7. Reaches'
    <3>1. "up" \notin stack' /\ "ee" \notin stack' /\ prog' = P
      BY <1>1, <2>1
    <3>2. Reached(P, "ee", FALSE)
      BY <2>3 DEF Part
    <3>3. Reached(P, "up", "up" \in stack')
      BY <2>3, <3>1 DEF Reached
    <3>4. Reached(P, "ee", "ee" \in stack')
      BY <3>1, <3>2 DEF Reached
    <3> QED
      BY <3>1, <3>3, <3>4 DEF Reaches
  <2>8. Registered' /\ Remembered' /\ Moded' /\ Routed' /\ Removed'
    BY <1>2 DEF Registered, Remembered, Moded, Routed, Removed
  <2>9. Discovered' /\ AidHeld'
    <3>1. ~Has(P, "on", "disc")
      BY <2>4 DEF Fits, Base
    <3> QED
      BY <1>1, <1>2, <2>1, <3>1 DEF Discovered, AidHeld
  <2>10. Bare'
    BY <1>1, <2>1 DEF Bare
  <2> QED
    BY <2>5, <2>6, <2>7, <2>8, <2>9, <2>10 DEF Account, Clean
<1>7. CASE ~Gone
  <2>1. call.name = "disable" /\ hdl.jni
    BY <1>3, <1>5, <1>7 DEF Gone
  <2>2. P = <<Return>>
    BY <2>1 DEF JniInit, If
  <2>3. Return \in Steps /\ Return.op = "return" /\ Pinned(Return) /\ Fits(Return, "init", p) /\ ~Uses(Return, "up") /\ ~Uses(Return, "ee")
    BY DEF Return, Step, Steps, AStep, Typed, Vital, OfInit, FlagSet, IsSet, LlcpOn, LlcpUp, Pinned, Loose, Slack, CeDown, Fits, Uses, AsksStack, Waits
  <2> HIDE DEF P
  <2>4. P \in Seq(Steps) /\ Len(P) = 1 /\ P[1] = Return
    BY <2>2, <2>3
  <2>5. \A op, x : Has(P, op, x) => op = "return"
    BY <2>3, <2>4 DEF Has
  <2>6. Tidy(P) /\ Restores(P)
    BY <2>4, <2>5 DEF Tidy, Restores
  <2>7. Ground'
    BY <1>1, <1>2, <1>4, <1>7, <2>4, <2>6, GroundCall
  <2>8. ASSUME ~suspect PROVE Clean'
    <3>1. Clean
      BY <1>7, <2>8 DEF Account
    <3>2. /\ stack \cap ((Marks \ Stays) \cup {"disc"}) = {} /\ (Mixed \/ "hci" \notin stack) /\ ~hdl.llcpEnabled
      BY <1>1, <2>1, <3>1, IdleRemoved
    <3>3. Members'
      BY <1>1, <1>2, <2>3, <2>4 DEF Members
    <3>4. Reaches'
      BY <1>1, <2>3, <2>4 DEF Reaches, Reached
    <3>5. Registered' /\ Remembered' /\ Moded' /\ Routed' /\ Removed'
      BY <1>2 DEF Registered, Remembered, Moded, Routed, Removed
    <3>6. "aid" \notin stack' /\ "disc" \notin stack'
      BY <1>1, <3>2 DEF Marks, Stays
    <3>7. Discovered' /\ AidHeld'
      BY <1>1, <1>2, <2>5, <3>6 DEF Discovered, AidHeld
    <3>8. Bare'
      BY <1>1, <3>2 DEF Bare
    <3> QED
      BY <3>1, <3>3, <3>4, <3>5, <3>7, <3>8 DEF Clean
  <2> QED
    BY <1>1, <2>7, <2>8 DEF Account
<1> QED
  BY <1>6, <1>7

LEMMA EnableAccount ==
  ASSUME Sound, Library, Account, ~broken, ThenEnable
  PROVE  Account'
<1> DEFINE p == call.p
           P == EnableDiscovery(p) \o <<Return>>
<1>1. /\ prog = <<>> /\ prog' = P /\ call' = [name |-> "enable", p |-> p, result |-> "-", clean |-> TRUE]
      /\ stack' = stack /\ hdl' = hdl /\ route' = route /\ broken' = broken /\ (suspect' <=> suspect) /\ ui = "starting"
  BY DEF ThenEnable, Call, Return
<1>2. call'.name = "enable" /\ call'.p = p /\ ~(Gone)' /\ Asks'
  BY <1>1 DEF Gone, Asks
<1>3. call.name = "init" /\ ~Gone /\ p \in Tests
  BY <1>1 DEF Sound, Asked, Gone, Types, CallType
<1>4. Ground
  BY DEF Account
<1>5. ~hdl.llcp
  BY <1>1, <1>3, IdleLibrary
<1>6. /\ Part(P, Kind("enable", p), 1, 13)
      /\ \A f \in {"app", "prev", "disc"} : HasSet(P, f, p)
      /\ HasSet(P, "idle", FALSE)
      /\ "llcp" \in p => HasSet(P, "llcp", TRUE) /\ HasSet(P, "llcpEnabled", TRUE)
      /\ "hceA" \in p => HasSet(P, "protocols", {"ISO_DEP"})
      /\ "hceF" \in p => HasSet(P, "felicaHandle", TRUE)
      /\ Has(P, "mode", "-") /\ Has(P, "on", "disc")
      /\ "p2p" \in p => Has(P, "routeP2p", "-")
      /\ \A x \in Marks \cup {"isoDepListen"} : Wants(p, x) => Has(P, "on", x)
      /\ HostCE(p) /\ ~Wants(p, "isoDepListen") => Has(P, "off", "isoDepListen")
      /\ Emulates(p) => Has(P, "on", "ee")
  BY <1>3, <1>5, EnableProgram
<1>7. P \in Seq(Steps)
  <2>1. P \in Seq(Allowed("enable"))
    BY <1>3, EnableSteps
  <2>2. Allowed("enable") \subseteq Steps
    BY DEF Allowed
  <2> HIDE DEF P
  <2> QED
    BY <2>1, <2>2, SeqIn
<1> HIDE DEF P, p
<1>8. /\ \A i \in 1..Len(P) : Pinned(P[i]) /\ Fits(P[i], "enable", p)
      /\ \A x : Has(P, "off", x) => \E s : s.op = "off" /\ s.x = x /\ Fits(s, "enable", p)
      /\ Tidy(P) /\ Restores(P)
  <2>1. 1 \in Nat /\ 13 \in Nat
    OBVIOUS
  <2>2. Part(P, Kind("enable", p), 1, 13)
    BY <1>6
  <2> QED
    BY <2>1, <2>2, PartFits
<1>9. Ground'
  BY <1>1, <1>2, <1>3, <1>4, <1>7, <1>8, GroundCall
<1>10. ASSUME ~suspect PROVE Clean'
  <2>1. Clean
    BY <1>3, <1>10 DEF Account
  <2>2. stack \cap ((Marks \ Stays) \cup {"disc"}) = {} /\ (Mixed \/ "hci" \notin stack) /\ ~hdl.llcpEnabled
    BY <1>1, <1>3, <2>1, IdleBare
  <2>3. Members'
    BY <1>1, <1>2, <1>8 DEF Members
  <2>4. Reaches'
    <3>1. "up" \in stack'
      BY <1>1, <1>3, <1>4, IdleGround DEF Base
    <3>2. 1 \in Nat /\ 13 \in Nat
      OBVIOUS
    <3> QED
      BY <1>1, <1>6, <3>1, <3>2, PartReaches
  <2>5. Registered'
    <3>1. /\ \A x \in Marks \cup {"isoDepListen"} :
                IF Wants(call'.p, x)
                THEN Has(prog', "on", x) \/ (x \in stack' /\ ~Has(prog', "off", x) /\ ~Has(prog', "off", "up"))
                ELSE x \notin stack' \/ x \in Stays \cup {"isoDepListen"}
          /\ HostCE(call'.p) /\ ~Wants(call'.p, "isoDepListen") =>
               Has(prog', "off", "isoDepListen") \/ "isoDepListen" \notin stack'
          /\ Emulates(call'.p) => Has(prog', "on", "ee") \/ ("ee" \in stack' /\ ~Has(prog', "off", "up"))
          /\ "hci" \in stack' => NfceeCE(call'.p) \/ Mixed
      BY <1>1, <1>2, <1>6, <2>2
    <3> QED
      BY <3>1 DEF Registered
  <2>6. Remembered'
    <3>1. /\ \A f \in {"app", "prev", "disc"} : HasSet(prog', f, call'.p) \/ hdl'[f] = call'.p
          /\ "llcp" \in call'.p => HasSet(prog', "llcp", TRUE) \/ hdl'.llcp
          /\ "hceA" \in call'.p => HasSet(prog', "protocols", {"ISO_DEP"}) \/ hdl'.protocols = {"ISO_DEP"}
          /\ "hceF" \in call'.p => HasSet(prog', "felicaHandle", TRUE) \/ hdl'.felicaHandle
      BY <1>1, <1>2, <1>6
    <3> QED
      BY <3>1 DEF Remembered
  <2>7. Moded'
    <3>1. /\ "llcp" \in call'.p => HasSet(prog', "llcpEnabled", TRUE)
          /\ ~hdl'.llcpEnabled
          /\ Has(prog', "mode", "-")
      BY <1>1, <1>2, <1>6, <2>2
    <3> QED
      BY <3>1 DEF Moded
  <2>8. Routed'
    BY <1>1, <1>2, <1>6 DEF Routed
  <2>9. "aid" \notin stack' /\ "disc" \notin stack'
    BY <1>1, <2>2 DEF Marks, Stays
  <2>10. Discovered'
    BY <1>1, <1>6, <2>9 DEF Discovered
  <2>11. AidHeld'
    <3>1. ~Has(P, "off", "aid")
      BY <1>8 DEF Fits
    <3>2. HostCE(p) => Has(P, "on", "aid")
      BY <1>6 DEF Wants, Marks
    <3> QED
      BY <1>1, <1>2, <2>9, <3>1, <3>2 DEF AidHeld
  <2>12. Bare' /\ Removed'
    BY <1>2 DEF Bare, Removed
  <2> QED
    BY <2>3, <2>4, <2>5, <2>6, <2>7, <2>8, <2>10, <2>11, <2>12 DEF Clean
<1> QED
  BY <1>1, <1>9, <1>10 DEF Account

LEMMA ExitAccount ==
  ASSUME Sound, Library, Account, ~broken, ExitButton
  PROVE  Account'
<1> DEFINE P == JniDeInit \o <<Return>>
<1>1. /\ prog = <<>> /\ prog' = P /\ call' = [name |-> "deinit", p |-> {}, result |-> "-", clean |-> TRUE]
      /\ stack' = stack /\ hdl' = hdl /\ hdl.jni
  BY DEF ExitButton, Call, Return
<1>2. call'.name = "deinit" /\ (Gone)'
  BY <1>1 DEF Gone
<1>3. hdl.init
  BY <1>1, IdleLibrary
<1>4. P \in Seq(Downward) /\ HasSet(P, "llcpEnabled", FALSE)
  BY <1>1, <1>3, DeInitProgram
<1> HIDE DEF P
<1>5. \A i \in 1..Len(P) : P[i] \in Downward
  BY <1>4
<1>6. \A i \in 1..Len(P) : Withdraws(P[i])
  BY <1>5 DEF Downward
<1>7. Ground'
  BY <1>1, <1>2, <1>4, <1>6 DEF Ground
<1> QED
  BY <1>2, <1>7 DEF Account

-----------------------------------------------------------------------------
(* Calls that disable, restart and release.                                *)

LEMMA WantsP2p ==
  ASSUME NEW p, "p2p" \in p
  PROVE  Wants(p, "p2pListen")
BY DEF Wants, LlcpEnds, ListensP2p, Listens

LEMMA StopAccount ==
  ASSUME Sound, Library, Account, ~broken, StopButton
  PROVE  Account'
<1> DEFINE p == call.p
           P == DisableDiscovery \o <<Return>>
<1>1. /\ prog = <<>> /\ prog' = P /\ call' = [name |-> "disable", p |-> p, result |-> "-", clean |-> TRUE]
      /\ stack' = stack /\ hdl' = hdl /\ route' = route /\ broken' = broken /\ (suspect' <=> suspect) /\ ui = "running"
  BY DEF StopButton, Call, Return
<1>2. call'.name = "disable" /\ call'.p = p /\ ~(Gone)' /\ ~Asks'
  BY <1>1 DEF Gone, Asks
<1>3. Asks /\ ~Gone /\ p \in Tests
  BY <1>1 DEF Sound, Asked, Gone, Asks, Types, CallType
<1>4. Ground
  BY DEF Account
<1>5. /\ Part(P, Kind("disable", p), 1, 13)
      /\ Has(P, "off", "disc")
      /\ \A x \in Techs : Undone(hdl.disc, x) => Has(P, "off", x)
      /\ HostCE(hdl.disc) => ResetsAid(P)
      /\ hdl.llcp => Has(P, "off", "up") /\ HasSet(P, "llcpEnabled", FALSE)
      /\ hdl.app = hdl.disc /\ hdl.prev = hdl.disc => Begins(P, hdl.disc)
  BY DisableProgram
<1>6. P \in Seq(Steps)
  <2>1. P \in Seq(Allowed("disable"))
    BY DisableSteps
  <2>2. Allowed("disable") \subseteq Steps
    BY DEF Allowed
  <2> HIDE DEF P
  <2> QED
    BY <2>1, <2>2, SeqIn
<1> HIDE DEF P, p
<1>7. /\ \A i \in 1..Len(P) : Pinned(P[i]) /\ Fits(P[i], "disable", p)
      /\ \A x : Has(P, "on", x) => \E s : s.op = "on" /\ s.x = x /\ Fits(s, "disable", p)
      /\ Tidy(P) /\ Restores(P)
  <2>1. 1 \in Nat /\ 13 \in Nat
    OBVIOUS
  <2>2. Part(P, Kind("disable", p), 1, 13)
    BY <1>5
  <2> QED
    BY <2>1, <2>2, PartFits
<1>8. Ground'
  BY <1>1, <1>2, <1>3, <1>4, <1>6, <1>7, GroundCall
<1>9. ASSUME ~suspect PROVE Clean'
  <2>1. Clean
    BY <1>3, <1>9 DEF Account
  <2>2. /\ \A x \in Marks \cup {"isoDepListen"} : Wants(p, x) => x \in stack
        /\ \A x \in Marks \ Stays : x \in stack => Wants(p, x)
        /\ HostCE(p) /\ ~Wants(p, "isoDepListen") => "isoDepListen" \notin stack
        /\ Emulates(p) => "ee" \in stack
        /\ "hci" \in stack => NfceeCE(p) \/ Mixed
        /\ hdl.app = p /\ hdl.prev = p /\ hdl.disc = p
        /\ "llcp" \in p => hdl.llcp
        /\ "hceF" \in p => hdl.felicaHandle
        /\ "llcp" \in p <=> hdl.llcpEnabled
        /\ hdl.idle => "disc" \notin stack
        /\ "aid" \in stack => hdl.aidHandle = "aid"
    BY <1>1, <1>3, <2>1, IdleConfigured DEF p
  <2>3. Members'
    BY <1>1, <1>2, <1>7 DEF Members
  <2>4. Reaches'
    <3>1. "up" \in stack'
      BY <1>1, <1>3, <1>4, IdleGround DEF Base
    <3>2. 1 \in Nat /\ 13 \in Nat
      OBVIOUS
    <3> QED
      BY <1>1, <1>5, <3>1, <3>2, PartReaches
  <2>5. Registered' /\ Remembered' /\ Moded' /\ Routed' /\ Bare'
    BY <1>2 DEF Registered, Remembered, Moded, Routed, Bare
  <2>6. ~Has(P, "on", "disc") /\ ~Has(P, "on", "felica")
    BY <1>7 DEF Fits, Base
  <2>7. Discovered' /\ AidHeld'
    BY <1>1, <1>2, <1>5, <2>2, <2>6 DEF Discovered, AidHeld
  <2>8. LlcpEnds \cup {"aid", "felica"} \subseteq Marks \ Stays
    BY DEF Marks, LlcpEnds, Stays
  <2>9. /\ \A x \in Techs : x \in stack' => Has(prog', "off", x) \/ (x \in Stays /\ "p2p" \notin hdl'.disc)
        /\ "disc" \in stack' => Has(prog', "off", "disc")
    <3>1. ASSUME NEW x \in Techs, x \in stack
          PROVE  Has(P, "off", x) \/ (x \in Stays /\ "p2p" \notin p)
      <4>1. x \in Marks
        BY DEF Marks
      <4>2. CASE x \in Stays
        <5>1. x = "p2pListen"
          BY <4>2 DEF Stays
        <5>2. CASE "p2p" \in p
          <6>1. Wants(p, x)
            BY <5>1, <5>2, WantsP2p
          <6> QED
            BY <1>5, <2>2, <5>2, <6>1 DEF Undone
        <5> QED
          BY <4>2, <5>2
      <4>3. CASE x \notin Stays
        <5>1. Wants(p, x)
          BY <2>2, <3>1, <4>1, <4>3
        <5>2. CASE x = "p2pListen" /\ "p2p" \notin p
          <6>1. ListensP2p(p)
            BY <5>1, <5>2 DEF Wants, LlcpEnds
          <6>2. p \in Params
            BY <1>3, <6>1 DEF Tests, ListensP2p
          <6> QED
            BY <4>3, <5>2, <6>1, <6>2 DEF Stays
        <5>3. CASE ~(x = "p2pListen" /\ "p2p" \notin p)
          BY <1>5, <2>2, <5>1, <5>3 DEF Undone
        <5> QED
          BY <5>2, <5>3
      <4> QED
        BY <4>2, <4>3
    <3> QED
      BY <1>1, <1>5, <2>2, <3>1
  <2>10. \A x \in LlcpEnds : x \in stack' => Has(prog', "off", "up")
    <3>1. \A x \in LlcpEnds : Wants(p, x) => "llcp" \in p
      BY DEF Wants, LlcpEnds
    <3> QED
      BY <1>1, <1>5, <2>2, <2>8, <3>1
  <2>11. "aid" \in stack' => ResetsAid(prog')
    <3>1. Wants(p, "aid") => HostCE(p)
      BY DEF Wants, LlcpEnds
    <3> QED
      BY <1>1, <1>5, <2>2, <2>8, <3>1
  <2>12. HasSet(prog', "llcpEnabled", FALSE) \/ ~hdl'.llcpEnabled
    BY <1>1, <1>5, <2>2
  <2>13. Begins(P, p)
    BY <1>5, <2>2
  <2>14. FelicaOut'
    <3>1. ASSUME "felica" \in stack
          PROVE  /\ hdl.felicaHandle
                 /\ \/ OffAt(P, 1, "felica")
                    \/ /\ SetAt(P, 1, "protocols") /\ OffAt(P, 2, "aid") /\ OffAt(P, 3, "ee") /\ OffAt(P, 4, "felica")
                       /\ "ee" \in stack /\ "aid" \in stack
      <4>1. "hceF" \in p
        BY <2>2, <2>8, <3>1 DEF Wants, LlcpEnds
      <4>2. HostCE(p)
        BY <4>1 DEF HostCE
      <4>3. "ee" \in stack /\ "aid" \in stack
        BY <2>2, <2>8, <4>2 DEF Wants, Emulates
      <4> QED
        BY <2>2, <2>13, <4>1, <4>3 DEF Begins
    <3> QED
      BY <1>1, <3>1 DEF FelicaOut
  <2>15. HciOut'
    <3>1. ASSUME ~Mixed, "hci" \in stack
          PROVE  OffAt(P, 1, "ee") /\ OffAt(P, 2, "hci") /\ "ee" \in stack
      <4>1. NfceeCE(p)
        BY <2>2, <3>1
      <4>2. p \in Params
        <5>1. p # {}
          BY <4>1 DEF NfceeCE
        <5> QED
          BY <1>3, <5>1 DEF Tests
      <4>3. ~HostCE(p)
        BY <3>1, <4>1, <4>2 DEF Mixed
      <4> QED
        BY <2>2, <2>13, <4>1, <4>3 DEF Begins, Emulates
    <3> QED
      BY <1>1, <3>1 DEF HciOut
  <2>16. Removed'
    BY <2>9, <2>10, <2>11, <2>12, <2>14, <2>15 DEF Removed
  <2> QED
    BY <2>3, <2>4, <2>5, <2>7, <2>16 DEF Clean
<1> QED
  BY <1>1, <1>8, <1>9 DEF Account

LEMMA RestartAccount ==
  ASSUME Sound, Library, Account, ~broken, RestartByThread
  PROVE  Account'
<1> DEFINE p == call.p
           P == Restart \o <<Return>>
<1>1. /\ prog = <<>> /\ prog' = P /\ call' = [name |-> "restart", p |-> p, result |-> "-", clean |-> TRUE]
      /\ stack' = stack /\ hdl' = hdl /\ route' = route /\ broken' = broken /\ (suspect' <=> suspect) /\ ui = "running"
  BY DEF RestartByThread, Call, Return
<1>2. call'.name = "restart" /\ call'.p = p /\ ~(Gone)' /\ Asks'
  BY <1>1 DEF Gone, Asks
<1>3. Asks /\ ~Gone /\ p \in Tests /\ hdl.prev \in Tests
  BY <1>1 DEF Sound, Asked, Gone, Asks, Types, CallType, HdlType
<1>4. Ground
  BY DEF Account
<1>5. Tidy(P) /\ ~Has(P, "off", "up") /\ ~Has(P, "off", "driver")
  BY <1>3, RestartTidy
<1>6. P \in Seq(Steps)
  <2>1. P \in Seq(Allowed("restart"))
    BY <1>3, RestartSteps
  <2>2. Allowed("restart") \subseteq Steps
    BY DEF Allowed
  <2> HIDE DEF P
  <2> QED
    BY <2>1, <2>2, SeqIn
<1>7. hdl.prev = p /\ hdl.disc = p =>
        /\ Part(P, Kind("restart", p), 1, 13)
        /\ HasSet(P, "disc", p) /\ HasSet(P, "idle", FALSE)
        /\ Has(P, "mode", "-") /\ Has(P, "on", "disc") /\ Has(P, "off", "disc")
        /\ "p2p" \in p => Has(P, "routeP2p", "-")
        /\ \A x \in Listened : Wants(p, x) => Has(P, "on", x)
        /\ HostCE(p) /\ ~Wants(p, "isoDepListen") => Has(P, "off", "isoDepListen")
        /\ ~Has(P, "on", "felica") /\ ~HasSet(P, "llcpEnabled", FALSE)
  BY <1>3, RestartProgram
<1> HIDE DEF P, p
<1>8. Ground'
  <2>1. Restores(P)
    BY <1>5 DEF Restores
  <2> QED
    BY <1>1, <1>2, <1>3, <1>4, <1>5, <1>6, <2>1, GroundCall
<1>9. ASSUME ~suspect PROVE Clean'
  <2>1. Clean
    BY <1>3, <1>9 DEF Account
  <2>2. /\ \A x \in Marks \cup {"isoDepListen"} : Wants(p, x) => x \in stack
        /\ \A x \in Marks \ Stays : x \in stack => Wants(p, x)
        /\ HostCE(p) /\ ~Wants(p, "isoDepListen") => "isoDepListen" \notin stack
        /\ Emulates(p) => "ee" \in stack
        /\ "hci" \in stack => NfceeCE(p) \/ Mixed
        /\ hdl.app = p /\ hdl.prev = p /\ hdl.disc = p
        /\ "llcp" \in p => hdl.llcp
        /\ "hceA" \in p => hdl.protocols = {"ISO_DEP"}
        /\ "hceF" \in p => hdl.felicaHandle
        /\ "llcp" \in p <=> hdl.llcpEnabled
        /\ hdl.idle => "disc" \notin stack
        /\ "aid" \in stack => hdl.aidHandle = "aid"
        /\ HostCE(p) => hdl.aidHandle = "aid"
    BY <1>1, <1>3, <2>1, IdleConfigured DEF p
  <2>3. /\ Part(P, Kind("restart", p), 1, 13)
        /\ HasSet(P, "idle", FALSE)
        /\ Has(P, "mode", "-") /\ Has(P, "on", "disc") /\ Has(P, "off", "disc")
        /\ "p2p" \in p => Has(P, "routeP2p", "-")
        /\ \A x \in Listened : Wants(p, x) => Has(P, "on", x)
        /\ HostCE(p) /\ ~Wants(p, "isoDepListen") => Has(P, "off", "isoDepListen")
        /\ ~Has(P, "on", "felica") /\ ~HasSet(P, "llcpEnabled", FALSE)
    BY <1>7, <2>2
  <2>4. 1 \in Nat /\ 13 \in Nat
    OBVIOUS
  <2>5. /\ \A i \in 1..Len(P) : Pinned(P[i]) /\ Fits(P[i], "restart", p)
        /\ \A x : Has(P, "off", x) => \E s : s.op = "off" /\ s.x = x /\ Fits(s, "restart", p)
    <3>1. Part(P, Kind("restart", p), 1, 13)
      BY <2>3
    <3> QED
      BY <2>4, <3>1, PartFits
  <2>6. Members'
    BY <1>1, <1>2, <2>5 DEF Members
  <2>7. Reaches'
    <3>1. "up" \in stack'
      BY <1>1, <1>3, <1>4, IdleGround DEF Base
    <3> QED
      BY <1>1, <2>3, <2>4, <3>1, PartReaches
  <2>8. Registered'
    <3>1. ASSUME NEW x \in Marks \cup {"isoDepListen"}, Wants(p, x)
          PROVE  Has(P, "on", x) \/ (x \in stack /\ ~Has(P, "off", x) /\ ~Has(P, "off", "up"))
      <4>1. CASE x \in Listened
        BY <2>3, <3>1, <4>1
      <4>2. CASE x \notin Listened
        <5>1. x \notin {"disc", "aid", "isoDepListen"} \cup Techs
          BY <3>1, <4>2 DEF Marks, LlcpEnds, Listened
        <5>2. ~Has(P, "off", x)
          BY <2>5, <5>1 DEF Fits
        <5> QED
          BY <1>5, <2>2, <3>1, <5>2
      <4> QED
        BY <4>1, <4>2
    <3>2. /\ \A x \in Marks \cup {"isoDepListen"} :
                IF Wants(call'.p, x)
                THEN Has(prog', "on", x) \/ (x \in stack' /\ ~Has(prog', "off", x) /\ ~Has(prog', "off", "up"))
                ELSE x \notin stack' \/ x \in Stays \cup {"isoDepListen"}
          /\ HostCE(call'.p) /\ ~Wants(call'.p, "isoDepListen") =>
               Has(prog', "off", "isoDepListen") \/ "isoDepListen" \notin stack'
          /\ Emulates(call'.p) => Has(prog', "on", "ee") \/ ("ee" \in stack' /\ ~Has(prog', "off", "up"))
          /\ "hci" \in stack' => NfceeCE(call'.p) \/ Mixed
      BY <1>1, <1>2, <1>5, <2>2, <2>3, <3>1
    <3> QED
      BY <3>2 DEF Registered
  <2>9. Remembered'
    <3>1. /\ \A f \in {"app", "prev", "disc"} : hdl'[f] = call'.p
          /\ "llcp" \in call'.p => hdl'.llcp
          /\ "hceA" \in call'.p => hdl'.protocols = {"ISO_DEP"}
          /\ "hceF" \in call'.p => hdl'.felicaHandle
      BY <1>1, <1>2, <2>2
    <3> QED
      BY <3>1 DEF Remembered
  <2>10. Moded'
    <3>1. /\ "llcp" \in call'.p => hdl'.llcpEnabled /\ ~HasSet(prog', "llcpEnabled", FALSE)
          /\ "llcp" \notin call'.p => ~hdl'.llcpEnabled
          /\ Has(prog', "mode", "-")
      BY <1>1, <1>2, <2>2, <2>3
    <3> QED
      BY <3>1 DEF Moded
  <2>11. Routed'
    BY <1>1, <1>2, <2>3 DEF Routed
  <2>12. Discovered'
    BY <1>1, <2>2, <2>3 DEF Discovered
  <2>13. AidHeld'
    <3>1. Has(P, "off", "aid") => HostCE(p)
      BY <2>5 DEF Fits, Techs
    <3>2. HostCE(p) => Has(P, "on", "aid")
      BY <2>3 DEF Wants, Listened, LlcpEnds
    <3> QED
      BY <1>1, <1>2, <2>2, <2>3, <3>1, <3>2 DEF AidHeld
  <2>14. Bare' /\ Removed'
    BY <1>2 DEF Bare, Removed
  <2> QED
    BY <2>6, <2>7, <2>8, <2>9, <2>10, <2>11, <2>12, <2>13, <2>14 DEF Clean
<1> QED
  BY <1>1, <1>8, <1>9 DEF Account

-----------------------------------------------------------------------------
(* Every state accounts for what is configured.                            *)

LEMMA InitAccount == Init => Account
<1> SUFFICES ASSUME Init PROVE Account
  OBVIOUS
<1>1. call.name = "-" /\ stack = {} /\ ~hdl.llcpEnabled
  BY DEF Init
<1> QED
  BY <1>1 DEF Account, Ground, Gone

LEMMA AccountStep == Sound /\ (~broken => Library) /\ Account /\ [Next]_vars => Account'
<1> SUFFICES ASSUME Sound, ~broken => Library, Account, [Next]_vars PROVE Account'
  OBVIOUS
<1>1. CASE UNCHANGED vars
  <2>1. /\ stack' = stack /\ route' = route /\ hdl' = hdl /\ call' = call /\ prog' = prog
        /\ broken' = broken /\ suspect' = suspect
    BY <1>1 DEF vars
  <2>2. Ground' <=> Ground
    BY <2>1 DEF Ground, Gone
  <2>3. Clean' <=> Clean
    <3>1. (Members' <=> Members) /\ (Reaches' <=> Reaches)
      BY <2>1 DEF Members, Reaches
    <3>2. (Registered' <=> Registered) /\ (Remembered' <=> Remembered) /\ (Moded' <=> Moded) /\ (Routed' <=> Routed)
      BY <2>1 DEF Registered, Remembered, Moded, Routed, Asks
    <3>3. (Discovered' <=> Discovered) /\ (AidHeld' <=> AidHeld) /\ (Bare' <=> Bare)
      BY <2>1 DEF Discovered, AidHeld, Bare, Asks
    <3>4. Removed' <=> Removed
      BY <2>1 DEF Removed, FelicaOut, HciOut
    <3> QED
      BY <3>1, <3>2, <3>3, <3>4 DEF Clean
  <2> QED
    BY <2>1, <2>2, <2>3 DEF Account, Gone
<1>2. CASE Done \/ Fault \/ HciRefused \/ Vain \/ Misuse
  BY <1>2, InsideAccount
<1>3. CASE SessionEnds
  BY <1>3, SessionAccount
<1>4. CASE (\E p \in Params : RunButton(p)) \/ ThenEnable \/ StopButton \/ ExitButton \/ RestartByThread
  <2>1. broken' = broken
    BY <1>4 DEF RunButton, ThenEnable, StopButton, ExitButton, RestartByThread, Call
  <2>2. CASE broken
    BY <2>1, <2>2 DEF Account
  <2>3. CASE ~broken
    <3>1. Library
      BY <2>3
    <3>2. ASSUME NEW p \in Params, RunButton(p) PROVE Account'
      BY <2>3, <3>1, <3>2, RunAccount
    <3>3. ASSUME ThenEnable PROVE Account'
      BY <2>3, <3>1, <3>3, EnableAccount
    <3>4. ASSUME StopButton PROVE Account'
      BY <2>3, <3>1, <3>4, StopAccount
    <3>5. ASSUME ExitButton PROVE Account'
      BY <2>3, <3>1, <3>5, ExitAccount
    <3>6. ASSUME RestartByThread PROVE Account'
      BY <2>3, <3>1, <3>6, RestartAccount
    <3> QED
      BY <1>4, <3>2, <3>3, <3>4, <3>5, <3>6
  <2> QED
    BY <2>2, <2>3
<1> QED
  BY <1>1, <1>2, <1>3, <1>4 DEF Next

LEMMA AccountAlways == Spec => [](Sound /\ (~broken => Library) /\ Account)
<1>1. Spec => [](Sound /\ (~broken => Library))
  BY LibraryAlways
<1>2. Init => Account
  BY InitAccount
<1>3. (Sound /\ (~broken => Library)) /\ Account /\ [Next]_vars => Account'
  BY AccountStep
<1> QED
  BY <1>1, <1>2, <1>3, PTL DEF Spec

(* After a disabled discovery nothing of the test is registered, whatever  *)
(* calls and failures came before, as long as what failed was released or  *)
(* disabled with nothing left: phDtaLib_DisableDiscovery and the functions *)
(* below it remove all that enabling and restarting registered, for every  *)
(* set of tests, but for what the code never undoes (Leftover): the ISO-DEP*)
(* listen technology, peer-to-peer listening after a test that asked for   *)
(* it as target of active communication only, and the registration with    *)
(* the HCI where a test asks for both kinds of card emulation.             *)
THEOREM LifecycleNothingLeft == Spec => []NothingLeftWhenDisabled
<1>1. Sound /\ (~broken => Library) /\ Account => NothingLeftWhenDisabled
  <2> SUFFICES ASSUME Sound, Account, Idle, call.name = "disable", ~suspect, ~broken
               PROVE  stack \subseteq Base \cup Leftover(hdl.disc)
    BY DEF NothingLeftWhenDisabled
  <2>1. Clean /\ prog = <<>>
    BY DEF Account, Gone, Idle
  <2>2. /\ stack \cap ((Marks \ Stays) \cup {"disc"}) = {} /\ (Mixed \/ "hci" \notin stack)
        /\ "p2pListen" \in stack => "p2p" \notin hdl.disc
    BY <2>1, IdleRemoved
  <2>3. stack \subseteq Base \cup LlcpEnds \cup Registrations
    BY DEF Sound, Types
  <2>4. LlcpEnds \cup Registrations \subseteq Marks \cup {"disc", "ee", "hci", "isoDepListen"}
    BY DEF Registrations, Marks, Techs
  <2>5. /\ {"ee", "isoDepListen"} \subseteq Leftover(hdl.disc)
        /\ Mixed => "hci" \in Leftover(hdl.disc)
    BY DEF Leftover, Mixed
  <2>6. \A x \in Stays : x \in stack => x \in Leftover(hdl.disc)
    BY <2>2 DEF Leftover, Stays
  <2> QED
    BY <2>2, <2>3, <2>4, <2>5, <2>6
<1> QED
  BY <1>1, AccountAlways, PTL

(* A discovery that was enabled or restarted is configured as the          *)
(* application asked in its last call: all the test wants is registered,   *)
(* nothing else is but what earlier tests leave (Leftover), ISO-DEP        *)
(* listening is off in a host card emulation of type F alone, the LLCP     *)
(* mode is the test's and the routing for peer-to-peer keeps the type A    *)
(* card emulation's protocol, for every set of tests and whatever calls    *)
(* and failures came before.                                               *)
THEOREM LifecycleConfigured == Spec => []ConfiguredAsAsked
<1>1. Sound /\ (~broken => Library) /\ Account => ConfiguredAsAsked
  <2> SUFFICES ASSUME Sound, Account, Idle, call.name \in {"enable", "restart"}, "disc" \in stack, ~suspect, ~broken
               PROVE  /\ Expected(call.p) \subseteq stack
                      /\ stack \ Expected(call.p) \subseteq {"hci"} \cup Leftover(call.p)
                      /\ HostCE(call.p) /\ "hceA" \notin call.p => "isoDepListen" \notin stack
                      /\ hdl.llcpMode = ("llcp" \in call.p)
                      /\ "p2p" \in call.p => {"NFC_DEP"} \cup {q \in {"ISO_DEP"} : "hceA" \in call.p} \subseteq route
    BY DEF ConfiguredAsAsked
  <2> DEFINE p == call.p
  <2>1. Clean /\ Ground /\ prog = <<>> /\ Asks /\ ~Gone
    BY DEF Account, Gone, Idle, Asks
  <2>2. /\ \A x \in Marks \cup {"isoDepListen"} : Wants(p, x) => x \in stack
        /\ \A x \in Marks \ Stays : x \in stack => Wants(p, x)
        /\ HostCE(p) /\ ~Wants(p, "isoDepListen") => "isoDepListen" \notin stack
        /\ hdl.llcpMode = ("llcp" \in p)
        /\ "p2p" \in p => {"NFC_DEP"} \cup {q \in {"ISO_DEP"} : "hceA" \in p} \subseteq route
    BY <2>1, IdleConfigured
  <2>3. Base \subseteq stack
    BY <2>1, IdleGround
  <2>4. stack \subseteq Base \cup LlcpEnds \cup Registrations
    BY DEF Sound, Types
  <2>5. LlcpEnds \cup Registrations \subseteq Marks \cup {"disc", "ee", "hci", "isoDepListen"}
    BY DEF Registrations, Marks, Techs
  <2> HIDE DEF p
  <2>6. ASSUME NEW x \in Marks \cup {"isoDepListen"} PROVE x \in Expected(p) <=> Wants(p, x)
    <3>1. CASE x \in LlcpEnds
      BY <3>1 DEF Wants, Expected, LlcpEnds, Base
    <3>2. CASE x \in {"isoDepListen", "p2pListen", "uiccListen", "eseListen", "listen", "aid", "felica"}
      BY <3>2 DEF Wants, Expected, LlcpEnds, Base
    <3>3. CASE x = "poll"
      BY <3>3 DEF Wants, Expected, LlcpEnds, Base
    <3> QED
      BY <3>1, <3>2, <3>3 DEF Marks, Techs
  <2>7. /\ Expected(p) \subseteq Marks \cup Base \cup {"disc", "isoDepListen"}
        /\ Base \cup {"disc"} \subseteq Expected(p)
    BY DEF Expected, Marks, Techs
  <2>8. Expected(p) \subseteq stack
    BY <2>2, <2>3, <2>6, <2>7
  <2>9. ASSUME NEW x \in stack, x \notin Expected(p)
        PROVE  x \in {"hci"} \cup Leftover(p)
    <3>1. CASE x \in {"ee", "hci", "isoDepListen"}
      BY <3>1 DEF Leftover
    <3>2. CASE x \in Marks
      <4>1. ~Wants(p, x)
        BY <2>6, <2>9, <3>2
      <4>2. x \in Stays
        BY <2>2, <2>9, <3>2, <4>1
      <4>3. x = "p2pListen"
        BY <4>2 DEF Stays
      <4>4. "p2p" \notin p
        BY <4>1, <4>3, WantsP2p
      <4> QED
        BY <4>2, <4>3, <4>4 DEF Stays, Leftover
    <3> QED
      BY <2>4, <2>5, <2>7, <2>9, <3>1, <3>2
  <2>10. HostCE(p) /\ "hceA" \notin p => "isoDepListen" \notin stack
    BY <2>2 DEF Wants, LlcpEnds
  <2> QED
    BY <2>2, <2>8, <2>9, <2>10 DEF p
<1> QED
  BY <1>1, AccountAlways, PTL

=============================================================================
