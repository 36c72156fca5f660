--------------------------- MODULE GatewayProofs ----------------------------
(***************************************************************************)
(* NoSurvivor of Gateway for any number of connections, tokens and         *)
(* revocations, and however long the stream runs.                          *)
(*                                                                         *)
(* The argument.  A connection that is served is in both indexes under the *)
(* token it came with (Indexed), unless another connection registered the  *)
(* same token.  Every stored revocation that covers it is then in one of   *)
(* four places (Covered): the connection is closed, or it is among the     *)
(* targets of the call under way, or the call is still to be made, or      *)
(* HandleRevocation has returned, which is when the connection must be     *)
(* closed.  A connection that is registered after the call is closed by    *)
(* the second look at the snapshot, which was stored before the call.      *)
(***************************************************************************)
EXTENDS Gateway, TLAPS

-----------------------------------------------------------------------------
(* The inductive invariant.                                                *)

PC == {"new", "admitted", "refused", "acquired", "connected", "registered", "running", "ending",
       "unregistered", "done"}

Record ==
    [pc : PC, kind : {"ws", "sse"}, tenant : Tenant, claims : SUBSET Token, reg : SUBSET Token,
     apiKeyOnly : BOOLEAN, closed : BOOLEAN, reason : {"", "token", "user"}, refreshed : BOOLEAN]

Types ==
    /\ conns \in [Conn -> Record]
    /\ source \subseteq Revocation /\ snapshot \subseteq Revocation

\* The stream goroutine: what it has still to do is about the stored snapshot, and an entry
\* is not called while its targets are being closed.
Streaming ==
    /\ calls \subseteq snapshot /\ fired \subseteq snapshot
    /\ \A p \in targets : p[2] \in snapshot \ calls

\* A connection that keeps its token has that token alone, of its own tenant; before it is
\* registered it has no entry in the registry, and from then on that of its token.
OneToken(c) ==
    ~conns[c].refreshed =>
       \A tok \in conns[c].claims :
          /\ conns[c].claims = {tok} /\ conns[c].tenant = tok.tenant
          /\ conns[c].pc \in {"registered", "running"} => conns[c].reg = {tok}

Fresh(c) ==
    /\ conns[c].pc \in {"new", "admitted", "acquired", "connected"} =>
          conns[c].reg = {} /\ ~conns[c].refreshed
    /\ conns[c].pc \in {"connected", "registered"} => conns[c].claims # {} /\ ~conns[c].refreshed

Served(c) == conns[c].pc \in {"registered", "running"} /\ ~conns[c].refreshed

\* Neither index loses a connection while it is served.
Indexed(c) ==
    Served(c) => \A tok \in conns[c].claims :
                    /\ <<conns[c].tenant, tok.sub, c>> \in bySubject
                    /\ SharesToken(c) \/ <<tok.jti, c>> \in byJTI

\* Entry r is about the token connection c keeps, and FindByJTI can find it.
Concerns(r, c) ==
    /\ conns[c].pc = "running" /\ ~conns[c].refreshed
    /\ r.type = "user" \/ ~SharesToken(c)
    /\ \E tok \in conns[c].claims : IsRevoked({r}, tok)

Covered ==
    \A r \in snapshot, c \in Conn :
       Concerns(r, c) => conns[c].closed \/ (r \notin fired /\ (<<c, r>> \in targets \/ r \in calls))

IInv ==
    /\ Types /\ Streaming
    /\ \A c \in Conn : OneToken(c) /\ Fresh(c) /\ Indexed(c)
    /\ Covered

\* The invariant says more than the property: HandleRevocation has returned.
LEMMA IInvImplies == IInv => NoSurvivor
BY Zenon DEF IInv, Covered, Concerns, NoSurvivor, Streaming

\* At the start no connection is served and nothing is stored.
LEMMA InitIInv == ConstantsAssumption /\ Init => IInv
<1> SUFFICES ASSUME ConstantsAssumption, Init PROVE IInv
  OBVIOUS
<1>1. NewConn \in Record
  BY DEF ConstantsAssumption, NewConn, Record, PC
<1>2. Types /\ Streaming /\ Covered
  BY <1>1 DEF Init, Types, Streaming, Covered
<1>3. ASSUME NEW c \in Conn PROVE OneToken(c) /\ Fresh(c) /\ Indexed(c)
  BY <1>3, Zenon DEF Init, NewConn, OneToken, Fresh, Indexed, Served
<1> QED
  BY <1>2, <1>3 DEF IInv

-----------------------------------------------------------------------------
(* The steps of a handler.                                                 *)

\* A connection that shares its token goes on sharing it while nothing is taken out of reg.
LEMMA SharingStays ==
    ASSUME Types, NEW c \in Conn, NEW rec \in Record, Set(c, rec), conns[c].reg \subseteq rec.reg,
           NEW d \in Conn, d # c, SharesToken(d)
    PROVE  SharesToken(d)'
<1>1. conns'[d] = conns[d] /\ conns'[c].reg = rec.reg /\ \A e \in Conn \ {c} : conns'[e] = conns[e]
  BY DEF Types, Set
<1>2. PICK e \in Conn \ {d} : conns[e].reg \cap conns[d].reg # {}
  BY DEF SharesToken
<1>3. conns'[e].reg \cap conns'[d].reg # {}
  BY <1>1, <1>2
<1> QED
  BY <1>2, <1>3 DEF SharesToken

\* A step that replaces the record of c and leaves the stream alone keeps the invariant, if
\* the new record does, the other connections keep their entries in the indexes, and c is
\* not left open under a stored revocation.
LEMMA HandlerStep ==
    ASSUME IInv, NEW c \in Conn, NEW rec \in Record, Set(c, rec), UNCHANGED Streams,
           conns[c].reg \subseteq rec.reg,
           OneToken(c)', Fresh(c)', Indexed(c)',
           \A d \in Conn \ {c} : Indexed(d)',
           \A r \in snapshot : Concerns(r, c)' => rec.closed
    PROVE  IInv'
<1>1. conns' \in [Conn -> Record] /\ conns'[c] = rec /\ \A d \in Conn \ {c} : conns'[d] = conns[d]
  BY DEF IInv, Types, Set
<1>2. Types' /\ Streaming'
  BY <1>1 DEF IInv, Types, Streaming, Streams
<1>3. ASSUME NEW d \in Conn PROVE OneToken(d)' /\ Fresh(d)' /\ Indexed(d)'
  BY <1>1 DEF IInv, OneToken, Fresh
<1>4. ASSUME NEW r \in snapshot, NEW d \in Conn \ {c}, Concerns(r, d)' PROVE Concerns(r, d)
  BY <1>1, <1>4, SharingStays DEF Concerns, IInv
<1>5. Covered'
  BY <1>1, <1>4 DEF IInv, Covered, Streams
<1> QED
  BY <1>2, <1>3, <1>5 DEF IInv

\* Where the indexes stay, nobody else's entry is lost.
LEMMA IndexesStay ==
    ASSUME IInv, NEW c \in Conn, NEW rec \in Record, Set(c, rec), conns[c].reg \subseteq rec.reg,
           UNCHANGED <<byJTI, bySubject>>
    PROVE  \A d \in Conn \ {c} : Indexed(d)'
<1> SUFFICES ASSUME NEW d \in Conn \ {c} PROVE Indexed(d)'
  OBVIOUS
<1>1. conns'[d] = conns[d]
  BY DEF IInv, Types, Set
<1>2. SharesToken(d) => SharesToken(d)'
  BY SharingStays DEF IInv
<1> QED
  BY <1>1, <1>2 DEF IInv, Indexed, Served

\* Authentication, the slot and the connect: c is not served yet, or has no token.
LEMMA BeforeRegister ==
    ASSUME ConstantsAssumption, IInv, NEW c \in Conn,
           \/ \E kind \in {"ws", "sse"}, key \in {{}} \cup {{t} : t \in Tenant},
                 claims \in {{}} \cup {{tok} : tok \in Token}, known \in SUBSET Tenant :
                    authenticateRequest(c, kind, key, claims, known)
           \/ TryAcquire(c) \/ Connect(c)
    PROVE  IInv'
<1> DEFINE Early(rec) ==
       /\ rec \in Record /\ Set(c, rec) /\ rec.reg = {} /\ ~rec.refreshed
       /\ rec.pc \in {"registered", "running"} => rec.claims = {}
       /\ rec.pc \in {"connected", "registered"} => rec.claims # {}
       /\ \A tok \in rec.claims : rec.claims = {tok} /\ rec.tenant = tok.tenant
<1>0. conns[c] \in Record /\ NewConn \in Record
  BY Zenon DEF ConstantsAssumption, IInv, Types, NewConn, Record, PC
<1>1. ASSUME NEW rec, Early(rec), UNCHANGED <<byJTI, bySubject, Streams>>,
             conns[c].pc \in {"new", "admitted", "acquired"}
      PROVE  IInv'
  <2>1. conns'[c] = rec
    BY <1>1 DEF IInv, Types, Set
  <2>2. conns[c].reg = {}
    BY <1>1 DEF IInv, Fresh
  <2>3. OneToken(c)' /\ Fresh(c)' /\ Indexed(c)'
    BY <1>1, <2>1 DEF OneToken, Fresh, Indexed, Served
  <2>4. \A r \in snapshot : ~Concerns(r, c)'
    BY <1>1, <2>1 DEF Concerns
  <2>5. \A d \in Conn \ {c} : Indexed(d)'
    BY <1>1, <2>2, IndexesStay
  <2> QED
    BY <1>1, <2>2, <2>3, <2>4, <2>5, HandlerStep
<1> HIDE DEF Early
<1>2. ASSUME NEW kind \in {"ws", "sse"}, NEW key \in {{}} \cup {{t} : t \in Tenant},
             NEW claims \in {{}} \cup {{tok} : tok \in Token}, NEW known \in SUBSET Tenant,
             authenticateRequest(c, kind, key, claims, known)
      PROVE  IInv'
  <2>1. conns[c].pc = "new" /\ conns[c].reg = {} /\ ~conns[c].refreshed
    BY <1>2, ZenonT(60) DEF authenticateRequest, IInv, Fresh
  <2>2. CASE Admitted(key, claims, known)
    <3>1. PICK t \in IF claims = {} THEN key ELSE {tok.tenant : tok \in claims} :
             Set(c, [conns[c] EXCEPT !.pc = "admitted", !.kind = kind, !.tenant = t,
                                     !.claims = claims, !.apiKeyOnly = claims = {}])
      BY <1>2, <2>2, Zenon DEF authenticateRequest
    <3>2. t \in Tenant /\ claims \subseteq Token /\ \A tok \in claims : claims = {tok} /\ t = tok.tenant
      BY <3>1 DEF ConstantsAssumption
    <3> DEFINE rec == [conns[c] EXCEPT !.pc = "admitted", !.kind = kind, !.tenant = t,
                                       !.claims = claims, !.apiKeyOnly = claims = {}]
    <3>3. (claims = {}) \in BOOLEAN
      BY SMTT(60), ZenonT(60)
    <3>4. rec \in Record
      BY <1>0, <3>2, <3>3, ZenonT(60) DEF Record, PC
    <3>5. rec.reg = {} /\ ~rec.refreshed /\ rec.pc = "admitted" /\ rec.claims = claims /\ rec.tenant = t
      BY <1>0, <2>1, Zenon DEF Record
    <3> QED
      BY <1>1, <1>2, <2>1, <3>1, <3>2, <3>4, <3>5, ZenonT(60) DEF Early, authenticateRequest
  <2>3. CASE ~Admitted(key, claims, known)
    <3>1. Set(c, [conns[c] EXCEPT !.pc = "refused"])
      BY <1>2, <2>3, Zenon DEF authenticateRequest
    <3>2. Early([conns[c] EXCEPT !.pc = "refused"])
      BY <1>0, <2>1, <3>1, Zenon DEF Early, Record, PC, IInv, OneToken
    <3> QED
      BY <1>1, <1>2, <2>1, <3>2, ZenonT(60) DEF authenticateRequest
  <2> QED
    BY <2>2, <2>3, SMTT(60), ZenonT(60)
<1>3. CASE TryAcquire(c)
  <2>1. conns[c].pc = "admitted" /\ conns[c].reg = {} /\ ~conns[c].refreshed
    BY <1>3 DEF TryAcquire, IInv, Fresh
  <2>2. CASE Set(c, [conns[c] EXCEPT !.pc = "acquired"])
    <3>1. Early([conns[c] EXCEPT !.pc = "acquired"])
      BY <1>0, <2>1, <2>2, Zenon DEF Early, Record, PC, IInv, OneToken
    <3> QED
      BY <1>1, <1>3, <2>1, <3>1 DEF TryAcquire
  <2>3. CASE Set(c, [NewConn EXCEPT !.pc = "refused"])
    <3>1. Early([NewConn EXCEPT !.pc = "refused"])
      BY <1>0, <2>3, Zenon DEF Early, Record, PC, NewConn
    <3> QED
      BY <1>1, <1>3, <2>1, <3>1 DEF TryAcquire
  <2> QED
    BY <1>3, <2>2, <2>3 DEF TryAcquire
<1>4. CASE Connect(c)
  <2>1. conns[c].pc = "acquired" /\ conns[c].reg = {} /\ ~conns[c].refreshed
    BY <1>4 DEF Connect, IInv, Fresh
  <2>2. PICK next \in PC : /\ Set(c, [conns[c] EXCEPT !.pc = next])
                           /\ next \in {"registered", "running"} => conns[c].claims = {}
                           /\ next \in {"connected", "registered"} => conns[c].claims # {}
    BY <1>4 DEF Connect, PC
  <2>3. Early([conns[c] EXCEPT !.pc = next])
    BY <1>0, <2>1, <2>2, Zenon DEF Early, Record, IInv, OneToken
  <2> QED
    BY <1>1, <1>4, <2>1, <2>3 DEF Connect
<1> QED
  BY <1>2, <1>3, <1>4

\* Registration: the token of c is indexed.  Of another connection only an entry of the same
\* jti is lost, hence of the same token, which is then shared.
LEMMA RegisterStep ==
    ASSUME ConstantsAssumption, IInv, NEW c \in Conn, Register(c)
    PROVE  IInv'
<1>1. PICK tok \in Token : conns[c].claims = {tok} /\ TheToken(c) = tok /\ conns[c].tenant = tok.tenant
  <2>1. conns[c] \in Record /\ ~conns[c].refreshed /\ conns[c].pc = "connected"
    BY DEF Register, IInv, Types, Fresh
  <2>2. PICK tok \in conns[c].claims : conns[c].claims = {tok} /\ conns[c].tenant = tok.tenant
    BY <2>1 DEF IInv, OneToken, Fresh
  <2>3. tok \in Token
    BY <2>1, <2>2, Zenon DEF Record
  <2>4. TheToken(c) = tok
    BY <2>2 DEF TheToken
  <2> QED
    BY <2>2, <2>3, <2>4
<1> DEFINE rec == [conns[c] EXCEPT !.pc = "registered", !.reg = {tok}]
<1>2. /\ byJTI' = {p \in byJTI : p[1] # tok.jti} \cup {<<tok.jti, c>>}
      /\ bySubject' = bySubject \cup {<<conns[c].tenant, tok.sub, c>>}
      /\ Set(c, rec) /\ UNCHANGED Streams /\ conns[c].pc = "connected"
  BY <1>1 DEF Register
<1>3. /\ rec \in Record /\ rec.pc = "registered" /\ rec.reg = {tok} /\ rec.claims = {tok}
      /\ rec.tenant = tok.tenant /\ ~rec.refreshed /\ conns[c].reg = {}
  <2>1. conns[c] \in Record /\ conns[c].reg = {} /\ ~conns[c].refreshed
    BY <1>2 DEF IInv, Types, Fresh
  <2> QED
    BY <1>1, <2>1, Zenon DEF Record, PC
<1> HIDE DEF rec
<1>4. conns'[c] = rec
  BY <1>2 DEF IInv, Types, Set
<1>5. OneToken(c)' /\ Fresh(c)' /\ Indexed(c)'
  BY <1>1, <1>2, <1>3, <1>4 DEF OneToken, Fresh, Indexed
<1>6. ASSUME NEW d \in Conn \ {c}, Served(d), NEW own \in conns[d].claims
      PROVE  /\ <<conns[d].tenant, own.sub, d>> \in bySubject'
             /\ SharesToken(d)' \/ <<own.jti, d>> \in byJTI'
  <2>1. /\ <<conns[d].tenant, own.sub, d>> \in bySubject /\ conns[d].reg = {own} /\ own \in Token
        /\ SharesToken(d) \/ <<own.jti, d>> \in byJTI
    BY <1>6, Zenon DEF IInv, Indexed, Served, OneToken, Types, Record
  <2>2. CASE own = tok
    <3>1. conns'[d] = conns[d]
      BY <1>2 DEF IInv, Types, Set
    <3>2. conns'[c].reg \cap conns'[d].reg # {}
      BY <1>3, <1>4, <2>1, <2>2, <3>1
    <3>3. SharesToken(d)'
      BY <3>2 DEF SharesToken
    <3> QED
      BY <1>2, <2>1, <3>3
  <2>3. CASE own # tok
    <3>1. own.jti # tok.jti
      BY <2>1, <2>3 DEF ConstantsAssumption
    <3>2. SharesToken(d) => SharesToken(d)'
      BY <1>2, <1>3, SharingStays DEF IInv
    <3> QED
      BY <1>2, <2>1, <3>1, <3>2
  <2> QED
    BY <2>2, <2>3
<1>7. \A d \in Conn \ {c} : Indexed(d)'
  <2>1. \A d \in Conn \ {c} : conns'[d] = conns[d]
    BY <1>2 DEF IInv, Types, Set
  <2> QED
    BY <1>6, <2>1 DEF Indexed, Served
<1>8. \A r \in snapshot : ~Concerns(r, c)'
  BY <1>3, <1>4 DEF Concerns
<1> QED
  BY <1>2, <1>3, <1>5, <1>7, <1>8, HandlerStep

\* The second look: a connection that a stored revocation covers is closed before it is served.
LEMMA RecheckStep ==
    ASSUME ConstantsAssumption, IInv, NEW c \in Conn, recheckRevocationAfterRegister(c)
    PROVE  IInv'
<1>1. conns[c] \in Record /\ conns[c].pc = "registered" /\ ~conns[c].refreshed
  BY DEF recheckRevocationAfterRegister, IInv, Types, Fresh
<1>2. PICK tok \in conns[c].claims :
         conns[c].claims = {tok} /\ conns[c].tenant = tok.tenant /\ conns[c].reg = {tok}
  BY <1>1 DEF IInv, OneToken, Fresh
<1>3. TheToken(c) = tok
  BY <1>2 DEF TheToken
<1>4. /\ Rechecked(c) \in Record /\ (IsRevoked(snapshot, tok) => Rechecked(c).closed)
      /\ Rechecked(c).claims = {tok} /\ Rechecked(c).reg = {tok}
      /\ Rechecked(c).tenant = tok.tenant /\ ~Rechecked(c).refreshed
  <2>1. RevokedReason(tok) \in {"token", "user"}
    BY DEF RevokedReason
  <2> QED
    BY <1>1, <1>2, <1>3, <2>1, Zenon DEF Rechecked, ForceClosed, Record
<1> DEFINE rec == [Rechecked(c) EXCEPT !.pc = "running"]
<1>5. /\ rec \in Record /\ rec.pc = "running" /\ (IsRevoked(snapshot, tok) => rec.closed)
      /\ rec.claims = {tok} /\ rec.reg = {tok} /\ rec.tenant = tok.tenant /\ ~rec.refreshed
  BY <1>4, Zenon DEF Record, PC
<1>6. Set(c, rec) /\ UNCHANGED <<byJTI, bySubject, Streams>>
  BY DEF recheckRevocationAfterRegister
<1> HIDE DEF rec
<1>7. conns'[c] = rec /\ \A d \in Conn \ {c} : conns'[d] = conns[d]
  BY <1>6 DEF IInv, Types, Set
<1>8. OneToken(c)' /\ Fresh(c)'
  BY <1>5, <1>7 DEF OneToken, Fresh
<1>9. Indexed(c)'
  <2>1. SharesToken(c) => SharesToken(c)'
    BY <1>2, <1>5, <1>7 DEF SharesToken
  <2>2. <<tok.tenant, tok.sub, c>> \in bySubject /\ (SharesToken(c) \/ <<tok.jti, c>> \in byJTI)
    BY <1>1, <1>2 DEF IInv, Indexed, Served
  <2> QED
    BY <1>5, <1>6, <1>7, <2>1, <2>2 DEF Indexed
<1>10. \A d \in Conn \ {c} : Indexed(d)'
  BY <1>2, <1>5, <1>6, IndexesStay
<1>11. ASSUME NEW r \in snapshot, Concerns(r, c)' PROVE rec.closed
  <2>1. IsRevoked({r}, tok)
    BY <1>5, <1>7, <1>11 DEF Concerns
  <2>2. IsRevoked(snapshot, tok)
    BY <2>1 DEF IsRevoked
  <2> QED
    BY <1>5, <2>2
<1> QED
  BY <1>2, <1>5, <1>6, <1>8, <1>9, <1>10, <1>11, HandlerStep

\* From the refresh of its token on, and from the end of Run on, a connection is not spoken of.
\* Unregister removes, of another connection's entries, only those under a shared token.
LEMMA AfterRun ==
    ASSUME ConstantsAssumption, IInv, NEW c \in Conn,
           \/ \E tok \in Token : interceptAuthRefresh(c, tok)
           \/ RunEnds(c) \/ Unregister(c) \/ Release(c)
    PROVE  IInv'
<1> DEFINE Late(rec) ==
       /\ rec \in Record /\ Set(c, rec) /\ rec.reg = conns[c].reg
       /\ rec.pc = "running" => rec.refreshed
       /\ rec.pc \in {"running", "ending", "unregistered", "done"}
       /\ ~rec.refreshed => \A tok \in rec.claims : rec.claims = {tok} /\ rec.tenant = tok.tenant
<1>0. conns[c] \in Record /\ NewConn \in Record
  BY Zenon DEF ConstantsAssumption, IInv, Types, NewConn, Record, PC
<1>1. ASSUME NEW rec, Late(rec), UNCHANGED Streams, \A d \in Conn \ {c} : Indexed(d)'
      PROVE  IInv'
  <2>1. conns'[c] = rec
    BY <1>1 DEF IInv, Types, Set
  <2>2. OneToken(c)' /\ Fresh(c)' /\ Indexed(c)'
    BY <1>1, <2>1 DEF OneToken, Fresh, Indexed, Served
  <2>3. \A r \in snapshot : ~Concerns(r, c)'
    BY <1>1, <2>1 DEF Concerns
  <2> QED
    BY <1>1, <2>2, <2>3, HandlerStep
<1>2. ASSUME NEW rec, Late(rec), UNCHANGED <<byJTI, bySubject>> PROVE \A d \in Conn \ {c} : Indexed(d)'
  BY <1>2, IndexesStay, SMTT(60), ZenonT(60)
<1> HIDE DEF Late
<1>3. ASSUME NEW tok \in Token, interceptAuthRefresh(c, tok) PROVE IInv'
  <2>1. Late([conns[c] EXCEPT !.claims = {tok}, !.apiKeyOnly = FALSE, !.refreshed = TRUE])
    BY <1>0, <1>3, Zenon DEF Late, interceptAuthRefresh, Record, PC
  <2> QED
    BY <1>1, <1>2, <1>3, <2>1, ZenonT(60) DEF interceptAuthRefresh
<1>4. CASE RunEnds(c)
  <2>1. /\ ForceClosed(conns[c], "") \in Record /\ ForceClosed(conns[c], "").reg = conns[c].reg
        /\ ForceClosed(conns[c], "").claims = conns[c].claims
        /\ ForceClosed(conns[c], "").tenant = conns[c].tenant
        /\ ForceClosed(conns[c], "").refreshed = conns[c].refreshed
    BY <1>0, Zenon DEF ForceClosed, Record
  <2>2. Late([ForceClosed(conns[c], "") EXCEPT !.pc = "ending"])
    BY <1>4, <2>1, Zenon DEF Late, RunEnds, Record, PC, IInv, OneToken
  <2> QED
    BY <1>1, <1>2, <1>4, <2>2, Zenon DEF RunEnds
<1>5. CASE Unregister(c)
  <2>1. Late([conns[c] EXCEPT !.pc = "unregistered"])
    BY <1>0, <1>5, Zenon DEF Late, Unregister, Record, PC, IInv, OneToken
  <2>2. ASSUME NEW d \in Conn \ {c} PROVE Indexed(d)'
    <3>1. conns'[d] = conns[d]
      BY <1>5 DEF Unregister, IInv, Types, Set
    <3>2. SharesToken(d) => SharesToken(d)'
      BY <2>1, SharingStays, Zenon DEF Late, IInv
    <3>3. ASSUME Served(d), NEW own \in conns[d].claims
          PROVE  /\ <<conns[d].tenant, own.sub, d>> \in bySubject'
                 /\ SharesToken(d) \/ <<own.jti, d>> \in byJTI'
      <4>1. /\ <<conns[d].tenant, own.sub, d>> \in bySubject /\ conns[d].reg = {own} /\ own \in Token
            /\ SharesToken(d) \/ <<own.jti, d>> \in byJTI
        BY <3>3, Zenon DEF IInv, Indexed, Served, OneToken, Types, Record
      <4>2. <<conns[d].tenant, own.sub, d>> \in bySubject'
        BY <1>5, <4>1 DEF Unregister
      <4>3. CASE own \in conns[c].reg
        BY <4>1, <4>2, <4>3 DEF SharesToken
      <4>4. CASE own \notin conns[c].reg
        <5>1. \A tok \in conns[c].reg : own.jti # tok.jti
          BY <1>0, <4>1, <4>4, ZenonT(60) DEF ConstantsAssumption, Record
        <5> QED
          BY <1>5, <4>1, <4>2, <5>1 DEF Unregister
      <4> QED
        BY <4>3, <4>4
    <3> QED
      BY <3>1, <3>2, <3>3 DEF Indexed, Served
  <2> QED
    BY <1>1, <1>5, <2>1, <2>2 DEF Unregister
<1>6. CASE Release(c)
  <2>1. Late([NewConn EXCEPT !.pc = "done", !.reg = conns[c].reg])
    BY <1>0, <1>6, ZenonT(60) DEF Late, Release, Record, PC, NewConn
  <2> QED
    BY <1>1, <1>2, <1>6, <2>1 DEF Release
<1> QED
  BY <1>3, <1>4, <1>5, <1>6

-----------------------------------------------------------------------------
(* The steps of the stream.                                                *)

\* A step that leaves the handlers alone keeps what is said of each connection.
LEMMA StreamStep ==
    ASSUME IInv, UNCHANGED Handlers, source' \subseteq Revocation, snapshot' \subseteq Revocation,
           Streaming', Covered'
    PROVE  IInv'
<1>1. \A c \in Conn : SharesToken(c)' <=> SharesToken(c)
  BY DEF Handlers, SharesToken
<1>2. Types' /\ \A c \in Conn : OneToken(c)' /\ Fresh(c)' /\ Indexed(c)'
  BY <1>1 DEF IInv, Types, OneToken, Fresh, Indexed, Served, Handlers
<1> QED
  BY <1>2 DEF IInv

\* The service's own changes, and a message stored: the entries of the message are called for.
LEMMA StoreStep ==
    ASSUME IInv,
           \/ \E r \in Revocation : Revoke(r) \/ Expire(r) \/ applyDelta(r)
           \/ applySnapshot
    PROVE  IInv'
<1>0. ASSUME UNCHANGED Handlers, NEW r, NEW c \in Conn PROVE Concerns(r, c)' <=> Concerns(r, c)
  BY <1>0 DEF Handlers, Concerns, SharesToken
<1>1. CASE UNCHANGED <<Handlers, snapshot, calls, targets, fired>> /\ source' \subseteq Revocation
  <2>1. Streaming' /\ Covered'
    BY <1>0, <1>1 DEF IInv, Streaming, Covered, Handlers
  <2> QED
    BY <1>1, <2>1, StreamStep DEF IInv, Types
<1>2. ASSUME NEW r \in Revocation, Revoke(r) \/ Expire(r) PROVE IInv'
  BY <1>1, <1>2 DEF Revoke, Expire, IInv, Types
<1>4. ASSUME NEW new \in SUBSET Revocation, NEW entries \in SUBSET new, Stored(new, entries),
             new \ snapshot \subseteq entries, calls = {}, targets = {},
             UNCHANGED <<Handlers, source, targets>>
      PROVE  IInv'
  <2>1. Streaming'
    BY <1>4 DEF IInv, Streaming, Stored
  <2>2. ASSUME NEW r \in new, NEW c \in Conn, Concerns(r, c)
        PROVE  conns[c].closed \/ (r \notin fired' /\ r \in entries)
    BY <1>4, <2>2 DEF IInv, Covered, Streaming, Stored
  <2>3. Covered'
    BY <1>0, <1>4, <2>2 DEF Covered, Stored, Handlers
  <2> QED
    BY <1>4, <2>1, <2>3, StreamStep DEF IInv, Types, Stored
<1>5. CASE applySnapshot
  BY <1>4, <1>5 DEF applySnapshot, Receiving, IInv, Types
<1>6. ASSUME NEW r \in Revocation, applyDelta(r) PROVE IInv'
  BY <1>4, <1>6, Zenon DEF applyDelta, Receiving, IInv, Types
<1> QED
  BY <1>2, <1>5, <1>6

\* A connection the entry concerns is found in the index: it becomes a target.
LEMMA HandleStep ==
    ASSUME IInv, NEW r \in Revocation, HandleRevocation(r)
    PROVE  IInv'
<1>0. ASSUME NEW q, NEW c \in Conn PROVE Concerns(q, c)' <=> Concerns(q, c)
  BY DEF HandleRevocation, Handlers, Concerns, SharesToken
<1>1. r \in snapshot /\ r \in calls /\ targets = {}
  BY DEF HandleRevocation, IInv, Streaming
<1>2. ASSUME NEW c \in Conn, Concerns(r, c) PROVE c \in Found(r)
  <2>1. PICK tok \in conns[c].claims : IsRevoked({r}, tok)
    BY <1>2 DEF Concerns
  <2>2. /\ <<conns[c].tenant, tok.sub, c>> \in bySubject /\ conns[c].tenant = tok.tenant
        /\ SharesToken(c) \/ <<tok.jti, c>> \in byJTI
    BY <1>2, <2>1 DEF IInv, Indexed, Served, OneToken, Concerns
  <2>3. CASE r.type = "token"
    <3>1. r.jti = tok.jti /\ <<tok.jti, c>> \in byJTI
      BY <1>2, <2>1, <2>2, <2>3 DEF IsRevoked, Concerns
    <3> QED
      BY <2>3, <3>1 DEF Found
  <2>4. CASE r.type # "token"
    <3>1. r.tenant = conns[c].tenant /\ r.sub = tok.sub
      BY <2>1, <2>2, <2>4 DEF IsRevoked
    <3> QED
      BY <2>2, <2>4, <3>1 DEF Found
  <2> QED
    BY <2>3, <2>4
<1>3. Streaming'
  BY <1>1 DEF IInv, Streaming, HandleRevocation
<1>4. ASSUME NEW q \in snapshot, NEW c \in Conn, Concerns(q, c)
      PROVE  conns[c].closed \/ (q \notin fired' /\ (<<c, q>> \in targets' \/ q \in calls'))
  <2>1. conns[c].closed \/ (q \notin fired /\ q \in calls)
    BY <1>1, <1>4 DEF IInv, Covered
  <2>2. CASE q = r
    BY <1>2, <1>4, <2>1, <2>2 DEF HandleRevocation
  <2>3. CASE q # r
    BY <2>1, <2>3 DEF HandleRevocation
  <2> QED
    BY <2>2, <2>3
<1>5. Covered'
  BY <1>0, <1>4 DEF Covered, HandleRevocation, Handlers
<1> QED
  BY <1>3, <1>5, StreamStep DEF IInv, Types, HandleRevocation

\* A target is closed unless its token is spared, and then the entry does not concern it; the
\* call returns when no target is left.
LEMMA CloseStep ==
    ASSUME ConstantsAssumption, IInv, NEW r \in Revocation, NEW c \in Conn, ForceClose(c, r)
    PROVE  IInv'
<1> DEFINE rec == IF Spared(c, r) THEN conns[c] ELSE ForceClosed(conns[c], r.type)
<1>1. /\ rec \in Record /\ rec.reg = conns[c].reg /\ rec.claims = conns[c].claims /\ rec.pc = conns[c].pc
      /\ rec.refreshed = conns[c].refreshed /\ rec.tenant = conns[c].tenant
      /\ conns[c].closed => rec.closed
  <2>1. conns[c] \in Record /\ r.type \in {"", "token", "user"}
    BY Zenon DEF ConstantsAssumption, IInv, Types
  <2>2. CASE Spared(c, r) \/ conns[c].closed
    BY <2>1, <2>2, Zenon DEF ForceClosed
  <2>3. CASE ~Spared(c, r) /\ ~conns[c].closed
    <3>1. rec = [conns[c] EXCEPT !.closed = TRUE, !.reason = r.type]
      BY <2>3 DEF ForceClosed
    <3> QED
      BY <2>1, <2>3, <3>1, Zenon DEF Record
  <2> QED
    BY <2>2, <2>3
<1>2. ~Spared(c, r) => rec.closed
  BY Zenon DEF IInv, Types, Record, ForceClosed
<1>3. conns' = [conns EXCEPT ![c] = rec]
  BY DEF ForceClose, Set, IInv, Types
<1> HIDE DEF rec
<1>4. /\ conns' \in [Conn -> Record]
      /\ \A d \in Conn : /\ conns'[d].reg = conns[d].reg /\ conns'[d].claims = conns[d].claims
                         /\ conns'[d].pc = conns[d].pc /\ conns'[d].refreshed = conns[d].refreshed
                         /\ conns'[d].tenant = conns[d].tenant /\ (conns[d].closed => conns'[d].closed)
  BY <1>1, <1>3 DEF IInv, Types
<1>5. \A d \in Conn : SharesToken(d)' <=> SharesToken(d)
  BY <1>4 DEF SharesToken
<1>6. Types' /\ \A d \in Conn : OneToken(d)' /\ Fresh(d)' /\ Indexed(d)'
  <2>1. Types'
    BY <1>4 DEF IInv, Types, ForceClose
  <2>2. \A d \in Conn : OneToken(d)' /\ Fresh(d)'
    BY <1>4, <1>5 DEF IInv, OneToken, Fresh
  <2>3. byJTI' = byJTI /\ bySubject' = bySubject /\ \A d \in Conn : Served(d)' <=> Served(d)
    BY <1>4 DEF ForceClose, Served
  <2>4. \A d \in Conn : Indexed(d)'
    BY <1>4, <1>5, <2>3, SMTT(60), ZenonT(60) DEF IInv, Indexed
  <2> QED
    BY <2>1, <2>2, <2>4
<1>7. Streaming'
  BY DEF IInv, Streaming, ForceClose
<1>8. ASSUME NEW q, NEW d \in Conn PROVE Concerns(q, d)' <=> Concerns(q, d)
  BY <1>4, <1>5, Zenon DEF Concerns
<1>9. Concerns(r, c) => conns'[c].closed
  <2>1. conns'[c] = rec
    BY <1>3 DEF IInv, Types
  <2> SUFFICES ASSUME Concerns(r, c) PROVE ~Spared(c, r)
    BY <1>2, <2>1
  <2>2. PICK tok \in conns[c].claims : IsRevoked({r}, tok)
    BY DEF Concerns
  <2>3. tok \in Token
    BY <2>2, Zenon DEF IInv, Types, Record
  <2> QED
    BY <2>2, <2>3 DEF ConstantsAssumption, IsRevoked, Spared
<1>10. ASSUME NEW q \in snapshot, NEW d \in Conn, Concerns(q, d)
       PROVE  conns'[d].closed \/ (q \notin fired' /\ (<<d, q>> \in targets' \/ q \in calls))
  <2>1. conns[d].closed \/ (q \notin fired /\ (<<d, q>> \in targets \/ q \in calls))
    BY <1>10 DEF IInv, Covered
  <2>2. r \notin calls
    BY DEF ForceClose, IInv, Streaming
  <2>3. CASE conns[d].closed \/ (q = r /\ d = c)
    BY <1>4, <1>9, <1>10, <2>3
  <2>4. CASE ~conns[d].closed /\ (q # r \/ d # c)
    BY <2>1, <2>2, <2>4 DEF ForceClose
  <2> QED
    BY <2>3, <2>4
<1>11. Covered'
  BY <1>8, <1>10 DEF Covered, ForceClose
<1> QED
  BY <1>6, <1>7, <1>11 DEF IInv

-----------------------------------------------------------------------------
(* The theorem.                                                            *)

\* Once HandleRevocation of a stored revocation has returned, no connection whose token it
\* covers is served, whatever the order in which the stream stores and calls and the handlers
\* register, look again and unregister.
THEOREM RevokedAreClosed ==
    ASSUME ConstantsAssumption
    PROVE  Spec => []NoSurvivor
<1>1. Init => IInv
  BY InitIInv
<1>2. IInv /\ [Next]_vars => IInv'
  <2> SUFFICES ASSUME IInv, [Next]_vars PROVE IInv'
    OBVIOUS
  <2>1. CASE UNCHANGED vars
    <3>1. UNCHANGED Handlers /\ UNCHANGED <<source, snapshot, calls, targets, fired>>
      BY <2>1 DEF vars, Handlers
    <3>2. Streaming' /\ Covered'
      BY <3>1 DEF IInv, Streaming, Covered, Concerns, SharesToken, Handlers
    <3> QED
      BY <3>1, <3>2, StreamStep DEF IInv, Types
  <2>2. ASSUME NEW c \in Conn, Handle(c) PROVE IInv'
    BY <2>2, BeforeRegister, RegisterStep, RecheckStep, AfterRun DEF Handle
  <2> QED
    BY <2>1, <2>2, BeforeRegister, StoreStep, HandleStep, CloseStep DEF Next
<1> QED
  BY <1>1, <1>2, IInvImplies, PTL DEF Spec
=============================================================================
