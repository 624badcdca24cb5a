------------------------- MODULE MaestroCli_answers -------------------------
(***************************************************************************)
(* The maestro commands tell the truth, for any number of users, consumers *)
(* and bundles: what a command says of the outcome was so at some moment   *)
(* between its start and its end, with the other commands, failing calls   *)
(* and lost answers in between. The commands keep what the API promises:   *)
(* the locked calls do not overlap, and the rows change as those of a      *)
(* versioned store.                                                        *)
(***************************************************************************)
EXTENDS MaestroCli, MaestroApi_refines

Active == {"first", "between", "second"}

\* The request a command has sent first, by the kind of the command.
FirstRequest(c, req) ==
  /\ c.kind = "create" => req = c.req /\ req.op = "ConsumersPost" /\ req.name \in Names
  /\ c.kind = "update" => req = c.req /\ req.op = "ConsumersIdGet"
  /\ c.kind = "delete" => req = c.req /\ req.op = "ConsumersIdDelete"
  /\ c.kind = "bundleDelete" => req = c.req /\ req.op = "ResourceBundlesIdGet"
  /\ c.kind = "apply" => \/ req = c.req /\ req.op = "create_request"
                         \/ /\ req.op = "ResourceBundlesIdGet" /\ req.id = c.req.id
                            /\ c.req.op = "update_request"

\* The request it sends then: the labels of an update are those it has
\* merged.
SecondRequest(c) ==
  /\ c.kind \in {"update", "apply", "bundleDelete"}
  /\ c.kind = "update" => /\ c.req.op = "ConsumersIdPatch" /\ ~c.req.nil
                          /\ Merged(c.req.labels, c) = c.req.labels
  /\ c.kind = "apply" => c.req.op = "update_request"
  /\ c.kind = "bundleDelete" => c.req.op = "delete_request"

\* The call of a command is one of its own requests; a call that nobody waits
\* for any more belongs to a command that is over.
InOrder(c, k) ==
  /\ c.pc \in Active => WellFormed(c.req)
  /\ c.pc \in {"first", "second"} => k.pc # "idle"
  /\ c.pc = "first" => FirstRequest(c, k.req)
  /\ c.pc = "between" => k.pc = "idle" /\ SecondRequest(c)
  /\ c.pc = "second" => k.req = c.req /\ SecondRequest(c)

\* A patch saves the row it has read, with the labels of the patch.
SavesPatch(k) ==
  k.pc = "save" =>
    /\ k.req.op = "ConsumersIdPatch"
    /\ k.consumer.state = "row"
    /\ k.req.nil \/ k.consumer.labels = k.req.labels

LastAnswer(c) ==
  c.pc = "second" \/ c.kind \in {"create", "delete"} \/ c.req.op = "create_request"

\* What the answer k will make the command c say is in said: from the moment
\* the change is made, or the row is found, or not found.
Backed(c, k, said) ==
  /\ k.pc = "event" => "done" \in said
  /\ k.pc = "reply" =>
       /\ Says(k.req.op, k.code) = "done" => ~LastAnswer(c) \/ "done" \in said
       /\ Says(k.req.op, k.code) = "notFound" => "notFound" \in said
       /\ Says(k.req.op, k.code) = "exists" => "exists" \in said
       /\ k.req.op = "ResourceBundlesIdGet" /\ k.code = 200 /\ k.bundle.version # c.req.version =>
            "mismatch" \in said

\* A command that waits for an answer; that of a single call claims nothing.
Asks(u) == cmd[u].pc \in {"first", "second"} /\ cmd[u].kind # "call"

Consistent(c, k, said) ==
  /\ InOrder(c, k) /\ SavesPatch(k)
  /\ c.pc \in {"first", "second"} /\ c.kind # "call" => Backed(c, k, said)
  /\ c.pc = "done" /\ c.kind # "call" /\ c.says \in {"done", "notFound", "exists", "mismatch"} =>
       c.says \in said

CInv == RInv /\ TypeOK /\ \A u \in Users : Consistent(cmd[u], call[u], seen[u])

-----------------------------------------------------------------------------
\* A command that goes on keeps what was seen, and sees what is true now.
LEMMA Observed ==
  ASSUME Observe, NEW u \in Users, cmd[u].pc \in Active, cmd'[u].pc \in Active
  PROVE  /\ seen[u] \subseteq seen'[u]
         /\ \A m \in Messages : Claim(m, cmd'[u], consumers', bundles') => m \in seen'[u]
<1> USE ZenonT(60)
<1>1. cmd[u].pc \notin {"idle", "done"} /\ cmd'[u].pc \notin {"idle", "done"}
  BY DEF Active
<1>2. seen'[u] = seen[u] \union {m \in Messages : Claim(m, cmd'[u], consumers', bundles')}
  BY <1>1 DEF Observe
<1> QED
  BY <1>2

LEMMA SeenTyped ==
  ASSUME Observe, seen \in [Users -> SUBSET Messages]
  PROVE  /\ seen' \in [Users -> SUBSET Messages]
         /\ \A u \in Users : cmd'[u].pc \in {"idle", "done"} => seen'[u] = seen[u]
BY ZenonT(60) DEF Observe

LEMMA BackedGrows ==
  ASSUME NEW c, NEW k, NEW said, NEW more, said \subseteq more, Backed(c, k, said)
  PROVE  Backed(c, k, more)
BY ZenonT(60) DEF Backed

\* The calls a command can have, by the operation of the call.
LEMMA KindOfCall ==
  ASSUME CInv, NEW u \in Users, Asks(u)
  PROVE  /\ call[u].req.op = "ConsumersPost" =>
              cmd[u].kind = "create" /\ cmd[u].req = call[u].req /\ call[u].req.name \in Names
         /\ call[u].req.op = "ConsumersIdGet" =>
              cmd[u].kind = "update" /\ cmd[u].req.id = call[u].req.id /\ ~LastAnswer(cmd[u])
         /\ call[u].req.op = "ConsumersIdPatch" =>
              /\ cmd[u].kind = "update" /\ cmd[u].req = call[u].req
              /\ ~call[u].req.nil /\ Merged(call[u].req.labels, cmd[u]) = call[u].req.labels
         /\ call[u].req.op = "ConsumersIdDelete" => cmd[u].kind = "delete" /\ cmd[u].req = call[u].req
         /\ call[u].req.op = "ResourceBundlesIdGet" =>
              /\ cmd[u].kind \in {"apply", "bundleDelete"} /\ cmd[u].req.id = call[u].req.id
              /\ ~LastAnswer(cmd[u])
         /\ call[u].req.op \in {"create_request", "update_request"} =>
              cmd[u].kind = "apply" /\ cmd[u].req = call[u].req
         /\ call[u].req.op = "delete_request" => cmd[u].kind = "bundleDelete" /\ cmd[u].req = call[u].req
         /\ call[u].req.op # "ResourceBundlesIdDelete"
<1>1. cmd[u].kind \in {"create", "update", "delete", "apply", "bundleDelete"}
  BY DEF CInv, TypeOK, Command, Kinds, Asks
<1>2. CASE cmd[u].pc = "second"
  <2>1. call[u].req = cmd[u].req /\ SecondRequest(cmd[u])
    BY <1>2, ZenonT(60) DEF CInv, Consistent, InOrder
  <2> QED
    BY <2>1 DEF SecondRequest
<1>3. CASE cmd[u].pc = "first"
  <2>1. FirstRequest(cmd[u], call[u].req)
    BY <1>3, ZenonT(60) DEF CInv, Consistent, InOrder
  <2> QED
    BY <1>1, <1>3, <2>1 DEF FirstRequest, LastAnswer
<1> QED
  BY <1>2, <1>3, ZenonT(60) DEF Asks

\* The codes the handlers answer with.
LEMMA AnswerCodes ==
  /\ 200 \in Codes /\ 201 \in Codes /\ 204 \in Codes /\ 400 \in Codes
  /\ 403 \in Codes /\ 404 \in Codes /\ 409 \in Codes /\ 500 \in Codes
BY SMTT(30) DEF Codes

\* A call whose handler has read a consumer's row is still a call for its request.
LEMMA ConsumerData ==
  ASSUME NEW c \in Call, NEW row \in Consumer
  PROVE  [c EXCEPT !.consumer = row] \in Call /\ [c EXCEPT !.consumer = row].req = c.req
BY ZenonT(60) DEF Call

-----------------------------------------------------------------------------
\* What the statuses are made into.
LEMMA ErrorSays ==
  ASSUME NEW op, NEW code \in Codes, code \in {400, 403, 500} \/ (op \notin RestOps /\ code >= 300)
  PROVE  /\ Says(op, code) # "done" /\ Says(op, code) # "notFound" /\ Says(op, code) # "exists"
         /\ code # 200
<1>1. code \in {400, 403, 500} =>
        /\ CreateConsumer(code) \in {"failed", "denied"} /\ GetConsumer(code) \in {"failed", "denied"}
        /\ UpdateConsumer(code) \in {"failed", "denied"} /\ DeleteConsumer(code) \in {"failed", "denied"}
        /\ GetResourceBundle(code) \in {"failed", "denied"}
        /\ DeleteResourceBundle(code) \in {"failed", "denied"}
        /\ PublishError(code) \in {"failed", "denied"}
  BY DEF CreateConsumer, GetConsumer, UpdateConsumer, DeleteConsumer, GetResourceBundle,
         DeleteResourceBundle, PublishError
<1>2. code >= 300 => PublishError(code) = "failed" /\ code # 200
  BY DEF PublishError, Codes
<1>3. op \notin RestOps => Says(op, code) = PublishError(code)
  BY DEF Says, RestOps
<1>4. code \in {400, 403, 500} => Says(op, code) \in {"failed", "denied"} /\ code # 200
  BY <1>1 DEF Says
<1> QED
  BY <1>2, <1>3, <1>4

LEMMA FoundSays ==
  /\ Says("ConsumersPost", 201) = "done" /\ Says("ConsumersPost", 409) = "exists"
  /\ Says("ConsumersIdGet", 200) = "done" /\ Says("ConsumersIdGet", 404) = "notFound"
  /\ Says("ConsumersIdPatch", 200) = "done" /\ Says("ConsumersIdPatch", 404) = "notFound"
  /\ Says("ConsumersIdPatch", 409) = "failed"
  /\ Says("ConsumersIdDelete", 204) = "done"
  /\ Says("ResourceBundlesIdGet", 200) = "done" /\ Says("ResourceBundlesIdGet", 404) = "notFound"
  /\ \A op \in PublishOps : Says(op, 200) = "done"
BY DEF Says, CreateConsumer, GetConsumer, UpdateConsumer, DeleteConsumer, GetResourceBundle,
       PublishError, PublishOps

-----------------------------------------------------------------------------
\* What makes a message true, by the kind of the command.
LEMMA CreateClaims ==
  ASSUME NEW c, NEW cs, NEW bs, c.kind = "create", NEW i \in ConsumerIds,
         cs[i].state = "row", cs[i].name = c.req.name
  PROVE  /\ Claim("exists", c, cs, bs)
         /\ cs[i].labels = c.req.labels => Claim("done", c, cs, bs)
BY DEF Claim

LEMMA UpdateClaims ==
  ASSUME NEW c, NEW cs, NEW bs, c.kind = "update"
  PROVE  /\ cs[c.req.id].state # "row" => Claim("notFound", c, cs, bs)
         /\ cs[c.req.id].state = "row" /\ Merged(cs[c.req.id].labels, c) = cs[c.req.id].labels =>
              Claim("done", c, cs, bs)
BY DEF Claim

LEMMA DeleteClaims ==
  ASSUME NEW c, NEW cs, NEW bs, c.kind = "delete", cs[c.req.id].state # "row"
  PROVE  Claim("done", c, cs, bs)
BY DEF Claim

LEMMA BundleClaims ==
  ASSUME NEW c, NEW cs, NEW bs, c.kind \in {"apply", "bundleDelete"}
  PROVE  /\ bs[c.req.id].state \notin {"live", "deleting"} => Claim("notFound", c, cs, bs)
         /\ bs[c.req.id].state \in {"live", "deleting"} /\ bs[c.req.id].version # c.req.version =>
              Claim("mismatch", c, cs, bs)
BY DEF Claim

LEMMA ApplyClaims ==
  ASSUME NEW c, NEW cs, NEW bs, c.kind = "apply", bs[c.req.id].state = "live",
         bs[c.req.id].payload = c.req.payload
  PROVE  Claim("done", c, cs, bs)
BY DEF Claim

LEMMA BundleDeleteClaims ==
  ASSUME NEW c, NEW cs, NEW bs, c.kind = "bundleDelete", bs[c.req.id].state # "live"
  PROVE  Claim("done", c, cs, bs)
BY DEF Claim

-----------------------------------------------------------------------------
(***************************************************************************)
(* The server's steps. A step of the server leaves the commands alone; it  *)
(* has to back the answer it leads to.                                     *)
(***************************************************************************)
Unasked == UNCHANGED <<cmd, commands>> /\ Observe

\* The users whose command and call stay as they are.
LEMMA OthersKept ==
  ASSUME CInv, NEW v \in Users, Observe, cmd'[v] = cmd[v], call'[v] = call[v]
  PROVE  Consistent(cmd'[v], call'[v], seen'[v])
<1> USE ZenonT(60)
<1>1. Consistent(cmd[v], call[v], seen[v]) /\ seen \in [Users -> SUBSET Messages]
  BY DEF CInv, TypeOK
<1>2. ASSUME cmd[v].pc \in {"first", "second"}, cmd[v].kind # "call"
      PROVE  Backed(cmd[v], call[v], seen'[v])
  <2>1. cmd[v].pc \in Active /\ cmd'[v].pc \in Active
    BY <1>2 DEF Active
  <2>2. Backed(cmd[v], call[v], seen[v])
    BY <1>1, <1>2 DEF Consistent
  <2> QED
    BY <2>1, <2>2, Observed, BackedGrows
<1>3. ASSUME cmd[v].pc = "done", cmd[v].kind # "call",
             cmd[v].says \in {"done", "notFound", "exists", "mismatch"}
      PROVE  cmd[v].says \in seen'[v]
  <2>1. seen'[v] = seen[v]
    BY <1>1, <1>3, SeenTyped
  <2> QED
    BY <1>1, <1>3, <2>1 DEF Consistent
<1>4. Consistent(cmd[v], call[v], seen'[v])
  BY <1>1, <1>2, <1>3 DEF Consistent
<1> QED
  BY <1>4

\* A step of one user keeps the invariant if it keeps what it says of this
\* user.
LEMMA OneUserSteps ==
  ASSUME CInv, RInv', Observe, NEW u \in Users,
         cmd' \in [Users -> Command], commands' \in 0..MaxCommands,
         \A v \in Users \ {u} : cmd'[v] = cmd[v] /\ call'[v] = call[v],
         Consistent(cmd'[u], call'[u], seen'[u])
  PROVE  CInv'
<1> USE ZenonT(60)
<1>1. TypeOK'
  BY SeenTyped DEF CInv, TypeOK, RInv
<1>2. ASSUME NEW v \in Users
      PROVE  Consistent(cmd'[v], call'[v], seen'[v])
  BY OthersKept
<1> QED
  BY <1>1, <1>2 DEF CInv

LEMMA ServerKeeps ==
  ASSUME CInv, RInv', Unasked, NEW u \in Users, call[u].pc # "idle", call'[u].pc # "idle",
         call'[u].req = call[u].req, \A v \in Users \ {u} : call'[v] = call[v],
         SavesPatch(call'[u]),
         Asks(u) => Backed(cmd[u], call'[u], seen'[u])
  PROVE  CInv'
<1> USE ZenonT(60)
<1>1. /\ cmd' = cmd /\ commands' = commands /\ Observe
      /\ cmd \in [Users -> Command] /\ commands \in 0..MaxCommands
      /\ seen \in [Users -> SUBSET Messages] /\ Consistent(cmd[u], call[u], seen[u])
  BY DEF Unasked, CInv, TypeOK
<1>2. InOrder(cmd[u], call'[u])
  <2>1. InOrder(cmd[u], call[u])
    BY <1>1 DEF Consistent
  <2> QED
    BY <2>1 DEF InOrder
<1>3. ASSUME cmd[u].pc = "done", cmd[u].kind # "call",
             cmd[u].says \in {"done", "notFound", "exists", "mismatch"}
      PROVE  cmd[u].says \in seen'[u]
  <2>1. seen'[u] = seen[u]
    BY <1>1, <1>3, SeenTyped
  <2> QED
    BY <1>1, <1>3, <2>1 DEF Consistent
<1>4. Consistent(cmd[u], call'[u], seen'[u])
  BY <1>2, <1>3 DEF Consistent, Asks
<1> QED
  BY <1>1, <1>4, OneUserSteps

\* A step to the next statement before the effect.
LEMMA MovesOn ==
  ASSUME CInv, RInv', Unasked, NEW u \in Users, call[u].pc \in Statements,
         call'[u].pc \in Statements \ {"event", "save"},
         call'[u].req = call[u].req, \A v \in Users \ {u} : call'[v] = call[v]
  PROVE  CInv'
<1> USE ZenonT(60)
<1>1. /\ call'[u].pc # "event" /\ call'[u].pc # "reply" /\ call'[u].pc # "save"
      /\ call[u].pc # "idle" /\ call'[u].pc # "idle"
  BY DEF Statements
<1>2. Backed(cmd[u], call'[u], seen'[u]) /\ SavesPatch(call'[u])
  BY <1>1 DEF Backed, SavesPatch
<1> QED
  BY <1>1, <1>2, ServerKeeps

\* The statement that makes the change.
LEMMA TakesEffect ==
  ASSUME CInv, RInv', Unasked, NEW u \in Users, call[u].pc \in Statements, Goto(u, "event"),
         Asks(u) =>
           Claim("done", cmd[u], consumers', bundles')
  PROVE  CInv'
<1> USE ZenonT(60)
<1>1. /\ call'[u].pc = "event" /\ call'[u].req = call[u].req
      /\ \A v \in Users \ {u} : call'[v] = call[v]
  BY GoesOn DEF CInv, Statements
<1>2. call[u].pc # "idle" /\ call'[u].pc # "idle" /\ SavesPatch(call'[u])
  BY <1>1 DEF Statements, SavesPatch
<1>3. ASSUME Asks(u)
      PROVE  Backed(cmd[u], call'[u], seen'[u])
  <2>1. Observe /\ cmd'[u] = cmd[u] /\ cmd[u].pc \in Active /\ "done" \in Messages
    BY <1>3 DEF Unasked, Active, Messages, Asks
  <2>2. "done" \in seen'[u]
    BY <1>3, <2>1, Observed
  <2> QED
    BY <1>1, <2>2 DEF Backed
<1> QED
  BY <1>1, <1>2, <1>3, ServerKeeps

\* The server answers, with what the call has read.
Answering(u, code, c) ==
  /\ call[u].pc \in Statements
  /\ code \in Codes /\ c \in Call /\ c.req = call[u].req
  /\ ReplyWith(u, code, c)

\* What the answer will make the command say is true now, or has been seen.
Truthful(u, code, c) ==
  Asks(u) =>
    /\ Says(call[u].req.op, code) = "done" =>
         \/ ~LastAnswer(cmd[u]) \/ "done" \in seen[u]
         \/ Claim("done", cmd[u], consumers', bundles')
    /\ Says(call[u].req.op, code) = "notFound" => Claim("notFound", cmd[u], consumers', bundles')
    /\ Says(call[u].req.op, code) = "exists" => Claim("exists", cmd[u], consumers', bundles')
    /\ call[u].req.op = "ResourceBundlesIdGet" /\ code = 200 /\ c.bundle.version # cmd[u].req.version =>
         Claim("mismatch", cmd[u], consumers', bundles')

LEMMA Answers ==
  ASSUME CInv, RInv', Unasked, NEW u \in Users, NEW code, NEW c,
         Answering(u, code, c), Truthful(u, code, c)
  PROVE  CInv'
<1> USE ZenonT(60)
<1>0. /\ call[u].pc \in Statements /\ code \in Codes /\ c \in Call /\ c.req = call[u].req
      /\ ReplyWith(u, code, c)
  BY DEF Answering
<1>1. /\ call'[u].pc = "reply" /\ call'[u].code = code /\ call'[u].req = call[u].req
      /\ \A v \in Users \ {u} : call'[v] = call[v]
  BY <1>0, RepliedWith DEF CInv
<1>2. call'[u].bundle = c.bundle
  <2>1. call \in [Users -> Call]
    BY DEF CInv, RInv, ApiTypeOK
  <2>2. call'[u] = [c EXCEPT !.pc = "reply", !.code = code]
    BY <1>0, <2>1 DEF ReplyWith, Becomes
  <2> QED
    BY <1>0, <2>2 DEF Call
<1>3. call[u].pc # "idle" /\ call'[u].pc # "idle" /\ SavesPatch(call'[u])
  BY <1>0, <1>1 DEF Statements, SavesPatch
<1>4. ASSUME Asks(u)
      PROVE  Backed(cmd[u], call'[u], seen'[u])
  <2>1. /\ Observe /\ cmd'[u] = cmd[u] /\ cmd[u].pc \in Active
        /\ {"done", "notFound", "exists", "mismatch"} \subseteq Messages
    BY <1>4 DEF Unasked, Active, Messages, Asks
  <2>2. /\ seen[u] \subseteq seen'[u]
        /\ \A m \in Messages : Claim(m, cmd[u], consumers', bundles') => m \in seen'[u]
    BY <2>1, Observed
  <2>3. Says(call[u].req.op, code) = "done" => ~LastAnswer(cmd[u]) \/ "done" \in seen'[u]
    BY <1>4, <2>1, <2>2 DEF Truthful
  <2>4. /\ Says(call[u].req.op, code) = "notFound" => "notFound" \in seen'[u]
        /\ Says(call[u].req.op, code) = "exists" => "exists" \in seen'[u]
    BY <1>4, <2>1, <2>2 DEF Truthful
  <2>5. call[u].req.op = "ResourceBundlesIdGet" /\ code = 200 /\ c.bundle.version # cmd[u].req.version =>
          "mismatch" \in seen'[u]
    BY <1>4, <2>1, <2>2 DEF Truthful
  <2> QED
    BY <1>1, <1>2, <2>3, <2>4, <2>5 DEF Backed
<1> QED
  BY <1>1, <1>3, <1>4, ServerKeeps

\* An error that a command reports as such claims nothing.
Failing(u, code) ==
  /\ call[u].pc \in Statements
  /\ code \in Codes /\ Reply(u, code)
  /\ code \in {400, 403, 500} \/ (call[u].req.op \notin RestOps /\ code >= 300)

LEMMA Fails ==
  ASSUME CInv, RInv', Unasked, NEW u \in Users, NEW code, Failing(u, code)
  PROVE  CInv'
<1> USE ZenonT(60)
<1>1. Answering(u, code, call[u])
  BY DEF CInv, RInv, ApiTypeOK, Reply, Failing, Answering
<1>2. /\ Says(call[u].req.op, code) # "done" /\ Says(call[u].req.op, code) # "notFound"
      /\ Says(call[u].req.op, code) # "exists" /\ code # 200
  BY ErrorSays, SMTT(30) DEF Failing
<1>3. Truthful(u, code, call[u])
  BY <1>2 DEF Truthful
<1> QED
  BY <1>1, <1>3, Answers

\* All that publish makes of an error is that the command has failed.
LEMMA PublishFails ==
  ASSUME CInv, RInv', Unasked, NEW u \in Users, call[u].pc \in Statements,
         call[u].req.op \in PublishOps, NEW code \in {400, 404, 409, 500}, Reply(u, code)
  PROVE  CInv'
<1>1. code \in Codes /\ code >= 300
  BY DEF Codes
<1>2. call[u].req.op \notin RestOps
  BY DEF PublishOps, RestOps
<1>3. Failing(u, code)
  BY <1>1, <1>2, ZenonT(60) DEF Failing
<1> QED
  BY <1>3, Fails, ZenonT(60)

LEMMA StatementFailsAnswers ==
  ASSUME CInv, RInv', Unasked, NEW u \in Users, StatementFails(u)
  PROVE  CInv'
<1> USE ZenonT(60)
<1>1. Failing(u, 500)
  BY AnswerCodes DEF StatementFails, Failing
<1> QED
  BY <1>1, Fails

LEMMA HandleRestAnswers ==
  ASSUME CInv, RInv', Unasked, NEW u \in Users, HandleRest(u)
  PROVE  CInv'
<1> USE ZenonT(60)
<1>1. call[u].pc \in Statements
  BY DEF HandleRest, Statements
<1>2. Reply(u, 400) \/ Goto(u, Route(call[u].req.op))
  BY DEF HandleRest, Handle, HandleGet, HandleDelete
<1>3. CASE Reply(u, 400)
  <2>1. Failing(u, 400)
    BY <1>1, <1>3, AnswerCodes DEF Failing
  <2> QED
    BY <2>1, Fails
<1>4. CASE Goto(u, Route(call[u].req.op))
  <2>1. Route(call[u].req.op) \in Statements \ {"event", "save"}
    BY SMTT(30) DEF Route, Statements
  <2> QED
    BY <1>1, <1>4, <2>1, GoesOn, MovesOn DEF CInv
<1> QED
  BY <1>2, <1>3, <1>4, SMTT(30)

LEMMA HandlePublishAnswers ==
  ASSUME CInv, RInv', Unasked, NEW u \in Users, HandlePublish(u)
  PROVE  CInv'
<1>1. call[u].pc \in Statements
  BY ZenonT(60) DEF HandlePublish, Statements
<1>2. \/ Reply(u, 403) \/ Reply(u, 400) \/ Goto(u, "insert") \/ Goto(u, "get") \/ Goto(u, "lock")
  BY DEF HandlePublish, PublishOps
<1>3. CASE Reply(u, 400) \/ Reply(u, 403)
  <2>1. PICK code \in {400, 403} : Reply(u, code)
    BY <1>3, SMTT(30)
  <2>2. code \in Codes /\ code \in {400, 403, 500}
    BY SMTT(30) DEF Codes
  <2>3. Failing(u, code)
    BY <1>1, <2>1, <2>2, SMTT(30) DEF Failing
  <2> QED
    BY <2>3, Fails, ZenonT(60)
<1>4. CASE Goto(u, "insert") \/ Goto(u, "get") \/ Goto(u, "lock")
  <2>1. {"insert", "get", "lock"} \subseteq Statements \ {"event", "save"}
    BY DEF Statements
  <2> QED
    BY <1>1, <1>4, <2>1, GoesOn, MovesOn, ZenonT(60) DEF CInv
<1> QED
  BY <1>2, <1>3, <1>4

\* A consumer is created under its name, or there is one of this name.
LEMMA ConsumerCreateAnswers ==
  ASSUME CInv, RInv', Unasked, NEW u \in Users, ConsumerCreate(u)
  PROVE  CInv'
<1> USE ZenonT(60)
<1> DEFINE req == call[u].req
<1>1. /\ call[u].pc \in Statements /\ call[u] \in Call /\ req.op = "ConsumersPost"
      /\ 201 \in Codes /\ 409 \in Codes /\ 500 \in Codes /\ consumers \in [ConsumerIds -> Consumer]
  BY AnswerCodes DEF ConsumerCreate, Statements, CInv, RInv, ApiTypeOK
<1>2. ASSUME Asks(u), NEW id
      PROVE  cmd[u].kind = "create" /\ cmd[u].req = req /\ NameOf(id, req.name) = req.name
  <2>1. cmd[u].kind = "create" /\ cmd[u].req = req /\ req.name \in Names
    BY <1>1, <1>2, KindOfCall
  <2> QED
    BY <2>1, ApiAssumption DEF NameOf
<1>3. CASE Reply(u, HandleCreateError("invalidName"))
  <2>1. Reply(u, 500)
    BY <1>3 DEF HandleCreateError
  <2>2. Failing(u, 500)
    BY <1>1, <2>1 DEF Failing
  <2> QED
    BY <2>2, Fails
<1>4. ASSUME NEW id \in ConsumerIds, Rows(NameOf(id, req.name)) # {},
             Reply(u, HandleCreateError("uniqueConstraint")), UNCHANGED consumers
      PROVE  CInv'
  <2>1. ReplyWith(u, 409, call[u])
    BY <1>4 DEF HandleCreateError, Reply
  <2>2. PICK i \in ConsumerIds : consumers[i].state = "row" /\ consumers[i].name = NameOf(id, req.name)
    BY <1>4 DEF Rows
  <2>3. Asks(u) => Claim("exists", cmd[u], consumers', bundles')
    BY <1>2, <1>4, <2>2, CreateClaims
  <2>4. Says(req.op, 409) = "exists"
    BY <1>1, FoundSays, SMTT(30)
  <2>a. Answering(u, 409, call[u])
    BY <1>1, <2>1, <2>3, <2>4 DEF Answering
  <2>t. Truthful(u, 409, call[u])
    BY <1>1, <2>1, <2>3, <2>4 DEF Truthful
  <2> QED
    BY <2>a, <2>t, Answers
<1>5. ASSUME NEW id \in ConsumerIds,
             consumers' = [consumers EXCEPT ![id] = [state |-> "row", name |-> NameOf(id, req.name),
                                                     labels |-> req.labels]],
             ReplyWith(u, 201, [call[u] EXCEPT !.consumer = consumers'[id]])
      PROVE  CInv'
  <2>1. /\ consumers'[id].state = "row" /\ consumers'[id].name = NameOf(id, req.name)
        /\ consumers'[id].labels = req.labels /\ consumers'[id] \in Consumer
    <3>1. consumers'[id] = [state |-> "row", name |-> NameOf(id, req.name), labels |-> req.labels]
      BY <1>1, <1>5
    <3>2. consumers' \in [ConsumerIds -> Consumer]
      BY DEF RInv, ApiTypeOK
    <3>3. consumers'[id] \in Consumer
      BY <3>2
    <3>4. /\ consumers'[id].state = "row" /\ consumers'[id].name = NameOf(id, req.name)
          /\ consumers'[id].labels = req.labels
      BY <3>1, SMTT(30)
    <3> QED
      BY <3>3, <3>4
  <2>2. Asks(u) => Claim("done", cmd[u], consumers', bundles')
    BY <1>2, <2>1, CreateClaims
  <2>3. Says(req.op, 201) = "done"
    BY <1>1, FoundSays, SMTT(30)
  <2> DEFINE c == [call[u] EXCEPT !.consumer = consumers'[id]]
  <2>4. c \in Call /\ c.req = req
    BY <1>1, <2>1, ConsumerData
  <2>5. ReplyWith(u, 201, c)
    BY <1>5, SMTT(30)
  <2> HIDE DEF c
  <2>a. Answering(u, 201, c)
    BY <1>1, <2>2, <2>3, <2>4, <2>5 DEF Answering
  <2>t. Truthful(u, 201, c)
    BY <1>1, <2>2, <2>3, <2>4, <2>5 DEF Truthful
  <2> QED
    BY <2>a, <2>t, Answers
<1> QED
  BY <1>3, <1>4, <1>5 DEF ConsumerCreate

LEMMA ConsumerGetAnswers ==
  ASSUME CInv, RInv', Unasked, NEW u \in Users, ConsumerGet(u)
  PROVE  CInv'
<1> USE ZenonT(60)
<1> DEFINE req == call[u].req
           found == consumers[req.id]
<1>1. /\ call[u].pc \in Statements /\ call[u] \in Call /\ req.op = "ConsumersIdGet"
      /\ 200 \in Codes /\ 404 \in Codes /\ consumers' = consumers
  BY AnswerCodes DEF ConsumerGet, Statements, CInv, RInv, ApiTypeOK
<1>2. Asks(u) => cmd[u].kind = "update" /\ cmd[u].req.id = req.id /\ ~LastAnswer(cmd[u])
  BY <1>1, KindOfCall
<1>3. Says(req.op, 200) = "done" /\ Says(req.op, 404) = "notFound"
  BY <1>1, FoundSays, SMTT(30)
<1>4. CASE found.state # "row" /\ Reply(u, HandleGetError("recordNotFound"))
  <2>1. ReplyWith(u, 404, call[u])
    BY <1>4 DEF HandleGetError, Reply
  <2>2. Asks(u) => Claim("notFound", cmd[u], consumers', bundles')
    BY <1>1, <1>2, <1>4, UpdateClaims
  <2>a. Answering(u, 404, call[u])
    BY <1>1, <1>3, <2>1, <2>2 DEF Answering
  <2>t. Truthful(u, 404, call[u])
    BY <1>1, <1>3, <2>1, <2>2 DEF Truthful
  <2> QED
    BY <2>a, <2>t, Answers
<1>5. CASE ReplyWith(u, 200, [call[u] EXCEPT !.consumer = found])
  <2>1. req.id \in ConsumerIds /\ consumers \in [ConsumerIds -> Consumer]
    BY <1>1 DEF CInv, RInv, ApiTypeOK, CallsInOrder, WellFormed, Statements
  <2> DEFINE c == [call[u] EXCEPT !.consumer = found]
  <2>2. c \in Call /\ c.req = req
    BY <1>1, <2>1 DEF Call
  <2>3. ReplyWith(u, 200, c)
    BY <1>5, SMTT(30)
  <2> HIDE DEF c, found
  <2>a. Answering(u, 200, c)
    BY <1>1, <1>2, <1>3, <2>2, <2>3 DEF Answering
  <2>t. Truthful(u, 200, c)
    BY <1>1, <1>2, <1>3, <2>2, <2>3 DEF Truthful
  <2> QED
    BY <2>a, <2>t, Answers
<1> QED
  BY <1>4, <1>5 DEF ConsumerGet

\* A patch reads the row, and what it is about to save has its labels.
LEMMA ConsumerPatchAnswers ==
  ASSUME CInv, RInv', Unasked, NEW u \in Users, ConsumerPatch(u)
  PROVE  CInv'
<1> USE ZenonT(60)
<1> DEFINE req == call[u].req
           found == consumers[req.id]
           new == IF req.nil THEN found ELSE [found EXCEPT !.labels = req.labels]
<1>1. /\ call[u].pc \in Statements /\ call[u] \in Call /\ req.op = "ConsumersIdPatch"
      /\ 404 \in Codes /\ consumers' = consumers /\ call \in [Users -> Call]
  BY AnswerCodes DEF ConsumerPatch, Statements, CInv, RInv, ApiTypeOK
<1>2. CASE found.state # "row" /\ Reply(u, HandleGetError("recordNotFound"))
  <2>1. ReplyWith(u, 404, call[u])
    BY <1>2 DEF HandleGetError, Reply
  <2>2. Asks(u) => cmd[u].kind = "update" /\ cmd[u].req.id = req.id
    BY <1>1, KindOfCall
  <2>3. Asks(u) => Claim("notFound", cmd[u], consumers', bundles')
    BY <1>1, <1>2, <2>2, UpdateClaims
  <2>4. Says(req.op, 404) = "notFound"
    BY <1>1, FoundSays, SMTT(30)
  <2>a. Answering(u, 404, call[u])
    BY <1>1, <2>1, <2>3, <2>4 DEF Answering
  <2>t. Truthful(u, 404, call[u])
    BY <1>1, <2>1, <2>3, <2>4 DEF Truthful
  <2> QED
    BY <2>a, <2>t, Answers
<1>3. CASE found.state = "row" /\ Becomes(u, [call[u] EXCEPT !.pc = "save", !.consumer = new])
  <2>1. req.id \in ConsumerIds /\ found \in Consumer
    <3>1. req.id \in ConsumerIds /\ consumers \in [ConsumerIds -> Consumer]
      BY <1>1 DEF CInv, RInv, ApiTypeOK, CallsInOrder, WellFormed, Statements
    <3> QED
      BY <3>1
  <2>2. new.state = "row" /\ (req.nil \/ new.labels = req.labels)
    BY <1>3, <2>1 DEF Consumer
  <2> HIDE DEF new
  <2>3. call'[u] = [call[u] EXCEPT !.pc = "save", !.consumer = new]
        /\ \A v \in Users \ {u} : call'[v] = call[v]
    BY <1>1, <1>3 DEF Becomes
  <2>4. call'[u].pc = "save" /\ call'[u].req = req /\ call'[u].consumer = new
    BY <1>1, <2>3 DEF Call
  <2>5. Backed(cmd[u], call'[u], seen'[u])
    BY <2>4 DEF Backed
  <2>6. call[u].pc # "idle" /\ call'[u].pc # "idle" /\ SavesPatch(call'[u])
    BY <1>1, <2>2, <2>4 DEF Statements, SavesPatch
  <2> QED
    BY <1>1, <2>3, <2>4, <2>5, <2>6, ServerKeeps
<1> QED
  BY <1>2, <1>3 DEF ConsumerPatch

\* The row that is saved has the labels that the update has merged.
LEMMA ConsumerReplaceAnswers ==
  ASSUME CInv, RInv', Unasked, NEW u \in Users, ConsumerReplace(u)
  PROVE  CInv'
<1> USE ZenonT(60)
<1> DEFINE req == call[u].req
           new == call[u].consumer
<1>1. /\ call[u].pc = "save" /\ call[u].pc \in Statements /\ call[u] \in Call
      /\ 200 \in Codes /\ 409 \in Codes /\ consumers \in [ConsumerIds -> Consumer]
  BY AnswerCodes DEF ConsumerReplace, Statements, CInv, RInv, ApiTypeOK
<1>2. req.op = "ConsumersIdPatch" /\ new.state = "row" /\ (req.nil \/ new.labels = req.labels)
  BY <1>1 DEF CInv, Consistent, SavesPatch
<1>3. Asks(u) => /\ cmd[u].kind = "update" /\ cmd[u].req = req /\ ~req.nil
              /\ Merged(req.labels, cmd[u]) = req.labels
  BY <1>2, KindOfCall
<1>4. Says(req.op, 200) = "done" /\ Says(req.op, 409) = "failed"
  BY <1>2, FoundSays, SMTT(30)
<1>5. CASE Reply(u, HandleUpdateError("uniqueConstraint"))
  <2>1. ReplyWith(u, 409, call[u])
    BY <1>5 DEF HandleUpdateError, Reply
  <2>a. Answering(u, 409, call[u])
    BY <1>1, <1>2, <1>4, <2>1 DEF Answering
  <2>t. Truthful(u, 409, call[u])
    BY <1>1, <1>2, <1>4, <2>1 DEF Truthful
  <2> QED
    BY <2>a, <2>t, Answers
<1>6. CASE Reply(u, 200) /\ consumers' = [consumers EXCEPT ![req.id] = new]
  <2>1. req.id \in ConsumerIds
    BY <1>1, <1>2 DEF CInv, RInv, CallsInOrder, WellFormed
  <2>2. consumers'[req.id] = new
    BY <1>1, <1>6, <2>1
  <2>3. Asks(u) => Claim("done", cmd[u], consumers', bundles')
    BY <1>2, <1>3, <2>2, UpdateClaims
  <2>4. ReplyWith(u, 200, call[u])
    BY <1>6, SMTT(30) DEF Reply
  <2>a. Answering(u, 200, call[u])
    BY <1>1, <1>2, <1>4, <2>3, <2>4 DEF Answering
  <2>t. Truthful(u, 200, call[u])
    BY <1>1, <1>2, <1>4, <2>3, <2>4 DEF Truthful
  <2> QED
    BY <2>a, <2>t, Answers
<1> QED
  BY <1>5, <1>6 DEF ConsumerReplace

LEMMA ConsumerDeleteAnswers ==
  ASSUME CInv, RInv', Unasked, NEW u \in Users, ConsumerDelete(u)
  PROVE  CInv'
<1> USE ZenonT(60)
<1> DEFINE req == call[u].req
<1>1. /\ call[u].pc \in Statements /\ call[u] \in Call /\ req.op = "ConsumersIdDelete"
      /\ 204 \in Codes /\ 403 \in Codes /\ consumers \in [ConsumerIds -> Consumer] /\ req.id \in ConsumerIds
  BY AnswerCodes DEF ConsumerDelete, Statements, CInv, RInv, ApiTypeOK, CallsInOrder, WellFormed
<1>2. CASE Reply(u, HandleDeleteError("foreignKeyConstraint"))
  <2>1. Reply(u, 403)
    BY <1>2 DEF HandleDeleteError
  <2>2. Failing(u, 403)
    BY <1>1, <2>1 DEF Failing
  <2> QED
    BY <2>2, Fails
<1>3. CASE /\ Reply(u, 204)
           /\ consumers' = IF consumers[req.id].state = "row"
                           THEN [consumers EXCEPT ![req.id].state = "gone"] ELSE consumers
  <2>1. consumers'[req.id].state # "row"
    <3>1. CASE consumers[req.id].state = "row"
      BY <1>1, <1>3, <3>1, SMTT(30) DEF Consumer
    <3>2. CASE consumers[req.id].state # "row"
      BY <1>3, <3>2
    <3> QED
      BY <3>1, <3>2, SMTT(30)
  <2>2. Asks(u) => cmd[u].kind = "delete" /\ cmd[u].req = req
    BY <1>1, KindOfCall
  <2>3. Asks(u) => Claim("done", cmd[u], consumers', bundles')
    BY <2>1, <2>2, DeleteClaims
  <2>4. Says(req.op, 204) = "done"
    BY <1>1, FoundSays, SMTT(30)
  <2>5. ReplyWith(u, 204, call[u])
    BY <1>3, SMTT(30) DEF Reply
  <2>a. Answering(u, 204, call[u])
    BY <1>1, <2>3, <2>4, <2>5 DEF Answering
  <2>t. Truthful(u, 204, call[u])
    BY <1>1, <2>3, <2>4, <2>5 DEF Truthful
  <2> QED
    BY <2>a, <2>t, Answers
<1> QED
  BY <1>2, <1>3 DEF ConsumerDelete

\* The rows of bundles that calls are about.
LEMMA RowOfCall ==
  ASSUME RInv, NEW u \in Users, call[u].pc # "idle",
         call[u].req.op \in PublishOps \union Deletes \union {"ResourceBundlesIdGet"}
  PROVE  call[u].req.id \in BundleIds /\ bundles[call[u].req.id] \in Bundle /\ call[u] \in Call
         /\ bundles \in [BundleIds -> Bundle]
<1> USE ZenonT(60)
<1>1. call[u].req.id \in BundleIds
  BY DEF RInv, CallsInOrder, WellFormed
<1> QED
  BY <1>1 DEF RInv, ApiTypeOK

LEMMA BundleCreateAnswers ==
  ASSUME CInv, RInv', Unasked, NEW u \in Users, BundleCreate(u)
  PROVE  CInv'
<1> USE ZenonT(60)
<1> DEFINE req == call[u].req
           new == [state |-> "live", consumer |-> req.name, version |-> FirstVersion(req.version),
                   payload |-> req.payload]
<1>1. /\ call[u].pc \in Statements /\ call[u].pc # "idle" /\ req.op = "create_request"
      /\ req.op \in PublishOps /\ 409 \in Codes /\ 500 \in Codes
  BY AnswerCodes DEF BundleCreate, Statements, PublishOps
<1>2. req.id \in BundleIds /\ bundles \in [BundleIds -> Bundle]
  BY <1>1, RowOfCall DEF CInv
<1>3. \/ Reply(u, HandleCreateError("uniqueConstraint")) \/ Reply(u, HandleCreateError("foreignKeyConstraint"))
      \/ bundles' = [bundles EXCEPT ![req.id] = new] /\ Goto(u, "event")
  BY SMTT(30) DEF BundleCreate
<1>4. CASE \/ Reply(u, HandleCreateError("uniqueConstraint"))
           \/ Reply(u, HandleCreateError("foreignKeyConstraint"))
  <2>1. PICK code \in {400, 404, 409, 500} : Reply(u, code)
    BY <1>4, SMTT(30) DEF HandleCreateError
  <2> QED
    BY <1>1, <2>1, PublishFails, SMTT(30)
<1>5. CASE bundles' = [bundles EXCEPT ![req.id] = new] /\ Goto(u, "event")
  <2>1. bundles'[req.id] = new
    BY <1>2, <1>5
  <2>2. bundles'[req.id].state = "live" /\ bundles'[req.id].payload = req.payload
    BY <2>1, SMTT(30)
  <2>3. Asks(u) => cmd[u].kind = "apply" /\ cmd[u].req = req
    BY <1>1, KindOfCall
  <2>4. Asks(u) => Claim("done", cmd[u], consumers', bundles')
    BY <2>2, <2>3, ApplyClaims
  <2> QED
    BY <1>1, <1>5, <2>4, TakesEffect
<1> QED
  BY <1>3, <1>4, <1>5

\* What apply and delete have read of the bundle was so, the version as well.
LEMMA BundleGetAnswers ==
  ASSUME CInv, RInv', Unasked, NEW u \in Users, BundleGet(u)
  PROVE  CInv'
<1> USE ZenonT(60)
<1> DEFINE req == call[u].req
           found == bundles[req.id]
<1>1. /\ call[u].pc \in Statements /\ call[u].pc # "idle" /\ req.op = "ResourceBundlesIdGet"
      /\ 200 \in Codes /\ 404 \in Codes /\ bundles' = bundles
  BY AnswerCodes DEF BundleGet, Statements
<1>2. found \in Bundle /\ call[u] \in Call
  BY <1>1, RowOfCall DEF CInv
<1>3. Asks(u) => /\ cmd[u].kind \in {"apply", "bundleDelete"} /\ cmd[u].req.id = req.id
              /\ ~LastAnswer(cmd[u])
  BY <1>1, KindOfCall
<1>4. Says(req.op, 200) = "done" /\ Says(req.op, 404) = "notFound"
  BY <1>1, FoundSays, SMTT(30)
<1>5. CASE found.state \notin {"live", "deleting"} /\ Reply(u, HandleGetError("recordNotFound"))
  <2>1. ReplyWith(u, 404, call[u])
    BY <1>5 DEF HandleGetError, Reply
  <2>2. Asks(u) => Claim("notFound", cmd[u], consumers', bundles')
    BY <1>1, <1>3, <1>5, BundleClaims, SMTT(30)
  <2>3. 404 # 200
    BY SMTT(30)
  <2>a. Answering(u, 404, call[u])
    BY <1>1, <1>2, <1>4, <2>1, <2>2, <2>3 DEF Answering
  <2>t. Truthful(u, 404, call[u])
    BY <1>1, <1>2, <1>4, <2>1, <2>2, <2>3 DEF Truthful
  <2> QED
    BY <2>a, <2>t, Answers
<1>6. CASE found.state \in {"live", "deleting"} /\ ReplyWith(u, 200, [call[u] EXCEPT !.bundle = found])
  <2> DEFINE c == [call[u] EXCEPT !.bundle = found]
  <2>1. c \in Call /\ c.req = req /\ c.bundle = found
    BY <1>2 DEF Call
  <2>2. ReplyWith(u, 200, c)
    BY <1>6, SMTT(30)
  <2> HIDE DEF c
  <2>3. Asks(u) /\ c.bundle.version # cmd[u].req.version => Claim("mismatch", cmd[u], consumers', bundles')
    BY <1>1, <1>3, <1>6, <2>1, BundleClaims, SMTT(30)
  <2>a. Answering(u, 200, c)
    BY <1>1, <1>3, <1>4, <2>1, <2>2, <2>3 DEF Answering
  <2>t. Truthful(u, 200, c)
    BY <1>1, <1>3, <1>4, <2>1, <2>2, <2>3 DEF Truthful
  <2> QED
    BY <2>a, <2>t, Answers
<1> QED
  BY <1>5, <1>6 DEF BundleGet

LEMMA PublishGetAnswers ==
  ASSUME CInv, RInv', Unasked, NEW u \in Users, PublishGet(u)
  PROVE  CInv'
<1> USE ZenonT(60)
<1> DEFINE c == [call[u] EXCEPT !.pc = "lock",
                                !.version = IF @ = 0 THEN bundles[call[u].req.id].version ELSE @]
<1>1. /\ call[u].pc \in Statements /\ call[u] \in Call /\ call \in [Users -> Call]
      /\ call[u].req.op = "update_request" /\ 404 \in Codes
  BY AnswerCodes DEF PublishGet, Statements, CInv, RInv, ApiTypeOK
<1>2. Reply(u, HandleGetError("recordNotFound")) \/ Becomes(u, c)
  BY DEF PublishGet
<1>3. CASE Reply(u, HandleGetError("recordNotFound"))
  <2>1. PICK code \in {400, 404, 409, 500} : Reply(u, code)
    BY <1>3, SMTT(30) DEF HandleGetError
  <2> QED
    BY <1>1, <2>1, PublishFails, SMTT(30) DEF PublishOps
<1>4. CASE Becomes(u, c)
  <2>1. c.pc = "lock" /\ c.req = call[u].req
    BY <1>1 DEF Call
  <2> HIDE DEF c
  <2>2. call'[u] = c /\ \A v \in Users \ {u} : call'[v] = call[v]
    BY <1>1, <1>4 DEF Becomes
  <2>3. "lock" \in Statements \ {"event", "save"}
    BY SMTT(30) DEF Statements
  <2> QED
    BY <1>1, <2>1, <2>2, <2>3, MovesOn
<1> QED
  BY <1>2, <1>3, <1>4, SMTT(30)

LEMMA LockAnswers ==
  ASSUME CInv, RInv', Unasked, NEW u \in Users, Lock(u)
  PROVE  CInv'
<1>1. call[u].pc \in Statements /\ Goto(u, "read") /\ "read" \in Statements \ {"event", "save"}
  BY DEF Lock, Statements
<1> QED
  BY <1>1, GoesOn, MovesOn, ZenonT(60) DEF CInv

\* An update that is not needed finds what it was to write.
LEMMA UpdateReadAnswers ==
  ASSUME CInv, RInv', Unasked, NEW u \in Users, UpdateRead(u)
  PROVE  CInv'
<1> USE ZenonT(60)
<1> DEFINE req == call[u].req
           found == bundles[req.id]
<1>1. /\ call[u].pc \in Statements /\ call[u].pc # "idle" /\ req.op = "update_request"
      /\ req.op \in PublishOps /\ 200 \in Codes /\ bundles' = bundles /\ call[u] \in Call
  <2>1. call[u].pc = "read" /\ req.op = "update_request" /\ bundles' = bundles
    BY DEF UpdateRead
  <2>2. call[u] \in Call /\ 200 \in Codes
    BY AnswerCodes DEF CInv, RInv, ApiTypeOK
  <2> QED
    BY <2>1, <2>2 DEF Statements, PublishOps
<1>2. found.state \in {"none", "live", "deleting", "gone"}
  <2>1. found \in Bundle
    BY <1>1, RowOfCall DEF CInv
  <2> QED
    BY <2>1 DEF Bundle
<1>3. \/ Reply(u, HandleGetError("recordNotFound")) \/ Reply(u, 409) \/ Reply(u, 400)
      \/ Goto(u, "write")
      \/ found.state = "live" /\ DeepEqual(req.payload, found.payload) /\ Reply(u, 200)
  BY <1>2, SMTT(30) DEF UpdateRead
<1>4. CASE Reply(u, HandleGetError("recordNotFound")) \/ Reply(u, 409) \/ Reply(u, 400)
  <2>1. PICK code \in {400, 404, 409, 500} : Reply(u, code)
    BY <1>4, SMTT(30) DEF HandleGetError
  <2> QED
    BY <1>1, <2>1, PublishFails, SMTT(30)
<1>5. CASE Goto(u, "write")
  <2>1. "write" \in Statements \ {"event", "save"}
    BY SMTT(30) DEF Statements
  <2> QED
    BY <1>1, <1>5, <2>1, GoesOn, MovesOn DEF CInv
<1>6. CASE found.state = "live" /\ DeepEqual(req.payload, found.payload) /\ Reply(u, 200)
  <2>1. Asks(u) => cmd[u].kind = "apply" /\ cmd[u].req = req
    BY <1>1, KindOfCall
  <2>2. found.payload = req.payload
    BY <1>6 DEF DeepEqual
  <2>3. Asks(u) => Claim("done", cmd[u], consumers', bundles')
    BY <1>1, <1>6, <2>1, <2>2, ApplyClaims
  <2>4. Says(req.op, 200) = "done" /\ ReplyWith(u, 200, call[u]) /\ req.op # "ResourceBundlesIdGet"
    BY <1>1, <1>6, FoundSays, SMTT(30) DEF Reply
  <2>a. Answering(u, 200, call[u])
    BY <1>1, <2>3, <2>4 DEF Answering
  <2>t. Truthful(u, 200, call[u])
    BY <1>1, <2>3, <2>4 DEF Truthful
  <2> QED
    BY <2>a, <2>t, Answers
<1> QED
  BY <1>3, <1>4, <1>5, <1>6

\* The writes hit the row, which is as the call has read it.
LEMMA UpdateWriteAnswers ==
  ASSUME CInv, RInv', Unasked, NEW u \in Users, UpdateWrite(u)
  PROVE  CInv'
<1> USE ZenonT(60)
<1> DEFINE req == call[u].req
           new == [bundles[req.id] EXCEPT !.version = call[u].version + 1, !.payload = req.payload]
<1>1. /\ call[u].pc = "write" /\ call[u].pc \in Statements /\ call[u].pc # "idle"
      /\ req.op = "update_request" /\ req.op \in PublishOps /\ Goto(u, "event")
  BY DEF UpdateWrite, Statements, PublishOps
<1>2. req.id \in BundleIds /\ bundles[req.id] \in Bundle /\ bundles \in [BundleIds -> Bundle]
  BY <1>1, RowOfCall DEF CInv
<1>3. bundles[req.id].state = "live"
  BY <1>1 DEF CInv, RInv, LockedCalls
<1>4. bundles' = [bundles EXCEPT ![req.id] = new]
  BY <1>3, SMTT(30) DEF UpdateWrite
<1>5. bundles'[req.id] = new
  BY <1>2, <1>4
<1>6. bundles'[req.id].state = "live" /\ bundles'[req.id].payload = req.payload
  BY <1>2, <1>3, <1>5 DEF Bundle
<1>7. Asks(u) => cmd[u].kind = "apply" /\ cmd[u].req = req
  BY <1>1, KindOfCall
<1>8. Asks(u) => Claim("done", cmd[u], consumers', bundles')
  BY <1>6, <1>7, ApplyClaims
<1> QED
  BY <1>1, <1>8, TakesEffect

LEMMA SoftDeleteAnswers ==
  ASSUME CInv, RInv', Unasked, NEW u \in Users, SoftDelete(u)
  PROVE  CInv'
<1> USE ZenonT(60)
<1> DEFINE req == call[u].req
           new == [bundles[req.id] EXCEPT !.state = "deleting"]
<1>1. /\ call[u].pc = "write" /\ call[u].pc \in Statements /\ call[u].pc # "idle"
      /\ req.op \in {"delete_request", "ResourceBundlesIdDelete"} /\ req.op \in Deletes /\ Goto(u, "event")
  BY DEF SoftDelete, Statements, Deletes
<1>2. req.id \in BundleIds /\ bundles[req.id] \in Bundle /\ bundles \in [BundleIds -> Bundle]
  BY <1>1, RowOfCall DEF CInv
<1>3. bundles[req.id].state = "live"
  BY <1>1 DEF CInv, RInv, LockedCalls
<1>4. bundles' = [bundles EXCEPT ![req.id] = new]
  BY <1>3, SMTT(30) DEF SoftDelete
<1>5. bundles'[req.id] = new
  BY <1>2, <1>4
<1>6. bundles'[req.id].state # "live"
  BY <1>2, <1>5, SMTT(30) DEF Bundle
<1>7. Asks(u) => cmd[u].kind = "bundleDelete" /\ cmd[u].req = req
  BY <1>1, KindOfCall
<1>8. Asks(u) => Claim("done", cmd[u], consumers', bundles')
  BY <1>6, <1>7, BundleDeleteClaims
<1> QED
  BY <1>1, <1>8, TakesEffect

LEMMA MarkAsDeletingAnswers ==
  ASSUME CInv, RInv', Unasked, NEW u \in Users, MarkAsDeleting(u)
  PROVE  CInv'
<1> USE ZenonT(60)
<1> DEFINE req == call[u].req
<1>1. /\ call[u].pc \in Statements /\ call[u] \in Call /\ bundles' = bundles
      /\ req.op \in {"delete_request", "ResourceBundlesIdDelete"} /\ 200 \in Codes /\ 204 \in Codes
  BY AnswerCodes DEF MarkAsDeleting, Statements, Deletes, CInv, RInv, ApiTypeOK
<1>2. Asks(u) => cmd[u].kind = "bundleDelete" /\ cmd[u].req = req /\ req.op = "delete_request"
  BY <1>1, KindOfCall
<1>3. bundles[req.id].state # "live" => (Asks(u) => Claim("done", cmd[u], consumers', bundles'))
  BY <1>1, <1>2, BundleDeleteClaims
<1>4. CASE bundles[req.id].state # "live" /\ Reply(u, Success(req.op))
  <2>1. Success(req.op) \in Codes /\ (req.op = "delete_request" => Success(req.op) = 200)
    BY <1>1 DEF Success
  <2>2. Asks(u) => Says(req.op, Success(req.op)) = "done"
    BY <1>2, <2>1, FoundSays, SMTT(30) DEF PublishOps
  <2>3. ReplyWith(u, Success(req.op), call[u]) /\ req.op # "ResourceBundlesIdGet"
    BY <1>1, <1>4 DEF Reply
  <2>a. Answering(u, Success(req.op), call[u])
    BY <1>1, <1>3, <1>4, <2>1, <2>2, <2>3 DEF Answering
  <2>t. Truthful(u, Success(req.op), call[u])
    BY <1>1, <1>3, <1>4, <2>1, <2>2, <2>3 DEF Truthful
  <2> QED
    BY <2>a, <2>t, Answers
<1>5. CASE bundles[req.id].state = "deleting" /\ Goto(u, "event")
  BY <1>1, <1>3, <1>5, TakesEffect
<1>6. CASE Goto(u, "write")
  <2>1. "write" \in Statements \ {"event", "save"}
    BY SMTT(30) DEF Statements
  <2> QED
    BY <1>1, <1>6, <2>1, GoesOn, MovesOn DEF CInv
<1> QED
  BY <1>4, <1>5, <1>6 DEF MarkAsDeleting

LEMMA InsertEventAnswers ==
  ASSUME CInv, RInv', Unasked, NEW u \in Users, InsertEvent(u)
  PROVE  CInv'
<1> USE ZenonT(60)
<1> DEFINE op == call[u].req.op
<1>1. /\ call[u].pc = "event" /\ call[u].pc \in Statements /\ call[u] \in Call
      /\ 200 \in Codes /\ 204 \in Codes /\ ReplyWith(u, Success(op), call[u])
  BY AnswerCodes DEF InsertEvent, Statements, CInv, RInv, ApiTypeOK, Reply
<1>2. Success(op) \in Codes
  BY <1>1 DEF Success
<1>3. Asks(u) => op \in PublishOps /\ op # "ResourceBundlesIdGet" /\ Success(op) = 200
  <2>1. op \in PublishOps \union Deletes
    BY <1>1 DEF CInv, RInv, CallsInOrder
  <2>2. Asks(u) => op # "ResourceBundlesIdDelete"
    BY KindOfCall
  <2> QED
    BY <2>1, <2>2, SMTT(30) DEF PublishOps, Deletes, Success
<1>4. Asks(u) => "done" \in seen[u]
  BY <1>1 DEF Asks, CInv, Consistent, Backed
<1>5. Asks(u) => Says(op, Success(op)) = "done"
  <2>1. op \in PublishOps => Says(op, 200) = "done"
    BY FoundSays, SMTT(30)
  <2> QED
    BY <1>3, <2>1, SMTT(30)
<1>a. Answering(u, Success(op), call[u])
  BY <1>1, <1>2, <1>3, <1>4, <1>5 DEF Answering
<1>t. Truthful(u, Success(op), call[u])
  BY <1>1, <1>2, <1>3, <1>4, <1>5 DEF Truthful
<1> QED
  BY <1>a, <1>t, Answers

-----------------------------------------------------------------------------
(***************************************************************************)
(* The steps of the clients.                                               *)
(***************************************************************************)
LEMMA SaysTyped ==
  ASSUME NEW op, NEW code
  PROVE  Says(op, code) \in Messages \ {"mismatch"}
<1>1. /\ CreateConsumer(code) \in Messages \ {"mismatch"} /\ GetConsumer(code) \in Messages \ {"mismatch"}
      /\ UpdateConsumer(code) \in Messages \ {"mismatch"} /\ DeleteConsumer(code) \in Messages \ {"mismatch"}
  BY DEF CreateConsumer, GetConsumer, UpdateConsumer, DeleteConsumer, Messages
<1>2. /\ GetResourceBundle(code) \in Messages \ {"mismatch"}
      /\ DeleteResourceBundle(code) \in Messages \ {"mismatch"}
      /\ PublishError(code) \in Messages \ {"mismatch"}
  BY DEF GetResourceBundle, DeleteResourceBundle, PublishError, Messages
<1> QED
  BY <1>1, <1>2 DEF Says

LEMMA CommandsTyped ==
  /\ IdleCommand \in Command
  /\ \A kind \in Kinds, req \in Request, add, remove \in SUBSET Labels :
       [IdleCommand EXCEPT !.pc = "first", !.kind = kind, !.req = req, !.add = add, !.remove = remove]
         \in Command
  /\ \A kind \in Kinds, says \in Messages :
       [IdleCommand EXCEPT !.pc = "done", !.kind = kind, !.says = says] \in Command
<1>1. NoRequest \in Request /\ "call" \in Kinds
  BY DEF NoRequest, Request, NoPayload, RestOps, PublishOps, Kinds
<1>2. IdleCommand \in Command
  BY <1>1 DEF IdleCommand, Command
<1> QED
  BY <1>2, ZenonT(60) DEF Command

\* A command is over: what it says was seen.
LEMMA EndKeeps ==
  ASSUME CInv, RInv', Observe, NEW u \in Users, NEW says \in Messages, End(u, says),
         commands' = commands, \A v \in Users \ {u} : call'[v] = call[v], SavesPatch(call'[u]),
         cmd[u].kind # "call" /\ says \in {"done", "notFound", "exists", "mismatch"} => says \in seen[u]
  PROVE  CInv'
<1> USE ZenonT(60)
<1> DEFINE c == [IdleCommand EXCEPT !.pc = "done", !.kind = cmd[u].kind, !.says = says]
<1>1. /\ cmd \in [Users -> Command] /\ commands \in 0..MaxCommands
      /\ seen \in [Users -> SUBSET Messages]
  BY DEF CInv, TypeOK
<1>2. cmd[u].kind \in Kinds
  BY <1>1 DEF Command
<1>3. c \in Command /\ c.pc = "done" /\ c.kind = cmd[u].kind /\ c.says = says
  BY <1>2, CommandsTyped DEF IdleCommand
<1>4. cmd' = [cmd EXCEPT ![u] = c]
  BY SMTT(30) DEF End
<1> HIDE DEF c
<1>5. /\ cmd' \in [Users -> Command] /\ cmd'[u] = c
      /\ \A v \in Users \ {u} : cmd'[v] = cmd[v]
  BY <1>1, <1>3, <1>4
<1>6. seen'[u] = seen[u]
  BY <1>1, <1>3, <1>5, SeenTyped
<1>7. InOrder(c, call'[u])
  BY <1>3 DEF InOrder, Active
<1>8. Consistent(c, call'[u], seen'[u])
  BY <1>3, <1>6, <1>7 DEF Consistent
<1> QED
  BY <1>1, <1>5, <1>8, OneUserSteps

\* What Take leaves: no call, and nothing to save.
LEMMA Taken ==
  ASSUME RInv, NEW u \in Users, Take(u)
  PROVE  /\ call[u].pc = "reply" /\ call'[u].pc = "idle" /\ SavesPatch(call'[u])
         /\ \A v \in Users \ {u} : call'[v] = call[v]
<1> USE ZenonT(60)
<1>1. call[u].pc = "reply" /\ call \in [Users -> Call] /\ call' = [call EXCEPT ![u] = IdleCall]
  BY DEF Take, Becomes, RInv, ApiTypeOK
<1>2. call'[u] = IdleCall /\ \A v \in Users \ {u} : call'[v] = call[v]
  BY <1>1
<1>3. call'[u].pc = "idle"
  BY <1>2, SMTT(30) DEF IdleCall
<1> QED
  BY <1>1, <1>2, <1>3 DEF SavesPatch

\* The last answer of a command.
LEMMA LastAnswerKeeps ==
  ASSUME CInv, Observe, NEW u \in Users, cmd[u].pc \in {"first", "second"}, Take(u),
         End(u, Says(call[u].req.op, call[u].code)), commands' = commands,
         Says(call[u].req.op, call[u].code) # "done" \/ cmd[u].kind = "call" \/ LastAnswer(cmd[u])
  PROVE  CInv' /\ StoreStep
<1> USE ZenonT(60)
<1> DEFINE says == Says(call[u].req.op, call[u].code)
<1>1. RInv /\ RInv' /\ StoreStep
  BY TakeStep DEF CInv
<1>2. /\ call[u].pc = "reply" /\ SavesPatch(call'[u])
      /\ \A v \in Users \ {u} : call'[v] = call[v]
  BY <1>1, Taken
<1>3. says \in Messages /\ says # "mismatch"
  BY SaysTyped
<1>4. ASSUME cmd[u].kind # "call", says \in {"done", "notFound", "exists", "mismatch"}
      PROVE  says \in seen[u]
  <2>1. Backed(cmd[u], call[u], seen[u])
    BY <1>4 DEF CInv, Consistent
  <2>2. /\ says = "done" => ~LastAnswer(cmd[u]) \/ "done" \in seen[u]
        /\ says = "notFound" => "notFound" \in seen[u]
        /\ says = "exists" => "exists" \in seen[u]
    BY <1>2, <2>1 DEF Backed
  <2> HIDE DEF says
  <2>3. says # "done" \/ LastAnswer(cmd[u])
    BY <1>4, SMTT(30) DEF says
  <2> QED
    BY <1>3, <1>4, <2>2, <2>3
<1>5. End(u, says)
  OBVIOUS
<1> HIDE DEF says
<1> QED
  BY <1>1, <1>2, <1>3, <1>4, <1>5, EndKeeps

LEMMA FirstAnswerStep ==
  ASSUME CInv, Observe, NEW u \in Users, FirstAnswer(u)
  PROVE  CInv' /\ StoreStep
<1> USE ZenonT(60)
<1>1. /\ cmd[u].pc = "first" /\ Take(u) /\ End(u, Says(call[u].req.op, call[u].code))
      /\ commands' = commands
      /\ Says(call[u].req.op, call[u].code) # "done" \/ cmd[u].kind = "call" \/ LastAnswer(cmd[u])
  BY DEF FirstAnswer, LastAnswer
<1> QED
  BY <1>1, LastAnswerKeeps

LEMMA SecondAnswerStep ==
  ASSUME CInv, Observe, NEW u \in Users, SecondAnswer(u)
  PROVE  CInv' /\ StoreStep
<1> USE ZenonT(60)
<1>1. /\ cmd[u].pc = "second" /\ Take(u) /\ End(u, Says(call[u].req.op, call[u].code))
      /\ commands' = commands /\ LastAnswer(cmd[u])
  BY DEF SecondAnswer, LastAnswer
<1> QED
  BY <1>1, LastAnswerKeeps

\* A command goes on to its second request.
LEMMA BetweenKeeps ==
  ASSUME CInv, RInv', Observe, NEW u \in Users, NEW req \in Request, WellFormed(req), Between(u, req),
         commands' = commands, \A v \in Users \ {u} : call'[v] = call[v], call'[u].pc = "idle",
         SecondRequest([cmd[u] EXCEPT !.pc = "between", !.req = req])
  PROVE  CInv'
<1> USE ZenonT(60)
<1> DEFINE c == [cmd[u] EXCEPT !.pc = "between", !.req = req]
<1>1. cmd \in [Users -> Command] /\ commands \in 0..MaxCommands /\ cmd[u] \in Command
  BY DEF CInv, TypeOK
<1>2. c \in Command /\ c.pc = "between" /\ c.req = req
  BY <1>1 DEF Command
<1>3. SecondRequest(c)
  OBVIOUS
<1>4. cmd' = [cmd EXCEPT ![u] = c]
  BY <1>1 DEF Between
<1> HIDE DEF c
<1>5. /\ cmd' \in [Users -> Command] /\ cmd'[u] = c
      /\ \A v \in Users \ {u} : cmd'[v] = cmd[v]
  BY <1>1, <1>2, <1>4
<1>6. InOrder(c, call'[u]) /\ SavesPatch(call'[u])
  BY <1>2, <1>3 DEF InOrder, SavesPatch
<1>7. Consistent(c, call'[u], seen'[u])
  BY <1>2, <1>6 DEF Consistent
<1> QED
  BY <1>1, <1>5, <1>7, OneUserSteps

\* The calls that a command goes on from.
LEMMA GoneFurther ==
  ASSUME CInv, NEW u \in Users, NEW kind, kind \in {"update", "apply", "bundleDelete"}, GoesFurther(u, kind)
  PROVE  /\ RInv' /\ StoreStep /\ commands' = commands
         /\ call'[u].pc = "idle" /\ SavesPatch(call'[u]) /\ \A v \in Users \ {u} : call'[v] = call[v]
         /\ cmd[u] \in Command /\ cmd[u].kind = kind /\ WellFormed(cmd[u].req)
         /\ call[u] \in Call /\ call[u].pc = "reply" /\ FirstRequest(cmd[u], call[u].req)
         /\ Backed(cmd[u], call[u], seen[u])
         /\ cmd[u].req.op # "create_request" /\ Says(call[u].req.op, call[u].code) = "done"
<1> USE ZenonT(60)
<1>1. /\ Take(u) /\ RInv /\ cmd[u].pc = "first" /\ cmd[u].kind = kind /\ commands' = commands
      /\ cmd[u].req.op # "create_request" /\ Says(call[u].req.op, call[u].code) = "done"
      /\ Consistent(cmd[u], call[u], seen[u]) /\ cmd[u] \in Command /\ call[u] \in Call
  BY DEF GoesFurther, CInv, TypeOK, RInv, ApiTypeOK
<1>2. RInv' /\ StoreStep
  BY <1>1, TakeStep
<1>3. /\ call[u].pc = "reply" /\ call'[u].pc = "idle" /\ SavesPatch(call'[u])
      /\ \A v \in Users \ {u} : call'[v] = call[v]
  BY <1>1, Taken
<1>4. WellFormed(cmd[u].req) /\ FirstRequest(cmd[u], call[u].req)
  BY <1>1 DEF Consistent, InOrder, Active
<1>5. Backed(cmd[u], call[u], seen[u])
  BY <1>1 DEF Consistent
<1> QED
  BY <1>1, <1>2, <1>3, <1>4, <1>5

\* The requests of the commands.
LEMMA NoRequestTyped == NoRequest \in Request
BY DEF NoRequest, Request, NoPayload, RestOps, PublishOps

LEMMA PatchTyped ==
  ASSUME NEW id \in ConsumerIds, NEW labels \in SUBSET Labels
  PROVE  /\ ConsumersIdPatch(id, labels) \in Request
         /\ ConsumersIdPatch(id, labels).op = "ConsumersIdPatch"
         /\ ~ConsumersIdPatch(id, labels).nil
         /\ ConsumersIdPatch(id, labels).labels = labels
         /\ WellFormed(ConsumersIdPatch(id, labels))
<1> DEFINE req == ConsumersIdPatch(id, labels)
<1>1. req \in Request
  BY NoRequestTyped, ZenonT(60) DEF ConsumersIdPatch, Request, RestOps
<1>2. req.op = "ConsumersIdPatch" /\ req.nil = FALSE /\ req.labels = labels /\ req.id = id
  BY DEF ConsumersIdPatch, NoRequest
<1>3. WellFormed(req)
  BY <1>2 DEF WellFormed, Deletes, PublishOps
<1> QED
  BY <1>1, <1>2, <1>3

LEMMA PublishTyped ==
  ASSUME NEW action \in PublishOps, NEW id \in BundleIds, NEW name \in Names \union ConsumerIds \union {None},
         NEW version \in Nat, NEW payload \in Payload \union {NoPayload}
  PROVE  /\ Publish(action, id, name, version, payload) \in Request
         /\ Publish(action, id, name, version, payload).op = action
         /\ Publish(action, id, name, version, payload).id = id
         /\ action = "delete_request" \/ (payload \in Payload /\ (action = "create_request" => name # None)) =>
              WellFormed(Publish(action, id, name, version, payload))
<1> DEFINE req == Publish(action, id, name, version, payload)
<1>1. req \in Request
  BY NoRequestTyped, ZenonT(60) DEF Publish, Request
<1>2. req.op = action /\ req.id = id /\ req.payload = payload /\ req.name = name
  BY DEF Publish, NoRequest
<1>3. action = "delete_request" \/ (payload \in Payload /\ (action = "create_request" => name # None)) =>
        WellFormed(req)
  BY <1>2 DEF WellFormed, Deletes, PublishOps
<1> QED
  BY <1>1, <1>2, <1>3, SMTT(30)

LEMMA DeleteTyped ==
  ASSUME NEW id \in BundleIds, NEW name \in Names \union ConsumerIds \union {None}, NEW version \in Nat
  PROVE  /\ Delete(id, name, version) \in Request /\ Delete(id, name, version).op = "delete_request"
         /\ WellFormed(Delete(id, name, version))
<1>1. "delete_request" \in PublishOps /\ NoPayload \in Payload \union {NoPayload}
  BY DEF PublishOps
<1> QED
  BY <1>1, PublishTyped DEF Delete

LEMMA OnlyFound ==
  ASSUME NEW code, Says("ResourceBundlesIdGet", code) = "done"
  PROVE  code = 200
BY DEF Says, GetResourceBundle

LEMMA MergedTwice ==
  ASSUME NEW current, NEW c, NEW d, d.add = c.add, d.remove = c.remove
  PROVE  Merged(Merged(current, c), d) = Merged(current, c)
BY DEF Merged

LEMMA UpdateMergesStep ==
  ASSUME CInv, Observe, NEW u \in Users, UpdateMerges(u)
  PROVE  CInv' /\ StoreStep
<1> USE ZenonT(60)
<1> DEFINE labels == Merged(call[u].consumer.labels, cmd[u])
           req == ConsumersIdPatch(cmd[u].req.id, labels)
           c == [cmd[u] EXCEPT !.pc = "between", !.req = req]
<1>1. GoesFurther(u, "update") /\ Between(u, req)
  BY SMTT(30) DEF UpdateMerges
<1>2. /\ RInv' /\ StoreStep /\ commands' = commands
      /\ call'[u].pc = "idle" /\ \A v \in Users \ {u} : call'[v] = call[v]
      /\ cmd[u] \in Command /\ cmd[u].kind = "update" /\ WellFormed(cmd[u].req)
      /\ call[u] \in Call /\ FirstRequest(cmd[u], call[u].req)
  BY <1>1, GoneFurther
<1>3. cmd[u].req.id \in ConsumerIds
  BY <1>2 DEF FirstRequest, WellFormed
<1>4. labels \in SUBSET Labels
  <2>1. call[u].consumer.labels \in SUBSET Labels
    BY <1>2, SMTT(30) DEF Call, Consumer
  <2>2. cmd[u].add \in SUBSET Labels
    BY <1>2, SMTT(30) DEF Command
  <2> QED
    BY <2>1, <2>2 DEF Merged
<1>5. req \in Request /\ req.op = "ConsumersIdPatch" /\ ~req.nil /\ req.labels = labels /\ WellFormed(req)
  BY <1>3, <1>4, PatchTyped
<1>6. c.kind = "update" /\ c.req = req /\ c.add = cmd[u].add /\ c.remove = cmd[u].remove
  BY <1>2 DEF Command
<1>7. Merged(labels, c) = labels
  BY <1>6, MergedTwice
<1>8. SecondRequest(c)
  BY <1>5, <1>6, <1>7 DEF SecondRequest
<1>9. CInv'
  BY <1>1, <1>2, <1>5, <1>8, BetweenKeeps
<1> QED
  BY <1>2, <1>9, SMTT(30)

LEMMA ApplyComparesStep ==
  ASSUME CInv, Observe, NEW u \in Users, ApplyCompares(u)
  PROVE  CInv' /\ StoreStep
<1> USE ZenonT(60)
<1> DEFINE version == call[u].bundle.version
           req == [cmd[u].req EXCEPT !.version = version]
           c == [cmd[u] EXCEPT !.pc = "between", !.req = req]
<1>1. GoesFurther(u, "apply")
  BY SMTT(30) DEF ApplyCompares
<1>2. /\ RInv' /\ StoreStep /\ commands' = commands /\ SavesPatch(call'[u])
      /\ call'[u].pc = "idle" /\ \A v \in Users \ {u} : call'[v] = call[v]
      /\ cmd[u] \in Command /\ cmd[u].kind = "apply" /\ WellFormed(cmd[u].req)
      /\ call[u] \in Call /\ call[u].pc = "reply" /\ FirstRequest(cmd[u], call[u].req)
      /\ Backed(cmd[u], call[u], seen[u])
      /\ cmd[u].req.op # "create_request" /\ Says(call[u].req.op, call[u].code) = "done"
  BY <1>1, GoneFurther
<1>3. call[u].req.op = "ResourceBundlesIdGet" /\ cmd[u].req.op = "update_request"
  BY <1>2 DEF FirstRequest
<1>4. call[u].code = 200
  BY <1>2, <1>3, OnlyFound
<1>5. CASE cmd[u].req.version \notin {0, version} /\ End(u, "mismatch")
  <2>1. "mismatch" \in seen[u]
    BY <1>2, <1>3, <1>4, <1>5 DEF Backed
  <2>2. "mismatch" \in Messages
    BY SMTT(30) DEF Messages
  <2>3. CInv'
    BY <1>2, <1>5, <2>1, <2>2, EndKeeps
  <2> QED
    BY <1>2, <2>3, SMTT(30)
<1>6. CASE Between(u, req)
  <2>1. version \in Nat /\ cmd[u].req \in Request
    BY <1>2, SMTT(30) DEF Call, Bundle, Command
  <2>2. req \in Request /\ req.op = cmd[u].req.op /\ req.id = cmd[u].req.id
        /\ req.payload = cmd[u].req.payload /\ req.name = cmd[u].req.name
    BY <2>1 DEF Request
  <2> HIDE DEF req
  <2>3. WellFormed(req)
    BY <1>2, <2>2 DEF WellFormed
  <2>4. c.kind = "apply" /\ c.req = req
    BY <1>2 DEF Command
  <2>5. SecondRequest(c)
    BY <1>3, <2>2, <2>4 DEF SecondRequest
  <2>6. CInv'
    BY <1>2, <1>6, <2>2, <2>3, <2>5, BetweenKeeps
  <2> QED
    BY <1>2, <2>6, SMTT(30)
<1> QED
  BY <1>5, <1>6 DEF ApplyCompares

LEMMA DeleteAsksStep ==
  ASSUME CInv, Observe, NEW u \in Users, DeleteAsks(u)
  PROVE  CInv' /\ StoreStep
<1> USE ZenonT(60)
<1> DEFINE bundle == call[u].bundle
           req == Delete(cmd[u].req.id, bundle.consumer, bundle.version)
           c == [cmd[u] EXCEPT !.pc = "between", !.req = req]
<1>1. GoesFurther(u, "bundleDelete") /\ Between(u, req)
  BY SMTT(30) DEF DeleteAsks
<1>2. /\ RInv' /\ StoreStep /\ commands' = commands
      /\ call'[u].pc = "idle" /\ \A v \in Users \ {u} : call'[v] = call[v]
      /\ cmd[u] \in Command /\ cmd[u].kind = "bundleDelete" /\ WellFormed(cmd[u].req)
      /\ call[u] \in Call /\ FirstRequest(cmd[u], call[u].req)
  BY <1>1, GoneFurther
<1>3. cmd[u].req.id \in BundleIds
  BY <1>2 DEF FirstRequest, WellFormed
<1>4. bundle.consumer \in Names \union ConsumerIds \union {None} /\ bundle.version \in Nat
  BY <1>2, SMTT(30) DEF Call, Bundle
<1>5. req \in Request /\ req.op = "delete_request" /\ WellFormed(req)
  BY <1>3, <1>4, DeleteTyped
<1> HIDE DEF req
<1>6. c.kind = "bundleDelete" /\ c.req = req
  BY <1>2 DEF Command
<1>7. SecondRequest(c)
  BY <1>5, <1>6 DEF SecondRequest
<1>8. CInv'
  BY <1>1, <1>2, <1>5, <1>7, BetweenKeeps
<1> QED
  BY <1>2, <1>8, SMTT(30)

\* What Send leaves: a call that was received.
LEMMA Sent ==
  ASSUME RInv, NEW u \in Users, NEW req \in Request, Send(u, req)
  PROVE  /\ call'[u].pc = "received" /\ call'[u].req = req /\ SavesPatch(call'[u])
         /\ \A v \in Users \ {u} : call'[v] = call[v]
<1> USE ZenonT(60)
<1> DEFINE k == [IdleCall EXCEPT !.pc = "received", !.req = req, !.version = req.version]
<1>1. call \in [Users -> Call] /\ call' = [call EXCEPT ![u] = k]
  BY DEF Send, Becomes, RInv, ApiTypeOK
<1>2. k.pc = "received" /\ k.req = req
  BY DEF IdleCall
<1> HIDE DEF k
<1>3. call'[u] = k /\ \A v \in Users \ {u} : call'[v] = call[v]
  BY <1>1
<1> QED
  BY <1>2, <1>3 DEF SavesPatch

LEMMA SecondCallStep ==
  ASSUME CInv, Observe, NEW u \in Users, SecondCall(u)
  PROVE  CInv' /\ StoreStep
<1> USE ZenonT(60)
<1>1. /\ cmd[u].pc = "between" /\ commands' = commands
      /\ RInv /\ cmd \in [Users -> Command] /\ cmd[u] \in Command /\ commands \in 0..MaxCommands
      /\ InOrder(cmd[u], call[u])
  BY DEF SecondCall, CInv, TypeOK, Consistent
<1>2. WellFormed(cmd[u].req) /\ SecondRequest(cmd[u]) /\ cmd[u].req \in Request /\ call[u].pc = "idle"
  BY <1>1 DEF InOrder, Active, Command
<1>3. CASE Send(u, cmd[u].req) /\ cmd' = [cmd EXCEPT ![u].pc = "second"]
  <2>1. RInv' /\ StoreStep
    BY <1>1, <1>2, <1>3, SendStep
  <2>2. /\ call'[u].pc = "received" /\ call'[u].req = cmd[u].req /\ SavesPatch(call'[u])
        /\ \A v \in Users \ {u} : call'[v] = call[v]
    BY <1>1, <1>2, <1>3, Sent
  <2> DEFINE c == [cmd[u] EXCEPT !.pc = "second"]
  <2>3. /\ c \in Command /\ c.pc = "second" /\ c.req = cmd[u].req /\ c.kind = cmd[u].kind
        /\ c.add = cmd[u].add /\ c.remove = cmd[u].remove
    BY <1>1 DEF Command
  <2>4. cmd' = [cmd EXCEPT ![u] = c]
    BY <1>3, SMTT(30)
  <2> HIDE DEF c
  <2>5. /\ cmd' \in [Users -> Command] /\ cmd'[u] = c
        /\ \A v \in Users \ {u} : cmd'[v] = cmd[v]
    BY <1>1, <2>3, <2>4
  <2>6. SecondRequest(c)
    BY <1>2, <2>3 DEF SecondRequest, Merged
  <2>7. InOrder(c, call'[u]) /\ Backed(c, call'[u], seen'[u])
    BY <1>2, <2>2, <2>3, <2>6 DEF InOrder, Backed
  <2>8. Consistent(c, call'[u], seen'[u])
    BY <2>2, <2>3, <2>7 DEF Consistent
  <2>9. CInv'
    BY <1>1, <2>1, <2>2, <2>5, <2>8, OneUserSteps
  <2> QED
    BY <2>1, <2>9, SMTT(30)
<1>4. CASE End(u, "cancelled") /\ UNCHANGED apiVars
  <2>1. RInv' /\ StoreStep
    BY <1>1, <1>4, ApiStep, SMTT(30)
  <2>2. call' = call /\ SavesPatch(call'[u])
    BY <1>2, <1>4 DEF apiVars, SavesPatch
  <2>3. "cancelled" \in Messages \ {"done", "notFound", "exists", "mismatch"}
    BY SMTT(30) DEF Messages
  <2>4. CInv'
    BY <1>1, <1>4, <2>1, <2>2, <2>3, EndKeeps
  <2> QED
    BY <2>1, <2>4, SMTT(30)
<1> QED
  BY <1>3, <1>4 DEF SecondCall

\* Whatever becomes of the call, a command without an answer claims nothing.
LEMMA NoAnswerStep ==
  ASSUME CInv, Observe, NEW u \in Users, NoAnswer(u)
  PROVE  CInv' /\ StoreStep
<1> USE ZenonT(60)
<1>1. /\ UNCHANGED <<consumers, bundles, lock, call, commands>> /\ End(u, "noAnswer") /\ RInv
      /\ faults' = faults + 1 /\ faults < MaxFaults /\ Consistent(cmd[u], call[u], seen[u])
  BY DEF NoAnswer, CInv
<1>2. RInv'
  <2>0. faults \in 0..MaxFaults /\ MaxFaults \in Nat
    BY <1>1, ApiAssumption DEF RInv, ApiTypeOK
  <2>1. faults' \in 0..MaxFaults
    BY <1>1, <2>0, SMTT(30)
  <2>2. ApiTypeOK'
    BY <1>1, <2>1 DEF RInv, ApiTypeOK
  <2>3. CallsInOrder' /\ VersionNamed' /\ LockedCalls'
    BY <1>1 DEF RInv, CallsInOrder, VersionNamed, LockedCalls, WellFormed
  <2> QED
    BY <2>2, <2>3, SMTT(30) DEF RInv
<1>3. StoreStep
  BY <1>1 DEF StoreStep, AbstractStore, AbstractOp
<1>4. SavesPatch(call'[u])
  BY <1>1 DEF Consistent, SavesPatch
<1>5. "noAnswer" \in Messages \ {"done", "notFound", "exists", "mismatch"}
  BY SMTT(30) DEF Messages
<1>6. CInv'
  BY <1>1, <1>2, <1>4, <1>5, EndKeeps
<1> QED
  BY <1>3, <1>6, SMTT(30)

LEMMA DiscardStep ==
  ASSUME CInv, Observe, NEW u \in Users, Discard(u)
  PROVE  CInv' /\ StoreStep
<1> USE ZenonT(60)
<1>1. /\ cmd[u].pc \notin {"first", "second"} /\ Take(u) /\ cmd' = cmd /\ commands' = commands /\ RInv
      /\ cmd \in [Users -> Command] /\ commands \in 0..MaxCommands
      /\ seen \in [Users -> SUBSET Messages] /\ Consistent(cmd[u], call[u], seen[u])
      /\ cmd[u].pc \in {"idle", "first", "between", "second", "done"}
  BY DEF Discard, CInv, TypeOK, Command
<1>2. RInv' /\ StoreStep
  BY <1>1, TakeStep
<1>3. /\ call[u].pc = "reply" /\ SavesPatch(call'[u])
      /\ \A v \in Users \ {u} : call'[v] = call[v]
  BY <1>1, Taken
<1>4. cmd[u].pc \in {"idle", "done"}
  BY <1>1, <1>3 DEF Consistent, InOrder
<1>5. seen'[u] = seen[u]
  BY <1>1, <1>4, SeenTyped
<1>6. InOrder(cmd[u], call'[u])
  BY <1>4 DEF InOrder, Active
<1>7. Consistent(cmd[u], call'[u], seen'[u])
  BY <1>1, <1>3, <1>5, <1>6 DEF Consistent
<1>8. CInv'
  BY <1>1, <1>2, <1>3, <1>7, OneUserSteps
<1> QED
  BY <1>2, <1>8, SMTT(30)

\* A command starts with a request that belongs to it.
LEMMA StartKeeps ==
  ASSUME CInv, Observe, NEW u \in Users, NEW kind \in Kinds, NEW req \in Request, NEW sent \in Request,
         NEW add \in SUBSET Labels, NEW remove \in SUBSET Labels,
         WellFormed(req), WellFormed(sent), Start(u, kind, req, sent, add, remove),
         \A c \in Command : c.kind = kind /\ c.req = req => FirstRequest(c, sent)
  PROVE  CInv' /\ StoreStep
<1> USE ZenonT(60)
<1> DEFINE c == [IdleCommand EXCEPT !.pc = "first", !.kind = kind, !.req = req, !.add = add, !.remove = remove]
<1>1. /\ RInv /\ cmd \in [Users -> Command] /\ commands \in 0..MaxCommands
      /\ commands < MaxCommands /\ commands' = commands + 1 /\ Send(u, sent)
      /\ cmd' = [cmd EXCEPT ![u] = c]
  BY DEF Start, CInv, TypeOK
<1>2. c \in Command /\ c.pc = "first" /\ c.kind = kind /\ c.req = req
  BY CommandsTyped DEF IdleCommand
<1> HIDE DEF c
<1>3. RInv' /\ StoreStep
  BY <1>1, SendStep
<1>4. /\ call'[u].pc = "received" /\ call'[u].req = sent /\ SavesPatch(call'[u])
      /\ \A v \in Users \ {u} : call'[v] = call[v]
  BY <1>1, Sent
<1>5. /\ cmd' \in [Users -> Command] /\ cmd'[u] = c
      /\ \A v \in Users \ {u} : cmd'[v] = cmd[v]
  BY <1>1, <1>2
<1>6. commands' \in 0..MaxCommands
  BY <1>1, CliAssumption, SMTT(30)
<1>7. FirstRequest(c, sent)
  BY <1>2
<1>8. InOrder(c, call'[u]) /\ Backed(c, call'[u], seen'[u])
  BY <1>2, <1>4, <1>7 DEF InOrder, Backed
<1>9. Consistent(c, call'[u], seen'[u])
  BY <1>2, <1>4, <1>8 DEF Consistent
<1>10. CInv'
  BY <1>3, <1>4, <1>5, <1>6, <1>9, OneUserSteps
<1> QED
  BY <1>3, <1>10, SMTT(30)

\* A command of one request.
LEMMA StartOneKeeps ==
  ASSUME CInv, Observe, NEW u \in Users, NEW kind \in Kinds, NEW req \in Request, WellFormed(req),
         StartOne(u, kind, req), \A c \in Command : c.kind = kind /\ c.req = req => FirstRequest(c, req)
  PROVE  CInv' /\ StoreStep
<1>1. {} \in SUBSET Labels /\ Start(u, kind, req, req, {}, {})
  BY DEF StartOne
<1> QED
  BY <1>1, StartKeeps, ZenonT(60)

\* A single call of another client may be anything.
LEMMA StartCallKeeps ==
  ASSUME CInv, Observe, NEW u \in Users, NEW req \in Request, WellFormed(req), StartOne(u, "call", req)
  PROVE  CInv' /\ StoreStep
<1>1. \A c : c.kind = "call" => FirstRequest(c, req)
  BY ZenonT(60) DEF FirstRequest
<1>2. "call" \in Kinds
  BY DEF Kinds
<1> QED
  BY <1>1, <1>2, StartOneKeeps, ZenonT(60)

\* The requests with an id, of consumers and of bundles.
LEMMA IdTyped ==
  /\ \A id \in ConsumerIds :
       /\ ConsumersIdGet(id) \in Request /\ ConsumersIdGet(id).op = "ConsumersIdGet"
       /\ WellFormed(ConsumersIdGet(id))
       /\ ConsumersIdDelete(id) \in Request /\ ConsumersIdDelete(id).op = "ConsumersIdDelete"
       /\ WellFormed(ConsumersIdDelete(id))
  /\ \A id \in BundleIds :
       /\ ResourceBundlesIdGet(id) \in Request /\ ResourceBundlesIdGet(id).op = "ResourceBundlesIdGet"
       /\ ResourceBundlesIdGet(id).id = id /\ WellFormed(ResourceBundlesIdGet(id))
       /\ ResourceBundlesIdDelete(id) \in Request /\ WellFormed(ResourceBundlesIdDelete(id))
<1> USE ZenonT(60)
<1>1. ASSUME NEW id \in ConsumerIds \union BundleIds, NEW op \in RestOps
      PROVE  /\ [NoRequest EXCEPT !.op = op, !.id = id] \in Request
             /\ [NoRequest EXCEPT !.op = op, !.id = id].op = op
             /\ [NoRequest EXCEPT !.op = op, !.id = id].id = id
  <2>1. [NoRequest EXCEPT !.op = op, !.id = id] \in Request
    BY NoRequestTyped DEF Request
  <2> QED
    BY <2>1 DEF NoRequest
<1>2. {"ConsumersIdGet", "ConsumersIdDelete", "ResourceBundlesIdGet", "ResourceBundlesIdDelete"} \subseteq RestOps
  BY SMTT(30) DEF RestOps
<1>3. ASSUME NEW id \in ConsumerIds, NEW op \in {"ConsumersIdGet", "ConsumersIdDelete"},
             NEW req, req.op = op, req.id = id
      PROVE  WellFormed(req)
  BY <1>3, SMTT(30) DEF WellFormed, Deletes, PublishOps
<1>4. ASSUME NEW id \in BundleIds, NEW op \in {"ResourceBundlesIdGet", "ResourceBundlesIdDelete"},
             NEW req, req.op = op, req.id = id
      PROVE  WellFormed(req)
  BY <1>4, SMTT(30) DEF WellFormed, Deletes, PublishOps
<1>5. ASSUME NEW id \in ConsumerIds
      PROVE  /\ ConsumersIdGet(id) \in Request /\ ConsumersIdGet(id).op = "ConsumersIdGet"
             /\ WellFormed(ConsumersIdGet(id))
             /\ ConsumersIdDelete(id) \in Request /\ ConsumersIdDelete(id).op = "ConsumersIdDelete"
             /\ WellFormed(ConsumersIdDelete(id))
  <2>1. /\ ConsumersIdGet(id) \in Request /\ ConsumersIdGet(id).op = "ConsumersIdGet"
        /\ ConsumersIdGet(id).id = id
    BY <1>1, <1>2 DEF ConsumersIdGet
  <2>2. /\ ConsumersIdDelete(id) \in Request /\ ConsumersIdDelete(id).op = "ConsumersIdDelete"
        /\ ConsumersIdDelete(id).id = id
    BY <1>1, <1>2 DEF ConsumersIdDelete
  <2> QED
    BY <1>3, <2>1, <2>2
<1>6. ASSUME NEW id \in BundleIds
      PROVE  /\ ResourceBundlesIdGet(id) \in Request /\ ResourceBundlesIdGet(id).op = "ResourceBundlesIdGet"
             /\ ResourceBundlesIdGet(id).id = id /\ WellFormed(ResourceBundlesIdGet(id))
             /\ ResourceBundlesIdDelete(id) \in Request /\ WellFormed(ResourceBundlesIdDelete(id))
  <2>1. /\ ResourceBundlesIdGet(id) \in Request /\ ResourceBundlesIdGet(id).op = "ResourceBundlesIdGet"
        /\ ResourceBundlesIdGet(id).id = id
    BY <1>1, <1>2 DEF ResourceBundlesIdGet
  <2>2. /\ ResourceBundlesIdDelete(id) \in Request /\ ResourceBundlesIdDelete(id).op = "ResourceBundlesIdDelete"
        /\ ResourceBundlesIdDelete(id).id = id
    BY <1>1, <1>2 DEF ResourceBundlesIdDelete
  <2> QED
    BY <1>4, <2>1, <2>2
<1> QED
  BY <1>5, <1>6

LEMMA PostTyped ==
  ASSUME NEW name \in Names \union {None}, NEW labels \in SUBSET Labels
  PROVE  /\ ConsumersPost(name, labels) \in Request /\ ConsumersPost(name, labels).op = "ConsumersPost"
         /\ ConsumersPost(name, labels).name = name /\ WellFormed(ConsumersPost(name, labels))
<1>1. ConsumersPost(name, labels) \in Request
  BY NoRequestTyped, ZenonT(60) DEF ConsumersPost, Request, RestOps
<1>2. ConsumersPost(name, labels).op = "ConsumersPost" /\ ConsumersPost(name, labels).name = name
  BY ZenonT(60) DEF ConsumersPost, NoRequest
<1>3. WellFormed(ConsumersPost(name, labels))
  BY <1>2 DEF WellFormed, Deletes, PublishOps
<1> QED
  BY <1>1, <1>2, <1>3, SMTT(30)

LEMMA ConsumerCommandStep ==
  ASSUME CInv, Observe, NEW u \in Users, RunCreate(u) \/ RunUpdate(u) \/ RunDelete(u) \/ RunGet(u)
  PROVE  CInv' /\ StoreStep
<1> USE ZenonT(60)
<1>0. {"create", "update", "delete"} \subseteq Kinds
  BY SMTT(30) DEF Kinds
<1>1. CASE RunCreate(u)
  <2>1. PICK name \in Names, labels \in SUBSET Labels : StartOne(u, "create", ConsumersPost(name, labels))
    BY <1>1, SMTT(30) DEF RunCreate
  <2> DEFINE req == ConsumersPost(name, labels)
  <2>2. req \in Request /\ req.op = "ConsumersPost" /\ req.name = name /\ WellFormed(req)
    BY PostTyped
  <2>3. \A c : c.kind = "create" /\ c.req = req => FirstRequest(c, req)
    BY <2>2 DEF FirstRequest
  <2> HIDE DEF req
  <2>4. StartOne(u, "create", req)
    BY <2>1, SMTT(30) DEF req
  <2> QED
    BY <1>0, <2>2, <2>3, <2>4, StartOneKeeps
<1>2. CASE RunUpdate(u)
  <2>1. PICK id \in ConsumerIds, add \in SUBSET Labels, remove \in SUBSET Labels :
          Start(u, "update", ConsumersIdGet(id), ConsumersIdGet(id), add, remove)
    BY <1>2 DEF RunUpdate
  <2> DEFINE req == ConsumersIdGet(id)
  <2>2. req \in Request /\ req.op = "ConsumersIdGet" /\ WellFormed(req)
    BY IdTyped
  <2>3. \A c : c.kind = "update" /\ c.req = req => FirstRequest(c, req)
    BY <2>2 DEF FirstRequest
  <2>4. Start(u, "update", req, req, add, remove)
    BY <2>1, SMTT(30)
  <2> HIDE DEF req
  <2> QED
    BY <1>0, <2>2, <2>3, <2>4, StartKeeps
<1>3. CASE RunDelete(u)
  <2>1. PICK id \in ConsumerIds : StartOne(u, "delete", ConsumersIdDelete(id))
    BY <1>3, SMTT(30) DEF RunDelete
  <2> DEFINE req == ConsumersIdDelete(id)
  <2>2. req \in Request /\ req.op = "ConsumersIdDelete" /\ WellFormed(req)
    BY IdTyped
  <2>3. \A c : c.kind = "delete" /\ c.req = req => FirstRequest(c, req)
    BY <2>2 DEF FirstRequest
  <2>4. StartOne(u, "delete", req)
    BY <2>1, SMTT(30)
  <2> HIDE DEF req
  <2> QED
    BY <1>0, <2>2, <2>3, <2>4, StartOneKeeps
<1>4. CASE RunGet(u)
  <2>1. PICK id \in ConsumerIds : StartOne(u, "call", ConsumersIdGet(id))
    BY <1>4, SMTT(30) DEF RunGet
  <2> QED
    BY <2>1, IdTyped, StartCallKeeps
<1> QED
  BY <1>1, <1>2, <1>3, <1>4, SMTT(30)

LEMMA BundleCommandStep ==
  ASSUME CInv, Observe, NEW u \in Users, RunApply(u) \/ RunBundleDelete(u) \/ RunBundleGet(u)
  PROVE  CInv' /\ StoreStep
<1> USE ZenonT(60)
<1>0. {"apply", "bundleDelete"} \subseteq Kinds /\ {} \in SUBSET Labels
  BY SMTT(30) DEF Kinds
<1>1. ASSUME NEW id \in BundleIds, NEW manifest \in Manifests, NEW version \in 0..2,
             Start(u, "apply", Apply("update_request", id, None, version, manifest),
                   ResourceBundlesIdGet(id), {}, {})
      PROVE  CInv' /\ StoreStep
  <2> DEFINE req == Apply("update_request", id, None, version, manifest)
             sent == ResourceBundlesIdGet(id)
             payload == [manifest |-> manifest, event |-> "fresh"]
  <2>1. payload \in Payload /\ version \in Nat /\ "update_request" \in PublishOps
        /\ "update_request" # "create_request"
    BY SMTT(30) DEF Payload, PublishOps
  <2> HIDE DEF payload
  <2>2. req \in Request /\ req.op = "update_request" /\ req.id = id /\ WellFormed(req)
    BY <2>1, PublishTyped, SMTT(30) DEF Apply, payload
  <2>3. sent \in Request /\ sent.op = "ResourceBundlesIdGet" /\ sent.id = id /\ WellFormed(sent)
    BY IdTyped
  <2>4. Start(u, "apply", req, sent, {}, {})
    BY <1>1, SMTT(30)
  <2> HIDE DEF req, sent
  <2>5. \A c : c.kind = "apply" /\ c.req = req => FirstRequest(c, sent)
    BY <2>2, <2>3 DEF FirstRequest
  <2> QED
    BY <1>0, <2>2, <2>3, <2>4, <2>5, StartKeeps
<1>2. ASSUME NEW name \in Names, NEW manifest \in Manifests, NEW id \in BundleIds,
             StartOne(u, "apply", Apply("create_request", id, name, 0, manifest))
      PROVE  CInv' /\ StoreStep
  <2> DEFINE req == Apply("create_request", id, name, 0, manifest)
             payload == [manifest |-> manifest, event |-> "fresh"]
  <2>1. payload \in Payload /\ 0 \in Nat /\ "create_request" \in PublishOps /\ name # None
    BY ApiAssumption, SMTT(30) DEF Payload, PublishOps
  <2> HIDE DEF payload
  <2>2. req \in Request /\ req.op = "create_request" /\ WellFormed(req)
    BY <2>1, PublishTyped, SMTT(30) DEF Apply, payload
  <2>3. StartOne(u, "apply", req)
    BY <1>2, SMTT(30)
  <2> HIDE DEF req
  <2>4. \A c : c.kind = "apply" /\ c.req = req => FirstRequest(c, req)
    BY <2>2 DEF FirstRequest
  <2> QED
    BY <1>0, <2>2, <2>3, <2>4, StartOneKeeps
<1>3. ASSUME NEW id \in BundleIds, StartOne(u, "bundleDelete", ResourceBundlesIdGet(id))
      PROVE  CInv' /\ StoreStep
  <2> DEFINE req == ResourceBundlesIdGet(id)
  <2>1. req \in Request /\ req.op = "ResourceBundlesIdGet" /\ WellFormed(req)
    BY IdTyped
  <2>2. StartOne(u, "bundleDelete", req)
    BY <1>3, SMTT(30)
  <2> HIDE DEF req
  <2>3. \A c : c.kind = "bundleDelete" /\ c.req = req => FirstRequest(c, req)
    BY <2>1 DEF FirstRequest
  <2> QED
    BY <1>0, <2>1, <2>2, <2>3, StartOneKeeps
<1>4. ASSUME NEW id \in BundleIds, StartOne(u, "call", ResourceBundlesIdGet(id))
      PROVE  CInv' /\ StoreStep
  BY <1>4, IdTyped, StartCallKeeps
<1> QED
  BY <1>1, <1>2, <1>3, <1>4 DEF RunApply, RunBundleDelete, RunBundleGet

LEMMA OtherClientStep ==
  ASSUME CInv, Observe, NEW u \in Users, StartCall(u)
  PROVE  CInv' /\ StoreStep
<1> USE ZenonT(60)
<1>0. {} \in SUBSET Labels
  OBVIOUS
<1>1. ASSUME NEW id \in ConsumerIds, StartOne(u, "call", [ConsumersPost(None, {}) EXCEPT !.id = id])
      PROVE  CInv' /\ StoreStep
  <2> DEFINE post == ConsumersPost(None, {})
             req == [post EXCEPT !.id = id]
  <2>1. post \in Request /\ post.op = "ConsumersPost"
    BY <1>0, PostTyped
  <2>2. StartOne(u, "call", req)
    BY <1>1, SMTT(30)
  <2> HIDE DEF post
  <2>3. req \in Request /\ req.op = "ConsumersPost"
    BY <2>1 DEF Request
  <2> HIDE DEF req
  <2>4. WellFormed(req)
    BY <2>3, SMTT(30) DEF WellFormed, Deletes, PublishOps
  <2> QED
    BY <2>2, <2>3, <2>4, StartCallKeeps
<1>2. ASSUME NEW id \in ConsumerIds, StartOne(u, "call", [ConsumersIdPatch(id, {}) EXCEPT !.nil = TRUE])
      PROVE  CInv' /\ StoreStep
  <2> DEFINE patch == ConsumersIdPatch(id, {})
             req == [patch EXCEPT !.nil = TRUE]
  <2>1. patch \in Request /\ WellFormed(patch)
    BY <1>0, PatchTyped
  <2>2. StartOne(u, "call", req)
    BY <1>2, SMTT(30)
  <2> HIDE DEF patch
  <2>3. req \in Request /\ req.op = patch.op /\ req.id = patch.id /\ req.payload = patch.payload
        /\ req.name = patch.name
    BY <2>1 DEF Request
  <2> HIDE DEF req
  <2>4. WellFormed(req)
    BY <2>1, <2>3 DEF WellFormed
  <2> QED
    BY <2>2, <2>3, <2>4, StartCallKeeps
<1>3. ASSUME StartOne(u, "call", ConsumersPost(None, {}))
      PROVE  CInv' /\ StoreStep
  BY <1>0, <1>3, PostTyped, StartCallKeeps
<1>4. ASSUME NEW id \in BundleIds, StartOne(u, "call", ResourceBundlesIdDelete(id))
      PROVE  CInv' /\ StoreStep
  BY <1>4, IdTyped, StartCallKeeps
<1>5. ASSUME NEW id \in BundleIds, NEW payload \in [manifest: Manifests, event: EventIds],
             NEW name \in Names, NEW version \in {0, 2},
             StartOne(u, "call", Publish("create_request", id, name, version, payload))
      PROVE  CInv' /\ StoreStep
  <2>1. payload \in Payload /\ version \in Nat /\ "create_request" \in PublishOps /\ name # None
    BY ApiAssumption, SMTT(30) DEF Payload, PublishOps
  <2> QED
    BY <1>5, <2>1, PublishTyped, StartCallKeeps
<1>6. ASSUME NEW id \in BundleIds, NEW payload \in [manifest: Manifests, event: EventIds],
             NEW version \in 0..1,
             StartOne(u, "call", Publish("update_request", id, None, version, payload))
      PROVE  CInv' /\ StoreStep
  <2>1. payload \in Payload /\ version \in Nat /\ "update_request" \in PublishOps
        /\ "update_request" # "create_request"
    BY SMTT(30) DEF Payload, PublishOps
  <2> QED
    BY <1>6, <2>1, PublishTyped, StartCallKeeps
<1> QED
  BY <1>1, <1>2, <1>3, <1>4, <1>5, <1>6 DEF StartCall

-----------------------------------------------------------------------------
LEMMA ServerAnswers ==
  ASSUME CInv, NEW u \in Users, ServerSteps(u), Observe
  PROVE  CInv' /\ StoreStep
<1>1. (ServerStep(u) \/ StatementFails(u)) /\ Unasked /\ RInv
  BY DEF ServerSteps, Unasked, CInv
<1>2. RInv' /\ StoreStep
  BY <1>1, ApiStep DEF ApiNext
<1>3. CInv'
  BY <1>1, <1>2, HandleRestAnswers, HandlePublishAnswers, ConsumerCreateAnswers, ConsumerGetAnswers,
     ConsumerPatchAnswers, ConsumerReplaceAnswers, ConsumerDeleteAnswers, BundleCreateAnswers,
     BundleGetAnswers, PublishGetAnswers, LockAnswers, UpdateReadAnswers, UpdateWriteAnswers,
     MarkAsDeletingAnswers, SoftDeleteAnswers, InsertEventAnswers, StatementFailsAnswers,
     ZenonT(60) DEF ServerStep
<1> QED
  BY <1>2, <1>3, SMTT(30)

\* A step in which no user takes part.
LEMMA NobodySteps ==
  ASSUME CInv, RInv', Observe, UNCHANGED <<cmd, call, commands>>
  PROVE  CInv'
<1> USE ZenonT(60)
<1>1. TypeOK'
  BY SeenTyped DEF CInv, TypeOK, RInv
<1>2. ASSUME NEW v \in Users
      PROVE  Consistent(cmd'[v], call'[v], seen'[v])
  BY OthersKept
<1> QED
  BY <1>1, <1>2 DEF CInv

LEMMA PurgeAnswers ==
  ASSUME CInv, NEW b \in BundleIds, Purge(b), UNCHANGED <<cmd, commands>>, Observe
  PROVE  CInv' /\ StoreStep
<1> USE ZenonT(60)
<1>1. RInv' /\ StoreStep
  BY PurgeStep DEF CInv
<1>2. call' = call
  BY DEF Purge
<1> QED
  BY <1>1, <1>2, NobodySteps

LEMMA CliInit == Init => CInv
<1> SUFFICES ASSUME Init PROVE CInv
  OBVIOUS
<1>1. RInv
  BY InitRInv DEF Init
<1>2. TypeOK
  <2>1. cmd \in [Users -> Command] /\ seen \in [Users -> SUBSET Messages]
    BY CommandsTyped, ZenonT(60) DEF Init
  <2>2. commands \in 0..MaxCommands
    BY CliAssumption DEF Init
  <2> QED
    BY <1>1, <2>1, <2>2, ZenonT(60) DEF TypeOK, RInv
<1>3. ASSUME NEW u \in Users PROVE Consistent(cmd[u], call[u], seen[u])
  <2>1. cmd[u].pc = "idle" /\ call[u].pc = "idle"
    BY DEF Init, ApiInit, IdleCommand, IdleCall
  <2>2. InOrder(cmd[u], call[u]) /\ SavesPatch(call[u])
    BY <2>1, ZenonT(60) DEF InOrder, SavesPatch, Active
  <2> QED
    BY <2>1, <2>2, ZenonT(60) DEF Consistent
<1> QED
  BY <1>1, <1>2, <1>3, ZenonT(60) DEF CInv

LEMMA CliStutters ==
  ASSUME CInv, UNCHANGED vars
  PROVE  CInv' /\ StoreStep
<1>1. UNCHANGED <<cmd, seen, commands, call>> /\ UNCHANGED apiVars
  BY DEF vars, apiVars
<1>2. RInv' /\ StoreStep
  BY <1>1, ApiStep DEF CInv
<1>3. TypeOK'
  BY <1>1, <1>2, ZenonT(60) DEF CInv, TypeOK, RInv
<1>4. \A v \in Users : Consistent(cmd'[v], call'[v], seen'[v])
  BY <1>1, ZenonT(60) DEF CInv
<1>5. CInv'
  BY <1>2, <1>3, <1>4, ZenonT(60) DEF CInv
<1> QED
  BY <1>2, <1>5

LEMMA CliStep == CInv /\ [Next]_vars => CInv' /\ StoreStep
<1> USE ZenonT(60)
<1> SUFFICES ASSUME CInv, [Next]_vars PROVE CInv' /\ StoreStep
  OBVIOUS
<1>1. ASSUME NEW u \in Users, StartCommand(u), Observe PROVE CInv' /\ StoreStep
  BY <1>1, ConsumerCommandStep, BundleCommandStep, OtherClientStep DEF StartCommand
<1>2. ASSUME NEW u \in Users, ClientStep(u), Observe PROVE CInv' /\ StoreStep
  BY <1>2, FirstAnswerStep, UpdateMergesStep, ApplyComparesStep, DeleteAsksStep, SecondCallStep,
     SecondAnswerStep, DiscardStep DEF ClientStep
<1> QED
  BY <1>1, <1>2, NoAnswerStep, ServerAnswers, PurgeAnswers, CliStutters DEF Next

\* The commands, the calls and the tables keep their types, whatever the
\* clients run at the same time.
THEOREM CliTyped == Spec => []TypeOK
<1>1. CInv => TypeOK
  BY SMTT(30) DEF CInv
<1> QED
  BY <1>1, CliInit, CliStep, PTL DEF Spec

\* No command claims what was at no moment true: a consumer or a bundle that
\* "was not found" was not there, one that was updated or applied has had these
\* labels or this manifest, one that was deleted was gone or under deletion
\* (rest.go and grpc.go, which make messages of the statuses), for any number
\* of users, consumers and bundles, with any calls of other clients, lost
\* answers and failed statements between the two calls of the command.
THEOREM CommandsTellTrue == Spec => []AnswersTrue
<1>1. CInv => AnswersTrue
  BY ZenonT(60) DEF CInv, AnswersTrue, Consistent
<1> QED
  BY <1>1, CliInit, CliStep, PTL DEF Spec

\* The commands run against the same locks (Update, MarkAsDeleting): no answer
\* that is lost, and no command that is given up, leaves one behind.
THEOREM CommandsLocked == Spec => []LockedCalls
<1>1. CInv => LockedCalls
  BY DEF CInv, RInv
<1> QED
  BY <1>1, CliInit, CliStep, PTL DEF Spec

\* The commands are clients of the store of versioned objects: whatever they
\* run at the same time, give up or have to send again, every call of theirs
\* that succeeds takes effect once, at one moment.
THEOREM CommandsImplementStore == Spec => ImplementsVersionedStore
<1>1. StoreStep => [Store!Next]_<<AbstractStore, AbstractOp>>
  BY DEF StoreStep
<1>2. Init => Store!Init
  BY InitMaps DEF Init
<1> QED
  BY <1>1, <1>2, CliInit, CliStep, PTL DEF Spec, ImplementsVersionedStore, Store!Spec
====
