---------------------- MODULE ConnectionLifecycle_proofs ----------------------
(***************************************************************************)
(* Proofs that ConnectionLifecycle keeps its safety properties for any     *)
(* number of tenants, flows and worker threads, with or without faults.    *)
(***************************************************************************)
EXTENDS ConnectionLifecycle, TLAPS

(* Secret references are the poll tokens and app passwords of the flows,   *)
(* all different.                                                          *)
LEMMA RefsFacts ==
    /\ \A f \in Flows : PollToken(f) \in Refs /\ AppPassword(f) \in Refs
    /\ \A f, g \in Flows : PollToken(f) # AppPassword(g)
    /\ \A f, g \in Flows : PollToken(f) = PollToken(g) => f = g
    /\ \A f, g \in Flows : AppPassword(f) = AppPassword(g) => f = g
  BY DEF Refs, PollToken, AppPassword

(* A call in flight has a tenant and a flow. *)
LEMMA CallFacts ==
    ASSUME TypeOK, NEW p \in Requests, req[p].at # "idle"
    PROVE  req[p] \in Calls /\ req[p].tenant \in Tenants /\ req[p].flow \in Flows
  BY DEF TypeOK, Calls, Idle

(* What Goto does to the calls. *)
LEMMA GotoFacts ==
    ASSUME TypeOK, NEW p \in Requests, req[p].at # "idle",
           NEW step \in Steps \ {"idle"}, Goto(p, step)
    PROVE  /\ req' \in [Requests -> Calls \union {Idle}]
           /\ req'[p].at = step /\ req'[p].flow = req[p].flow
           /\ req'[p].tenant = req[p].tenant
           /\ \A q \in Requests : q # p => req'[q] = req[q]
  BY CallFacts DEF TypeOK, Calls, Goto

(* What Return does to the calls. *)
LEMMA ReturnFacts ==
    ASSUME TypeOK, NEW p \in Requests, Return(p)
    PROVE  /\ req' \in [Requests -> Calls \union {Idle}]
           /\ req'[p] = Idle
           /\ \A q \in Requests : q # p => req'[q] = req[q]
  BY DEF TypeOK, Return

(* What Start does to the calls. *)
LEMMA StartFacts ==
    ASSUME TypeOK, NEW p \in Requests, NEW t \in Tenants, NEW f \in Flows,
           NEW step \in Steps \ {"idle"}, Start(p, step, t, f)
    PROVE  /\ req' \in [Requests -> Calls \union {Idle}]
           /\ req[p] = Idle
           /\ req'[p].at = step /\ req'[p].flow = f /\ req'[p].tenant = t
           /\ \A q \in Requests : q # p => req'[q] = req[q]
  BY DEF TypeOK, Start, Calls, Idle

(* The parts of the invariant, at hand in every step. *)
LEMMA Parts ==
    IInv => /\ TypeOK /\ TenantIsolation /\ Started /\ BeginInv /\ HoldInv
            /\ LinkInv /\ CallInv /\ SweepInv /\ LivePasswordAccounted
  BY DEF IInv

(* A call in flight works for the owner of its flow, which has begun. *)
LEMMA InFlight ==
    ASSUME IInv, NEW p \in Requests, req[p].at # "idle"
    PROVE  /\ req[p].flow \in Flows
           /\ req[p].tenant \in Tenants /\ req[p].tenant # NoTenant
           /\ req[p].tenant = owner[req[p].flow]
           /\ remote[req[p].flow] # "unused"
  BY Parts, CallFacts, ConstantsAssumption DEF TenantIsolation, Started, Idle, ConstantsAssumption

(* The poll token is stored while its call is alone with the flow. *)
LEMMA PutPollTokenPreserves ==
    ASSUME IInv, NEW p \in Requests, PutPollToken(p)
    PROVE  IInv'
<1>1. /\ TypeOK /\ TenantIsolation /\ Started /\ BeginInv /\ HoldInv
      /\ LinkInv /\ CallInv /\ SweepInv /\ LivePasswordAccounted
  BY Parts
<1>2. PICK f \in Flows : /\ req[p].flow = f /\ req[p].at = "putPollToken"
                         /\ req[p].tenant = owner[f] /\ owner[f] \in Tenants
                         /\ owner[f] # NoTenant /\ remote[f] # "unused"
  BY InFlight DEF PutPollToken
<1>3. /\ secrets' \in [Refs -> Rows] /\ secrets'[PollToken(f)] = owner[f]
      /\ \A r \in Refs : r # PollToken(f) => secrets'[r] = secrets[r]
      /\ UNCHANGED <<pending, conns, expired, aged, remote, owner, sweep, history>>
  BY <1>1, <1>2, RefsFacts DEF PutPollToken, Rows, TypeOK, clocks, external, tables
<1>4. /\ req' \in [Requests -> Calls \union {Idle}]
      /\ req'[p].at = "putPending" /\ req'[p].flow = f /\ req'[p].tenant = owner[f]
      /\ \A q \in Requests : q # p => req'[q] = req[q]
  BY <1>1, <1>2, GotoFacts DEF PutPollToken, Steps, BeginSteps, PollSteps, DisconnectSteps, UseSteps
<1>5. /\ pending[f] = NoTenant /\ PollToken(f) \notin aged
      /\ \A q \in Requests : req[q].flow = f /\ q # p => req[q].at \notin BeginSteps
  BY <1>1, <1>2 DEF BeginSteps, BeginInv
<1>6. TypeOK'
  BY <1>1, <1>2, <1>3, <1>4, <1>5, RefsFacts, ConstantsAssumption
  DEF TypeOK, Rows, Events
<1>7. TenantIsolation'
  BY <1>1, <1>2, <1>3, <1>4, <1>5, RefsFacts
  DEF TypeOK, TenantIsolation
<1>8. Started'
  BY <1>1, <1>2, <1>3, <1>4, <1>5, RefsFacts
  DEF TypeOK, Started
<1>9. BeginInv'
  BY <1>1, <1>2, <1>3, <1>4, <1>5, RefsFacts, ConstantsAssumption
  DEF TypeOK, BeginInv, BeginSteps, Idle, ConstantsAssumption
<1>10. HoldInv'
  BY <1>1, <1>2, <1>3, <1>4, <1>5, RefsFacts
  DEF TypeOK, HoldInv, Holding, Minted, Idle
<1>11. LinkInv'
  BY <1>1, <1>2, <1>3, <1>4, <1>5, RefsFacts
  DEF TypeOK, LinkInv, Linked, Minted, Excused, Excuses
<1>12. CallInv'
  BY <1>1, <1>2, <1>3, <1>4, <1>5, RefsFacts
  DEF TypeOK, CallInv, DisconnectSteps, Excused, Excuses, Idle
<1>13. SweepInv'
  BY <1>1, <1>2, <1>3, <1>4, <1>5, RefsFacts
  DEF TypeOK, SweepInv
<1>14. LivePasswordAccounted'
  BY <1>1, <1>2, <1>3, <1>4, <1>5, RefsFacts
  DEF TypeOK, LivePasswordAccounted, Linked, Holding, Excused, Excuses, Idle
<1> QED
  BY <1>6, <1>7, <1>8, <1>9, <1>10, <1>11, <1>12, <1>13, <1>14 DEF IInv

(* The pending row names a token that maintenance cannot have selected. *)
LEMMA PutPendingPreserves ==
    ASSUME IInv, NEW p \in Requests, PutPending(p)
    PROVE  IInv'
<1>1. /\ TypeOK /\ TenantIsolation /\ Started /\ BeginInv /\ HoldInv
      /\ LinkInv /\ CallInv /\ SweepInv /\ LivePasswordAccounted
  BY Parts
<1>2. PICK f \in Flows : /\ req[p].flow = f /\ req[p].at = "putPending"
                         /\ req[p].tenant = owner[f] /\ owner[f] \in Tenants
                         /\ owner[f] # NoTenant /\ remote[f] # "unused"
  BY InFlight DEF PutPending
<1>3. /\ pending' \in [Flows -> Rows] /\ pending'[f] = owner[f]
      /\ \A g \in Flows : g # f => pending'[g] = pending[g]
      /\ UNCHANGED <<conns, secrets, expired, aged, remote, owner, sweep, history>>
  BY <1>1, <1>2, RefsFacts DEF PutPending, Rows, TypeOK, clocks, external, tables
<1>4. /\ req' \in [Requests -> Calls \union {Idle}]
      /\ req'[p] = Idle
      /\ \A q \in Requests : q # p => req'[q] = req[q]
  BY <1>1, <1>2, ReturnFacts DEF PutPending
<1>5. /\ secrets[PollToken(f)] # NoTenant /\ PollToken(f) \notin aged
      /\ \A q \in Requests : req[q].flow = f => q = p
      /\ \A q \in Requests : req[q].flow = f /\ q # p => req[q].at \notin BeginSteps
  BY <1>1, <1>2 DEF BeginSteps, BeginInv
<1>6. TypeOK'
  BY <1>1, <1>2, <1>3, <1>4, <1>5, RefsFacts, ConstantsAssumption
  DEF TypeOK, Rows, Events
<1>7. TenantIsolation'
  BY <1>1, <1>2, <1>3, <1>4, <1>5, RefsFacts
  DEF TypeOK, TenantIsolation
<1>8. Started'
  BY <1>1, <1>2, <1>3, <1>4, <1>5, RefsFacts
  DEF TypeOK, Started
<1>9. BeginInv'
  BY <1>1, <1>2, <1>3, <1>4, <1>5, RefsFacts, ConstantsAssumption
  DEF TypeOK, BeginInv, BeginSteps, Idle, ConstantsAssumption
<1>10. HoldInv'
  BY <1>1, <1>2, <1>3, <1>4, <1>5, RefsFacts
  DEF TypeOK, HoldInv, Holding, Minted, Idle
<1>11. LinkInv'
  BY <1>1, <1>2, <1>3, <1>4, <1>5, RefsFacts
  DEF TypeOK, LinkInv, Linked, Minted, Excused, Excuses
<1>12. CallInv'
  BY <1>1, <1>2, <1>3, <1>4, <1>5, RefsFacts
  DEF TypeOK, CallInv, DisconnectSteps, Excused, Excuses, Idle
<1>13. SweepInv'
  BY <1>1, <1>2, <1>3, <1>4, <1>5, RefsFacts
  DEF TypeOK, SweepInv
<1>14. LivePasswordAccounted'
  BY <1>1, <1>2, <1>3, <1>4, <1>5, RefsFacts
  DEF TypeOK, LivePasswordAccounted, Linked, Holding, Excused, Excuses, Idle
<1> QED
  BY <1>6, <1>7, <1>8, <1>9, <1>10, <1>11, <1>12, <1>13, <1>14 DEF IInv

(* A failed begin deletes a token no row names. *)
LEMMA DropPollTokenPreserves ==
    ASSUME IInv, NEW p \in Requests, DropPollToken(p)
    PROVE  IInv'
<1>1. /\ TypeOK /\ TenantIsolation /\ Started /\ BeginInv /\ HoldInv
      /\ LinkInv /\ CallInv /\ SweepInv /\ LivePasswordAccounted
  BY Parts
<1>2. PICK f \in Flows : /\ req[p].flow = f /\ req[p].at = "dropPollToken"
                         /\ req[p].tenant = owner[f] /\ owner[f] \in Tenants
                         /\ owner[f] # NoTenant /\ remote[f] # "unused"
  BY InFlight DEF DropPollToken
<1>3. /\ secrets' \in [Refs -> Rows] /\ secrets'[PollToken(f)] = NoTenant
      /\ \A r \in Refs : r # PollToken(f) => secrets'[r] = secrets[r]
      /\ UNCHANGED <<pending, conns, expired, aged, remote, owner, sweep, history>>
  BY <1>1, <1>2, RefsFacts DEF DropPollToken, Rows, Without, Owned, TenantIsolation, TypeOK, clocks, external, tables
<1>4. /\ req' \in [Requests -> Calls \union {Idle}]
      /\ req'[p] = Idle
      /\ \A q \in Requests : q # p => req'[q] = req[q]
  BY <1>1, <1>2, ReturnFacts DEF DropPollToken
<1>5. /\ pending[f] = NoTenant
      /\ \A q \in Requests : req[q].flow = f => q = p
      /\ \A q \in Requests : req[q].flow = f /\ q # p => req[q].at \notin BeginSteps
  BY <1>1, <1>2 DEF BeginSteps, BeginInv
<1>6. TypeOK'
  BY <1>1, <1>2, <1>3, <1>4, <1>5, RefsFacts, ConstantsAssumption
  DEF TypeOK, Rows, Events
<1>7. TenantIsolation'
  BY <1>1, <1>2, <1>3, <1>4, <1>5, RefsFacts
  DEF TypeOK, TenantIsolation
<1>8. Started'
  BY <1>1, <1>2, <1>3, <1>4, <1>5, RefsFacts
  DEF TypeOK, Started
<1>9. BeginInv'
  BY <1>1, <1>2, <1>3, <1>4, <1>5, RefsFacts, ConstantsAssumption
  DEF TypeOK, BeginInv, BeginSteps, Idle, ConstantsAssumption
<1>10. HoldInv'
  BY <1>1, <1>2, <1>3, <1>4, <1>5, RefsFacts
  DEF TypeOK, HoldInv, Holding, Minted, Idle
<1>11. LinkInv'
  BY <1>1, <1>2, <1>3, <1>4, <1>5, RefsFacts
  DEF TypeOK, LinkInv, Linked, Minted, Excused, Excuses
<1>12. CallInv'
  BY <1>1, <1>2, <1>3, <1>4, <1>5, RefsFacts
  DEF TypeOK, CallInv, DisconnectSteps, Excused, Excuses, Idle
<1>13. SweepInv'
  BY <1>1, <1>2, <1>3, <1>4, <1>5, RefsFacts
  DEF TypeOK, SweepInv
<1>14. LivePasswordAccounted'
  BY <1>1, <1>2, <1>3, <1>4, <1>5, RefsFacts
  DEF TypeOK, LivePasswordAccounted, Linked, Holding, Excused, Excuses, Idle
<1> QED
  BY <1>6, <1>7, <1>8, <1>9, <1>10, <1>11, <1>12, <1>13, <1>14 DEF IInv

(* The app password is stored by the only call that received it. *)
LEMMA PutAppPasswordPreserves ==
    ASSUME IInv, NEW p \in Requests, PutAppPassword(p)
    PROVE  IInv'
<1>1. /\ TypeOK /\ TenantIsolation /\ Started /\ BeginInv /\ HoldInv
      /\ LinkInv /\ CallInv /\ SweepInv /\ LivePasswordAccounted
  BY Parts
<1>2. PICK f \in Flows : /\ req[p].flow = f /\ req[p].at = "putAppPassword"
                         /\ req[p].tenant = owner[f] /\ owner[f] \in Tenants
                         /\ owner[f] # NoTenant /\ remote[f] # "unused"
  BY InFlight DEF PutAppPassword
<1>3. /\ secrets' \in [Refs -> Rows] /\ secrets'[AppPassword(f)] = owner[f]
      /\ \A r \in Refs : r # AppPassword(f) => secrets'[r] = secrets[r]
      /\ UNCHANGED <<pending, conns, expired, aged, remote, owner, sweep, history>>
  BY <1>1, <1>2, RefsFacts DEF PutAppPassword, Rows, TypeOK, clocks, external, tables
<1>4. /\ req' \in [Requests -> Calls \union {Idle}]
      /\ req'[p].at = "putConnection" /\ req'[p].flow = f /\ req'[p].tenant = owner[f]
      /\ \A q \in Requests : q # p => req'[q] = req[q]
  BY <1>1, <1>2, GotoFacts DEF PutAppPassword, Steps, BeginSteps, PollSteps, DisconnectSteps, UseSteps
<1>5. /\ Minted(f) /\ "connected" \notin history[f] /\ AppPassword(f) \notin aged
      /\ Holding(p, f) /\ secrets[AppPassword(f)] = NoTenant
      /\ \A q \in Requests : req[q].flow = f /\ q # p => req[q].at \notin BeginSteps
  BY <1>1, <1>2 DEF HoldInv, Holding, BeginInv
<1>6. TypeOK'
  BY <1>1, <1>2, <1>3, <1>4, <1>5, RefsFacts, ConstantsAssumption
  DEF TypeOK, Rows, Events
<1>7. TenantIsolation'
  BY <1>1, <1>2, <1>3, <1>4, <1>5, RefsFacts
  DEF TypeOK, TenantIsolation
<1>8. Started'
  BY <1>1, <1>2, <1>3, <1>4, <1>5, RefsFacts
  DEF TypeOK, Started
<1>9. BeginInv'
  <2> SUFFICES ASSUME NEW q \in Requests, NEW g \in Flows,
                      req'[q].flow = g, req'[q].at \in BeginSteps
               PROVE  /\ pending[g] = NoTenant /\ g \notin sweep.flows
                      /\ "connected" \notin history[g]
                      /\ \A r \in Requests : req'[r].flow = g => r = q
                      /\ req'[q].at = "putPollToken" =>
                            secrets'[PollToken(g)] = NoTenant /\ PollToken(g) \notin aged
                      /\ req'[q].at = "putPending" =>
                            secrets'[PollToken(g)] # NoTenant /\ PollToken(g) \notin aged
    BY <1>3 DEF BeginInv
  <2>1. q # p /\ req'[q] = req[q]
    BY <1>4 DEF BeginSteps
  <2>2. g # f
    BY <1>5, <2>1
  <2>3. secrets'[PollToken(g)] = secrets[PollToken(g)]
    BY <1>3, RefsFacts
  <2>4. \A r \in Requests : req'[r].flow = g => r # p /\ req[r].flow = g
    BY <1>4, <2>2
  <2> QED
    BY <1>1, <2>1, <2>3, <2>4 DEF BeginInv
<1>10. HoldInv'
  BY <1>1, <1>2, <1>3, <1>4, <1>5, RefsFacts
  DEF TypeOK, HoldInv, Holding, Minted, Idle
<1>11. LinkInv'
  BY <1>1, <1>2, <1>3, <1>4, <1>5, RefsFacts
  DEF TypeOK, LinkInv, Linked, Minted, Excused, Excuses
<1>12. CallInv'
  BY <1>1, <1>2, <1>3, <1>4, <1>5, RefsFacts
  DEF TypeOK, CallInv, DisconnectSteps, Excused, Excuses, Idle
<1>13. SweepInv'
  BY <1>1, <1>2, <1>3, <1>4, <1>5, RefsFacts
  DEF TypeOK, SweepInv
<1>14. LivePasswordAccounted'
  BY <1>1, <1>2, <1>3, <1>4, <1>5, RefsFacts
  DEF TypeOK, LivePasswordAccounted, Linked, Holding, Excused, Excuses, Idle
<1> QED
  BY <1>6, <1>7, <1>8, <1>9, <1>10, <1>11, <1>12, <1>13, <1>14 DEF IInv

(* The row is committed while the password it names is still protected. *)
LEMMA PutConnectionPreserves ==
    ASSUME IInv, NEW p \in Requests, PutConnection(p)
    PROVE  IInv'
<1>1. /\ TypeOK /\ TenantIsolation /\ Started /\ BeginInv /\ HoldInv
      /\ LinkInv /\ CallInv /\ SweepInv /\ LivePasswordAccounted
  BY Parts
<1>2. PICK f \in Flows : /\ req[p].flow = f /\ req[p].at = "putConnection"
                         /\ req[p].tenant = owner[f] /\ owner[f] \in Tenants
                         /\ owner[f] # NoTenant /\ remote[f] # "unused"
  BY InFlight DEF PutConnection
<1>3. /\ conns' \in [Flows -> Rows] /\ conns'[f] = owner[f]
      /\ \A g \in Flows : g # f => conns'[g] = conns[g]
      /\ history' \in [Flows -> SUBSET Events] /\ history'[f] = history[f] \union {"connected"}
      /\ \A g \in Flows : g # f => history'[g] = history[g]
      /\ UNCHANGED <<pending, secrets, expired, aged, remote, owner, sweep>>
  BY <1>1, <1>2, RefsFacts DEF PutConnection, UpsertConnection, Note, Rows, Events, TypeOK, clocks, external, tables
<1>4. /\ req' \in [Requests -> Calls \union {Idle}]
      /\ req'[p].at = "consumeToken" /\ req'[p].flow = f /\ req'[p].tenant = owner[f]
      /\ \A q \in Requests : q # p => req'[q] = req[q]
  BY <1>1, <1>2, GotoFacts DEF PutConnection, Steps, BeginSteps, PollSteps, DisconnectSteps, UseSteps
<1>5. /\ Minted(f) /\ "connected" \notin history[f] /\ AppPassword(f) \notin aged
      /\ secrets[AppPassword(f)] # NoTenant
      /\ \A q \in Requests : Holding(q, f) => q = p
      /\ \A q \in Requests : req[q].flow = f /\ q # p => req[q].at \notin BeginSteps
  BY <1>1, <1>2 DEF HoldInv, Holding, BeginInv
<1>6. TypeOK'
  BY <1>1, <1>2, <1>3, <1>4, <1>5, RefsFacts, ConstantsAssumption
  DEF TypeOK, Rows, Events
<1>7. TenantIsolation'
  BY <1>1, <1>2, <1>3, <1>4, <1>5, RefsFacts
  DEF TypeOK, TenantIsolation
<1>8. Started'
  BY <1>1, <1>2, <1>3, <1>4, <1>5, RefsFacts
  DEF TypeOK, Started
<1>9. BeginInv'
  BY <1>1, <1>2, <1>3, <1>4, <1>5, RefsFacts, ConstantsAssumption
  DEF TypeOK, BeginInv, BeginSteps, Idle, ConstantsAssumption
<1>10. HoldInv'
  BY <1>1, <1>2, <1>3, <1>4, <1>5, RefsFacts
  DEF TypeOK, HoldInv, Holding, Minted, Idle, LinkInv
<1>11. LinkInv'
  BY <1>1, <1>2, <1>3, <1>4, <1>5, RefsFacts
  DEF TypeOK, LinkInv, Linked, Minted, Excused, Excuses
<1>12. CallInv'
  BY <1>1, <1>2, <1>3, <1>4, <1>5, RefsFacts
  DEF TypeOK, CallInv, DisconnectSteps, Excused, Excuses, Idle
<1>13. SweepInv'
  BY <1>1, <1>2, <1>3, <1>4, <1>5, RefsFacts
  DEF TypeOK, SweepInv
<1>14. LivePasswordAccounted'
  BY <1>1, <1>2, <1>3, <1>4, <1>5, RefsFacts
  DEF TypeOK, LivePasswordAccounted, Linked, Holding, Excused, Excuses, Idle
<1> QED
  BY <1>6, <1>7, <1>8, <1>9, <1>10, <1>11, <1>12, <1>13, <1>14 DEF IInv

(* A failed link deletes a password no row names. *)
LEMMA DropAppPasswordPreserves ==
    ASSUME IInv, NEW p \in Requests, DropAppPassword(p)
    PROVE  IInv'
<1>1. /\ TypeOK /\ TenantIsolation /\ Started /\ BeginInv /\ HoldInv
      /\ LinkInv /\ CallInv /\ SweepInv /\ LivePasswordAccounted
  BY Parts
<1>2. PICK f \in Flows : /\ req[p].flow = f /\ req[p].at = "dropAppPassword"
                         /\ req[p].tenant = owner[f] /\ owner[f] \in Tenants
                         /\ owner[f] # NoTenant /\ remote[f] # "unused"
  BY InFlight DEF DropAppPassword
<1>3. /\ secrets' \in [Refs -> Rows] /\ secrets'[AppPassword(f)] = NoTenant
      /\ \A r \in Refs : r # AppPassword(f) => secrets'[r] = secrets[r]
      /\ UNCHANGED <<pending, conns, expired, aged, remote, owner, sweep, history>>
  BY <1>1, <1>2, RefsFacts DEF DropAppPassword, Rows, Without, Owned, TenantIsolation, TypeOK, clocks, external, tables
<1>4. /\ req' \in [Requests -> Calls \union {Idle}]
      /\ req'[p].at = "revokeNew" /\ req'[p].flow = f /\ req'[p].tenant = owner[f]
      /\ \A q \in Requests : q # p => req'[q] = req[q]
  BY <1>1, <1>2, GotoFacts DEF DropAppPassword, Steps, BeginSteps, PollSteps, DisconnectSteps, UseSteps
<1>5. /\ Minted(f) /\ "connected" \notin history[f] /\ Holding(p, f)
      /\ \A q \in Requests : Holding(q, f) => q = p
      /\ \A q \in Requests : req[q].flow = f /\ q # p => req[q].at \notin BeginSteps
  BY <1>1, <1>2 DEF HoldInv, Holding, BeginInv
<1>6. TypeOK'
  BY <1>1, <1>2, <1>3, <1>4, <1>5, RefsFacts, ConstantsAssumption
  DEF TypeOK, Rows, Events
<1>7. TenantIsolation'
  BY <1>1, <1>2, <1>3, <1>4, <1>5, RefsFacts
  DEF TypeOK, TenantIsolation
<1>8. Started'
  BY <1>1, <1>2, <1>3, <1>4, <1>5, RefsFacts
  DEF TypeOK, Started
<1>9. BeginInv'
  BY <1>1, <1>2, <1>3, <1>4, <1>5, RefsFacts, ConstantsAssumption
  DEF TypeOK, BeginInv, BeginSteps, Idle, ConstantsAssumption
<1>10. HoldInv'
  BY <1>1, <1>2, <1>3, <1>4, <1>5, RefsFacts
  DEF TypeOK, HoldInv, Holding, Minted, Idle
<1>11. LinkInv'
  BY <1>1, <1>2, <1>3, <1>4, <1>5, RefsFacts
  DEF TypeOK, LinkInv, Linked, Minted, Excused, Excuses
<1>12. CallInv'
  BY <1>1, <1>2, <1>3, <1>4, <1>5, RefsFacts
  DEF TypeOK, CallInv, DisconnectSteps, Excused, Excuses, Idle
<1>13. SweepInv'
  BY <1>1, <1>2, <1>3, <1>4, <1>5, RefsFacts
  DEF TypeOK, SweepInv
<1>14. LivePasswordAccounted'
  BY <1>1, <1>2, <1>3, <1>4, <1>5, RefsFacts
  DEF TypeOK, LivePasswordAccounted, Linked, Holding, Excused, Excuses, Idle
<1> QED
  BY <1>6, <1>7, <1>8, <1>9, <1>10, <1>11, <1>12, <1>13, <1>14 DEF IInv

(* Consuming a flow removes its token and says so. *)
LEMMA ConsumeTokenPreserves ==
    ASSUME IInv, NEW p \in Requests, ConsumeToken(p)
    PROVE  IInv'
<1>1. /\ TypeOK /\ TenantIsolation /\ Started /\ BeginInv /\ HoldInv
      /\ LinkInv /\ CallInv /\ SweepInv /\ LivePasswordAccounted
  BY Parts
<1>2. PICK f \in Flows : /\ req[p].flow = f /\ req[p].at = "consumeToken"
                         /\ req[p].tenant = owner[f] /\ owner[f] \in Tenants
                         /\ owner[f] # NoTenant /\ remote[f] # "unused"
  BY InFlight DEF ConsumeToken
<1>3. /\ secrets' \in [Refs -> Rows] /\ secrets'[PollToken(f)] = NoTenant
      /\ \A r \in Refs : r # PollToken(f) => secrets'[r] = secrets[r]
      /\ history' \in [Flows -> SUBSET Events] /\ history'[f] = history[f] \union {"consumed"}
      /\ \A g \in Flows : g # f => history'[g] = history[g]
      /\ UNCHANGED <<pending, conns, expired, aged, remote, owner, sweep>>
  BY <1>1, <1>2, RefsFacts DEF ConsumeToken, Rows, Events, Without, Owned, Note, TenantIsolation, TypeOK, clocks, external, tables
<1>4. /\ req' \in [Requests -> Calls \union {Idle}]
      /\ req'[p].at = "consumeRow" /\ req'[p].flow = f /\ req'[p].tenant = owner[f]
      /\ \A q \in Requests : q # p => req'[q] = req[q]
  BY <1>1, <1>2, GotoFacts DEF ConsumeToken, Steps, BeginSteps, PollSteps, DisconnectSteps, UseSteps
<1>5. /\ pending[f] \in {NoTenant, owner[f]}
      /\ \A q \in Requests : req[q].flow = f /\ q # p => req[q].at \notin BeginSteps
  BY <1>1, <1>2 DEF TenantIsolation, BeginInv
<1>6. TypeOK'
  BY <1>1, <1>2, <1>3, <1>4, <1>5, RefsFacts, ConstantsAssumption
  DEF TypeOK, Rows, Events
<1>7. TenantIsolation'
  BY <1>1, <1>2, <1>3, <1>4, <1>5, RefsFacts
  DEF TypeOK, TenantIsolation
<1>8. Started'
  BY <1>1, <1>2, <1>3, <1>4, <1>5, RefsFacts
  DEF TypeOK, Started
<1>9. BeginInv'
  BY <1>1, <1>2, <1>3, <1>4, <1>5, RefsFacts, ConstantsAssumption
  DEF TypeOK, BeginInv, BeginSteps, Idle, ConstantsAssumption
<1>10. HoldInv'
  BY <1>1, <1>2, <1>3, <1>4, <1>5, RefsFacts
  DEF TypeOK, HoldInv, Holding, Minted, Idle
<1>11. LinkInv'
  BY <1>1, <1>2, <1>3, <1>4, <1>5, RefsFacts
  DEF TypeOK, LinkInv, Linked, Minted, Excused, Excuses
<1>12. CallInv'
  BY <1>1, <1>2, <1>3, <1>4, <1>5, RefsFacts
  DEF TypeOK, CallInv, DisconnectSteps, Excused, Excuses, Idle
<1>13. SweepInv'
  BY <1>1, <1>2, <1>3, <1>4, <1>5, RefsFacts
  DEF TypeOK, SweepInv
<1>14. LivePasswordAccounted'
  BY <1>1, <1>2, <1>3, <1>4, <1>5, RefsFacts
  DEF TypeOK, LivePasswordAccounted, Linked, Holding, Excused, Excuses, Idle
<1> QED
  BY <1>6, <1>7, <1>8, <1>9, <1>10, <1>11, <1>12, <1>13, <1>14 DEF IInv

(* Consuming a flow removes its row. *)
LEMMA ConsumeRowPreserves ==
    ASSUME IInv, NEW p \in Requests, ConsumeRow(p)
    PROVE  IInv'
<1>1. /\ TypeOK /\ TenantIsolation /\ Started /\ BeginInv /\ HoldInv
      /\ LinkInv /\ CallInv /\ SweepInv /\ LivePasswordAccounted
  BY Parts
<1>2. PICK f \in Flows : /\ req[p].flow = f /\ req[p].at = "consumeRow"
                         /\ req[p].tenant = owner[f] /\ owner[f] \in Tenants
                         /\ owner[f] # NoTenant /\ remote[f] # "unused"
  BY InFlight DEF ConsumeRow
<1>3. /\ pending' \in [Flows -> Rows] /\ pending'[f] = NoTenant
      /\ \A g \in Flows : g # f => pending'[g] = pending[g]
      /\ UNCHANGED <<conns, secrets, expired, aged, remote, owner, sweep, history>>
  BY <1>1, <1>2, RefsFacts DEF ConsumeRow, Rows, Without, Owned, TenantIsolation, TypeOK, clocks, external, tables
<1>4. /\ req' \in [Requests -> Calls \union {Idle}]
      /\ req'[p] = Idle
      /\ \A q \in Requests : q # p => req'[q] = req[q]
  BY <1>1, <1>2, ReturnFacts DEF ConsumeRow
<1>5. \A q \in Requests : req[q].flow = f /\ q # p => req[q].at \notin BeginSteps
  BY <1>1, <1>2 DEF BeginInv
<1>6. TypeOK'
  BY <1>1, <1>2, <1>3, <1>4, <1>5, RefsFacts, ConstantsAssumption
  DEF TypeOK, Rows, Events
<1>7. TenantIsolation'
  BY <1>1, <1>2, <1>3, <1>4, <1>5, RefsFacts
  DEF TypeOK, TenantIsolation
<1>8. Started'
  BY <1>1, <1>2, <1>3, <1>4, <1>5, RefsFacts
  DEF TypeOK, Started
<1>9. BeginInv'
  BY <1>1, <1>2, <1>3, <1>4, <1>5, RefsFacts, ConstantsAssumption
  DEF TypeOK, BeginInv, BeginSteps, Idle, ConstantsAssumption
<1>10. HoldInv'
  BY <1>1, <1>2, <1>3, <1>4, <1>5, RefsFacts
  DEF TypeOK, HoldInv, Holding, Minted, Idle
<1>11. LinkInv'
  BY <1>1, <1>2, <1>3, <1>4, <1>5, RefsFacts
  DEF TypeOK, LinkInv, Linked, Minted, Excused, Excuses
<1>12. CallInv'
  BY <1>1, <1>2, <1>3, <1>4, <1>5, RefsFacts
  DEF TypeOK, CallInv, DisconnectSteps, Excused, Excuses, Idle
<1>13. SweepInv'
  BY <1>1, <1>2, <1>3, <1>4, <1>5, RefsFacts
  DEF TypeOK, SweepInv
<1>14. LivePasswordAccounted'
  BY <1>1, <1>2, <1>3, <1>4, <1>5, RefsFacts
  DEF TypeOK, LivePasswordAccounted, Linked, Holding, Excused, Excuses, Idle
<1> QED
  BY <1>6, <1>7, <1>8, <1>9, <1>10, <1>11, <1>12, <1>13, <1>14 DEF IInv

(* Writing the root back can revive a row, never a credential. *)
LEMMA WriteRootPreserves ==
    ASSUME IInv, NEW p \in Requests, WriteRoot(p)
    PROVE  IInv'
<1>1. /\ TypeOK /\ TenantIsolation /\ Started /\ BeginInv /\ HoldInv
      /\ LinkInv /\ CallInv /\ SweepInv /\ LivePasswordAccounted
  BY Parts
<1>2. PICK f \in Flows : /\ req[p].flow = f /\ req[p].at = "writeRoot"
                         /\ req[p].tenant = owner[f] /\ owner[f] \in Tenants
                         /\ owner[f] # NoTenant /\ remote[f] # "unused"
  BY InFlight DEF WriteRoot
<1>3. /\ conns' \in [Flows -> Rows] /\ conns'[f] = owner[f]
      /\ \A g \in Flows : g # f => conns'[g] = conns[g]
      /\ UNCHANGED <<pending, secrets, expired, aged, remote, owner, sweep, history>>
  BY <1>1, <1>2, RefsFacts DEF WriteRoot, UpsertConnection, Rows, TypeOK, clocks, external, tables
<1>4. /\ req' \in [Requests -> Calls \union {Idle}]
      /\ req'[p] = Idle
      /\ \A q \in Requests : q # p => req'[q] = req[q]
  BY <1>1, <1>2, ReturnFacts DEF WriteRoot
<1>5. /\ "connected" \in history[f]
      /\ \A q \in Requests : req[q].flow = f /\ q # p => req[q].at \notin BeginSteps
  BY <1>1, <1>2 DEF CallInv, BeginInv
<1>6. TypeOK'
  BY <1>1, <1>2, <1>3, <1>4, <1>5, RefsFacts, ConstantsAssumption
  DEF TypeOK, Rows, Events
<1>7. TenantIsolation'
  BY <1>1, <1>2, <1>3, <1>4, <1>5, RefsFacts
  DEF TypeOK, TenantIsolation
<1>8. Started'
  BY <1>1, <1>2, <1>3, <1>4, <1>5, RefsFacts
  DEF TypeOK, Started
<1>9. BeginInv'
  BY <1>1, <1>2, <1>3, <1>4, <1>5, RefsFacts, ConstantsAssumption
  DEF TypeOK, BeginInv, BeginSteps, Idle, ConstantsAssumption
<1>10. HoldInv'
  BY <1>1, <1>2, <1>3, <1>4, <1>5, RefsFacts
  DEF TypeOK, HoldInv, Holding, Minted, Idle
<1>11. LinkInv'
  BY <1>1, <1>2, <1>3, <1>4, <1>5, RefsFacts
  DEF TypeOK, LinkInv, Linked, Minted, Excused, Excuses
<1>12. CallInv'
  BY <1>1, <1>2, <1>3, <1>4, <1>5, RefsFacts
  DEF TypeOK, CallInv, DisconnectSteps, Excused, Excuses, Idle
<1>13. SweepInv'
  BY <1>1, <1>2, <1>3, <1>4, <1>5, RefsFacts
  DEF TypeOK, SweepInv
<1>14. LivePasswordAccounted'
  BY <1>1, <1>2, <1>3, <1>4, <1>5, RefsFacts
  DEF TypeOK, LivePasswordAccounted, Linked, Holding, Excused, Excuses, Idle
<1> QED
  BY <1>6, <1>7, <1>8, <1>9, <1>10, <1>11, <1>12, <1>13, <1>14 DEF IInv

(* A disconnect deletes the credential after trying to revoke it. *)
LEMMA DeleteSecretPreserves ==
    ASSUME IInv, NEW p \in Requests, DeleteSecret(p)
    PROVE  IInv'
<1>1. /\ TypeOK /\ TenantIsolation /\ Started /\ BeginInv /\ HoldInv
      /\ LinkInv /\ CallInv /\ SweepInv /\ LivePasswordAccounted
  BY Parts
<1>2. PICK f \in Flows : /\ req[p].flow = f /\ req[p].at = "deleteSecret"
                         /\ req[p].tenant = owner[f] /\ owner[f] \in Tenants
                         /\ owner[f] # NoTenant /\ remote[f] # "unused"
  BY InFlight DEF DeleteSecret
<1>3. /\ secrets' \in [Refs -> Rows] /\ secrets'[AppPassword(f)] = NoTenant
      /\ \A r \in Refs : r # AppPassword(f) => secrets'[r] = secrets[r]
      /\ history' \in [Flows -> SUBSET Events] /\ history'[f] = history[f] \union {"unlinked"}
      /\ \A g \in Flows : g # f => history'[g] = history[g]
      /\ UNCHANGED <<pending, conns, expired, aged, remote, owner, sweep>>
  BY <1>1, <1>2, RefsFacts DEF DeleteSecret, Rows, Events, Without, Owned, Note, TenantIsolation, TypeOK, clocks, external, tables
<1>4. /\ req' \in [Requests -> Calls \union {Idle}]
      /\ req'[p].at = "deleteRow" /\ req'[p].flow = f /\ req'[p].tenant = owner[f]
      /\ \A q \in Requests : q # p => req'[q] = req[q]
  BY <1>1, <1>2, GotoFacts DEF DeleteSecret, Steps, BeginSteps, PollSteps, DisconnectSteps, UseSteps
<1>5. /\ "connected" \in history[f] /\ Excused(f)
      /\ \A q \in Requests : req[q].flow = f /\ q # p => req[q].at \notin BeginSteps
  BY <1>1, <1>2 DEF CallInv, DisconnectSteps, BeginInv
<1>6. TypeOK'
  BY <1>1, <1>2, <1>3, <1>4, <1>5, RefsFacts, ConstantsAssumption
  DEF TypeOK, Rows, Events
<1>7. TenantIsolation'
  BY <1>1, <1>2, <1>3, <1>4, <1>5, RefsFacts
  DEF TypeOK, TenantIsolation
<1>8. Started'
  BY <1>1, <1>2, <1>3, <1>4, <1>5, RefsFacts
  DEF TypeOK, Started
<1>9. BeginInv'
  BY <1>1, <1>2, <1>3, <1>4, <1>5, RefsFacts, ConstantsAssumption
  DEF TypeOK, BeginInv, BeginSteps, Idle, ConstantsAssumption
<1>10. HoldInv'
  BY <1>1, <1>2, <1>3, <1>4, <1>5, RefsFacts
  DEF TypeOK, HoldInv, Holding, Minted, Idle, LinkInv
<1>11. LinkInv'
  BY <1>1, <1>2, <1>3, <1>4, <1>5, RefsFacts
  DEF TypeOK, LinkInv, Linked, Minted, Excused, Excuses
<1>12. CallInv'
  BY <1>1, <1>2, <1>3, <1>4, <1>5, RefsFacts
  DEF TypeOK, CallInv, DisconnectSteps, Excused, Excuses, Idle
<1>13. SweepInv'
  BY <1>1, <1>2, <1>3, <1>4, <1>5, RefsFacts
  DEF TypeOK, SweepInv
<1>14. LivePasswordAccounted'
  BY <1>1, <1>2, <1>3, <1>4, <1>5, RefsFacts
  DEF TypeOK, LivePasswordAccounted, Linked, Holding, Excused, Excuses, Idle
<1> QED
  BY <1>6, <1>7, <1>8, <1>9, <1>10, <1>11, <1>12, <1>13, <1>14 DEF IInv

(* A disconnect deletes the row when the credential is gone. *)
LEMMA DeleteRowPreserves ==
    ASSUME IInv, NEW p \in Requests, DeleteRow(p)
    PROVE  IInv'
<1>1. /\ TypeOK /\ TenantIsolation /\ Started /\ BeginInv /\ HoldInv
      /\ LinkInv /\ CallInv /\ SweepInv /\ LivePasswordAccounted
  BY Parts
<1>2. PICK f \in Flows : /\ req[p].flow = f /\ req[p].at = "deleteRow"
                         /\ req[p].tenant = owner[f] /\ owner[f] \in Tenants
                         /\ owner[f] # NoTenant /\ remote[f] # "unused"
  BY InFlight DEF DeleteRow
<1>3. /\ conns' \in [Flows -> Rows] /\ conns'[f] = NoTenant
      /\ \A g \in Flows : g # f => conns'[g] = conns[g]
      /\ history' \in [Flows -> SUBSET Events] /\ history'[f] = history[f] \union {"disconnected"}
      /\ \A g \in Flows : g # f => history'[g] = history[g]
      /\ UNCHANGED <<pending, secrets, expired, aged, remote, owner, sweep>>
  BY <1>1, <1>2, RefsFacts DEF DeleteRow, Rows, Events, Without, Owned, Note, TenantIsolation, TypeOK, clocks, external, tables
<1>4. /\ req' \in [Requests -> Calls \union {Idle}]
      /\ req'[p] = Idle
      /\ \A q \in Requests : q # p => req'[q] = req[q]
  BY <1>1, <1>2, ReturnFacts DEF DeleteRow
<1>5. /\ "connected" \in history[f] /\ "unlinked" \in history[f] /\ Excused(f)
      /\ \A q \in Requests : req[q].flow = f /\ q # p => req[q].at \notin BeginSteps
  BY <1>1, <1>2 DEF CallInv, LinkInv, DisconnectSteps, BeginInv
<1>6. TypeOK'
  BY <1>1, <1>2, <1>3, <1>4, <1>5, RefsFacts, ConstantsAssumption
  DEF TypeOK, Rows, Events
<1>7. TenantIsolation'
  BY <1>1, <1>2, <1>3, <1>4, <1>5, RefsFacts
  DEF TypeOK, TenantIsolation
<1>8. Started'
  BY <1>1, <1>2, <1>3, <1>4, <1>5, RefsFacts
  DEF TypeOK, Started
<1>9. BeginInv'
  BY <1>1, <1>2, <1>3, <1>4, <1>5, RefsFacts, ConstantsAssumption
  DEF TypeOK, BeginInv, BeginSteps, Idle, ConstantsAssumption
<1>10. HoldInv'
  BY <1>1, <1>2, <1>3, <1>4, <1>5, RefsFacts
  DEF TypeOK, HoldInv, Holding, Minted, Idle
<1>11. LinkInv'
  BY <1>1, <1>2, <1>3, <1>4, <1>5, RefsFacts
  DEF TypeOK, LinkInv, Linked, Minted, Excused, Excuses
<1>12. CallInv'
  BY <1>1, <1>2, <1>3, <1>4, <1>5, RefsFacts
  DEF TypeOK, CallInv, DisconnectSteps, Excused, Excuses, Idle
<1>13. SweepInv'
  BY <1>1, <1>2, <1>3, <1>4, <1>5, RefsFacts
  DEF TypeOK, SweepInv
<1>14. LivePasswordAccounted'
  BY <1>1, <1>2, <1>3, <1>4, <1>5, RefsFacts
  DEF TypeOK, LivePasswordAccounted, Linked, Holding, Excused, Excuses, Idle
<1> QED
  BY <1>6, <1>7, <1>8, <1>9, <1>10, <1>11, <1>12, <1>13, <1>14 DEF IInv

(* The app password is handed out to exactly one poll. *)
LEMMA PollCompletedPreserves ==
    ASSUME IInv, NEW p \in Requests, PollCompleted(p)
    PROVE  IInv'
<1>1. /\ TypeOK /\ TenantIsolation /\ Started /\ BeginInv /\ HoldInv
      /\ LinkInv /\ CallInv /\ SweepInv /\ LivePasswordAccounted
  BY Parts
<1>2. PICK f \in Flows : /\ req[p].flow = f /\ req[p].at = "askNextcloud"
                         /\ remote[f] = "granted"
                         /\ req[p].tenant = owner[f] /\ owner[f] \in Tenants
                         /\ owner[f] # NoTenant /\ remote[f] # "unused"
  BY InFlight DEF PollCompleted, HandOut
<1>3. /\ remote' \in [Flows -> {"unused", "waiting", "granted", "live", "revoked"}] /\ remote'[f] = "live"
      /\ \A g \in Flows : g # f => remote'[g] = remote[g]
      /\ history' \in [Flows -> SUBSET Events] /\ history'[f] = history[f] \union {"delivered"}
      /\ \A g \in Flows : g # f => history'[g] = history[g]
      /\ UNCHANGED <<pending, conns, secrets, expired, aged, owner, sweep>>
  BY <1>1, <1>2, RefsFacts DEF PollCompleted, HandOut, Events, TypeOK, clocks, external, tables
<1>4. /\ req' \in [Requests -> Calls \union {Idle}]
      /\ req'[p].at = "putAppPassword" /\ req'[p].flow = f /\ req'[p].tenant = owner[f]
      /\ \A q \in Requests : q # p => req'[q] = req[q]
  BY <1>1, <1>2, GotoFacts DEF PollCompleted, Steps, BeginSteps, PollSteps, DisconnectSteps, UseSteps
<1>5. /\ ~Minted(f) /\ "connected" \notin history[f] /\ conns[f] = NoTenant
      /\ secrets[AppPassword(f)] = NoTenant /\ AppPassword(f) \notin aged
      /\ \A q \in Requests : ~Holding(q, f)
      /\ \A q \in Requests : req[q].flow = f /\ q # p => req[q].at \notin BeginSteps
  BY <1>1, <1>2 DEF LinkInv, HoldInv, Minted, BeginInv
<1>6. TypeOK'
  BY <1>1, <1>2, <1>3, <1>4, <1>5, RefsFacts, ConstantsAssumption
  DEF TypeOK, Rows, Events
<1>7. TenantIsolation'
  BY <1>1, <1>2, <1>3, <1>4, <1>5, RefsFacts
  DEF TypeOK, TenantIsolation
<1>8. Started'
  BY <1>1, <1>2, <1>3, <1>4, <1>5, RefsFacts
  DEF TypeOK, Started
<1>9. BeginInv'
  <2>1. \A q \in Requests : \A g \in Flows :
           req'[q].flow = g /\ req'[q].at \in BeginSteps => req'[q] = req[q] /\ g # f /\ q # p
    BY <1>2, <1>4, <1>5, ConstantsAssumption DEF BeginSteps, Idle, ConstantsAssumption
  <2>2. \A q \in Requests : \A g \in Flows :
           g # f /\ req'[q].flow = g => req'[q] = req[q]
    BY <1>2, <1>4, ConstantsAssumption DEF Idle, ConstantsAssumption
  <2> QED
    BY <1>1, <1>3, <2>1, <2>2 DEF BeginInv
<1>10. HoldInv'
  BY <1>1, <1>2, <1>3, <1>4, <1>5, RefsFacts
  DEF TypeOK, HoldInv, Holding, Minted, Idle
<1>11. LinkInv'
  BY <1>1, <1>2, <1>3, <1>4, <1>5, RefsFacts
  DEF TypeOK, LinkInv, Linked, Minted, Excused, Excuses
<1>12. CallInv'
  BY <1>1, <1>2, <1>3, <1>4, <1>5, RefsFacts
  DEF TypeOK, CallInv, DisconnectSteps, Excused, Excuses, Idle
<1>13. SweepInv'
  BY <1>1, <1>2, <1>3, <1>4, <1>5, RefsFacts
  DEF TypeOK, SweepInv
<1>14. LivePasswordAccounted'
  <2>1. "connected" \notin history[f]' /\ (Holding(p, f)' \/ Excused(f)')
    BY <1>1, <1>2, <1>3, <1>4, <1>5 DEF Holding, Excused, Excuses
  <2> SUFFICES ASSUME NEW g \in Flows, remote'[g] = "live"
               PROVE  Linked(g)' \/ (\E q \in Requests : Holding(q, g)') \/ history'[g] \intersect Excuses # {}
    BY DEF LivePasswordAccounted
  <2>2. CASE g = f
    BY <2>1, <2>2 DEF Excused
  <2>3. CASE g # f
    <3>1. \A q \in Requests : Holding(q, g) => Holding(q, g)'
      BY <1>2, <1>4, <2>3 DEF Holding
    <3>2. remote[g] = "live" /\ history'[g] = history[g] /\ (Linked(g) => Linked(g)')
      BY <1>3, <2>3 DEF Linked
    <3> QED BY <1>1, <3>1, <3>2 DEF LivePasswordAccounted
  <2> QED BY <2>2, <2>3
<1> QED
  BY <1>6, <1>7, <1>8, <1>9, <1>10, <1>11, <1>12, <1>13, <1>14 DEF IInv

(* A refused completion is noted: nobody holds its password. *)
LEMMA PollRefusedPreserves ==
    ASSUME IInv, NEW p \in Requests, PollRefused(p)
    PROVE  IInv'
<1>1. /\ TypeOK /\ TenantIsolation /\ Started /\ BeginInv /\ HoldInv
      /\ LinkInv /\ CallInv /\ SweepInv /\ LivePasswordAccounted
  BY Parts
<1>2. PICK f \in Flows : /\ req[p].flow = f /\ req[p].at = "askNextcloud"
                         /\ remote[f] = "granted"
                         /\ req[p].tenant = owner[f] /\ owner[f] \in Tenants
                         /\ owner[f] # NoTenant /\ remote[f] # "unused"
  BY InFlight DEF PollRefused, HandOut
<1>3. /\ remote' \in [Flows -> {"unused", "waiting", "granted", "live", "revoked"}] /\ remote'[f] = "live"
      /\ \A g \in Flows : g # f => remote'[g] = remote[g]
      /\ history' \in [Flows -> SUBSET Events] /\ history'[f] = history[f] \union {"delivered", "refused"}
      /\ \A g \in Flows : g # f => history'[g] = history[g]
      /\ UNCHANGED <<pending, conns, secrets, expired, aged, owner, sweep>>
  BY <1>1, <1>2, RefsFacts DEF PollRefused, HandOut, Events, TypeOK, clocks, external, tables
<1>4. /\ req' \in [Requests -> Calls \union {Idle}]
      /\ req'[p] = Idle
      /\ \A q \in Requests : q # p => req'[q] = req[q]
  BY <1>1, <1>2, ReturnFacts DEF PollRefused
<1>5. /\ ~Minted(f) /\ "connected" \notin history[f] /\ conns[f] = NoTenant
      /\ secrets[AppPassword(f)] = NoTenant /\ AppPassword(f) \notin aged
      /\ \A q \in Requests : ~Holding(q, f)
      /\ \A q \in Requests : req[q].flow = f /\ q # p => req[q].at \notin BeginSteps
  BY <1>1, <1>2 DEF LinkInv, HoldInv, Minted, BeginInv
<1>6. TypeOK'
  BY <1>1, <1>2, <1>3, <1>4, <1>5, RefsFacts, ConstantsAssumption
  DEF TypeOK, Rows, Events
<1>7. TenantIsolation'
  BY <1>1, <1>2, <1>3, <1>4, <1>5, RefsFacts
  DEF TypeOK, TenantIsolation
<1>8. Started'
  BY <1>1, <1>2, <1>3, <1>4, <1>5, RefsFacts
  DEF TypeOK, Started
<1>9. BeginInv'
  <2>1. \A q \in Requests : \A g \in Flows :
           req'[q].flow = g /\ req'[q].at \in BeginSteps => req'[q] = req[q] /\ g # f /\ q # p
    BY <1>2, <1>4, <1>5, ConstantsAssumption DEF BeginSteps, Idle, ConstantsAssumption
  <2>2. \A q \in Requests : \A g \in Flows :
           g # f /\ req'[q].flow = g => req'[q] = req[q]
    BY <1>2, <1>4, ConstantsAssumption DEF Idle, ConstantsAssumption
  <2> QED
    BY <1>1, <1>3, <2>1, <2>2 DEF BeginInv
<1>10. HoldInv'
  BY <1>1, <1>2, <1>3, <1>4, <1>5, RefsFacts
  DEF TypeOK, HoldInv, Holding, Minted, Idle
<1>11. LinkInv'
  BY <1>1, <1>2, <1>3, <1>4, <1>5, RefsFacts
  DEF TypeOK, LinkInv, Linked, Minted, Excused, Excuses
<1>12. CallInv'
  BY <1>1, <1>2, <1>3, <1>4, <1>5, RefsFacts
  DEF TypeOK, CallInv, DisconnectSteps, Excused, Excuses, Idle
<1>13. SweepInv'
  BY <1>1, <1>2, <1>3, <1>4, <1>5, RefsFacts
  DEF TypeOK, SweepInv
<1>14. LivePasswordAccounted'
  <2>1. "connected" \notin history[f]' /\ (Holding(p, f)' \/ Excused(f)')
    BY <1>1, <1>2, <1>3, <1>4, <1>5 DEF Holding, Excused, Excuses
  <2> SUFFICES ASSUME NEW g \in Flows, remote'[g] = "live"
               PROVE  Linked(g)' \/ (\E q \in Requests : Holding(q, g)') \/ history'[g] \intersect Excuses # {}
    BY DEF LivePasswordAccounted
  <2>2. CASE g = f
    BY <2>1, <2>2 DEF Excused
  <2>3. CASE g # f
    <3>1. \A q \in Requests : Holding(q, g) => Holding(q, g)'
      BY <1>2, <1>4, <2>3 DEF Holding
    <3>2. remote[g] = "live" /\ history'[g] = history[g] /\ (Linked(g) => Linked(g)')
      BY <1>3, <2>3 DEF Linked
    <3> QED BY <1>1, <3>1, <3>2 DEF LivePasswordAccounted
  <2> QED BY <2>2, <2>3
<1> QED
  BY <1>6, <1>7, <1>8, <1>9, <1>10, <1>11, <1>12, <1>13, <1>14 DEF IInv

(* A lost answer is noted: nobody holds its password. *)
LEMMA PollAnswerLostPreserves ==
    ASSUME IInv, NEW p \in Requests, PollAnswerLost(p)
    PROVE  IInv'
<1>1. /\ TypeOK /\ TenantIsolation /\ Started /\ BeginInv /\ HoldInv
      /\ LinkInv /\ CallInv /\ SweepInv /\ LivePasswordAccounted
  BY Parts
<1>2. PICK f \in Flows : /\ req[p].flow = f /\ req[p].at = "askNextcloud"
                         /\ remote[f] = "granted"
                         /\ req[p].tenant = owner[f] /\ owner[f] \in Tenants
                         /\ owner[f] # NoTenant /\ remote[f] # "unused"
  BY InFlight DEF PollAnswerLost, HandOut
<1>3. /\ remote' \in [Flows -> {"unused", "waiting", "granted", "live", "revoked"}] /\ remote'[f] = "live"
      /\ \A g \in Flows : g # f => remote'[g] = remote[g]
      /\ history' \in [Flows -> SUBSET Events] /\ history'[f] = history[f] \union {"lost"}
      /\ \A g \in Flows : g # f => history'[g] = history[g]
      /\ UNCHANGED <<pending, conns, secrets, expired, aged, owner, sweep>>
  BY <1>1, <1>2, RefsFacts DEF PollAnswerLost, HandOut, Events, TypeOK, clocks, external, tables
<1>4. /\ req' \in [Requests -> Calls \union {Idle}]
      /\ req'[p] = Idle
      /\ \A q \in Requests : q # p => req'[q] = req[q]
  BY <1>1, <1>2, ReturnFacts DEF PollAnswerLost
<1>5. /\ ~Minted(f) /\ "connected" \notin history[f] /\ conns[f] = NoTenant
      /\ secrets[AppPassword(f)] = NoTenant /\ AppPassword(f) \notin aged
      /\ \A q \in Requests : ~Holding(q, f)
      /\ \A q \in Requests : req[q].flow = f /\ q # p => req[q].at \notin BeginSteps
  BY <1>1, <1>2 DEF LinkInv, HoldInv, Minted, BeginInv
<1>6. TypeOK'
  BY <1>1, <1>2, <1>3, <1>4, <1>5, RefsFacts, ConstantsAssumption
  DEF TypeOK, Rows, Events
<1>7. TenantIsolation'
  BY <1>1, <1>2, <1>3, <1>4, <1>5, RefsFacts
  DEF TypeOK, TenantIsolation
<1>8. Started'
  BY <1>1, <1>2, <1>3, <1>4, <1>5, RefsFacts
  DEF TypeOK, Started
<1>9. BeginInv'
  <2>1. \A q \in Requests : \A g \in Flows :
           req'[q].flow = g /\ req'[q].at \in BeginSteps => req'[q] = req[q] /\ g # f /\ q # p
    BY <1>2, <1>4, <1>5, ConstantsAssumption DEF BeginSteps, Idle, ConstantsAssumption
  <2>2. \A q \in Requests : \A g \in Flows :
           g # f /\ req'[q].flow = g => req'[q] = req[q]
    BY <1>2, <1>4, ConstantsAssumption DEF Idle, ConstantsAssumption
  <2> QED
    BY <1>1, <1>3, <2>1, <2>2 DEF BeginInv
<1>10. HoldInv'
  BY <1>1, <1>2, <1>3, <1>4, <1>5, RefsFacts
  DEF TypeOK, HoldInv, Holding, Minted, Idle
<1>11. LinkInv'
  BY <1>1, <1>2, <1>3, <1>4, <1>5, RefsFacts
  DEF TypeOK, LinkInv, Linked, Minted, Excused, Excuses
<1>12. CallInv'
  BY <1>1, <1>2, <1>3, <1>4, <1>5, RefsFacts
  DEF TypeOK, CallInv, DisconnectSteps, Excused, Excuses, Idle
<1>13. SweepInv'
  BY <1>1, <1>2, <1>3, <1>4, <1>5, RefsFacts
  DEF TypeOK, SweepInv
<1>14. LivePasswordAccounted'
  <2>1. "connected" \notin history[f]' /\ (Holding(p, f)' \/ Excused(f)')
    BY <1>1, <1>2, <1>3, <1>4, <1>5 DEF Holding, Excused, Excuses
  <2> SUFFICES ASSUME NEW g \in Flows, remote'[g] = "live"
               PROVE  Linked(g)' \/ (\E q \in Requests : Holding(q, g)') \/ history'[g] \intersect Excuses # {}
    BY DEF LivePasswordAccounted
  <2>2. CASE g = f
    BY <2>1, <2>2 DEF Excused
  <2>3. CASE g # f
    <3>1. \A q \in Requests : Holding(q, g) => Holding(q, g)'
      BY <1>2, <1>4, <2>3 DEF Holding
    <3>2. remote[g] = "live" /\ history'[g] = history[g] /\ (Linked(g) => Linked(g)')
      BY <1>3, <2>3 DEF Linked
    <3> QED BY <1>1, <3>1, <3>2 DEF LivePasswordAccounted
  <2> QED BY <2>2, <2>3
<1> QED
  BY <1>6, <1>7, <1>8, <1>9, <1>10, <1>11, <1>12, <1>13, <1>14 DEF IInv

(* A step that leaves the tables and the maintenance process alone and     *)
(* moves one call on.  It covers every step that only reads, every failing *)
(* store call, and both revocations.                                       *)
Quiet(p, f) ==
    /\ UNCHANGED <<pending, conns, secrets, expired, aged, owner, sweep>>
    /\ remote' \in [Flows -> {"unused", "waiting", "granted", "live", "revoked"}]
    /\ \A g \in Flows : remote'[g] = remote[g] \/ (Minted(g) /\ remote'[g] = "revoked")
    /\ history' \in [Flows -> SUBSET Events]
    /\ \A g \in Flows : /\ history[g] \subseteq history'[g]
                        /\ history'[g] \subseteq history[g] \union {"revokeTried", "revokeSkipped"}
    /\ req' \in [Requests -> Calls \union {Idle}]
    /\ \A q \in Requests : q # p => req'[q] = req[q]
    /\ req[p] = Idle \/ req[p].flow = f
    /\ req'[p] = Idle \/ (req'[p].flow = f /\ req'[p].tenant = owner[f])
    /\ \A q \in Requests : req[q].flow = f /\ q # p => req[q].at \notin BeginSteps
    /\ req'[p].at \in BeginSteps => req[p].at \in BeginSteps /\ req'[p].at = "dropPollToken"
    /\ Holding(p, f)' => Holding(p, f) /\ req'[p].at \in {"dropAppPassword", "revokeNew"}
    /\ Holding(p, f) => Holding(p, f)' \/ Excused(f)'
    /\ req'[p].at \in {"writeRoot"} \union DisconnectSteps => "connected" \in history[f]
    /\ req'[p].at = "deleteSecret" => Excused(f)'
    /\ req'[p].at # "deleteRow"

(* Quiet steps keep the invariant. *)
LEMMA QuietPreserves ==
    ASSUME IInv, NEW p \in Requests, NEW f \in Flows, Quiet(p, f)
    PROVE  IInv'
<1>1. /\ TypeOK /\ TenantIsolation /\ Started /\ BeginInv /\ HoldInv
      /\ LinkInv /\ CallInv /\ SweepInv /\ LivePasswordAccounted
  BY Parts
<1>2. UNCHANGED <<pending, conns, secrets, expired, aged, owner, sweep>>
  BY DEF Quiet
<1>3. \A q \in Requests : \A g \in Flows :
         Holding(q, g)' => Holding(q, g) /\ (q = p => req'[q].at \in {"dropAppPassword", "revokeNew"})
  BY ConstantsAssumption DEF Quiet, Holding, Idle, ConstantsAssumption
<1>4. \A q \in Requests : \A g \in Flows : Holding(q, g) => Holding(q, g)' \/ Excused(g)'
  BY <1>1, ConstantsAssumption DEF Quiet, Holding, Idle, ConstantsAssumption
<1>5. TypeOK'
  BY <1>1, <1>2, <1>3, <1>4, ConstantsAssumption
  DEF TypeOK, Rows, Events, Quiet
<1>6. TenantIsolation'
  BY <1>1, <1>2, <1>3, <1>4
  DEF TypeOK, TenantIsolation, Quiet
<1>7. Started'
  BY <1>1, <1>2, <1>3, <1>4
  DEF TypeOK, Started, Quiet, Minted
<1>8. BeginInv'
  BY <1>1, <1>2, <1>3, <1>4, ConstantsAssumption
  DEF TypeOK, BeginInv, BeginSteps, Idle, ConstantsAssumption, Quiet
<1>9. HoldInv'
  BY <1>1, <1>2, <1>3, <1>4
  DEF TypeOK, HoldInv, Holding, Minted, Idle, Quiet
<1>10. LinkInv'
  BY <1>1, <1>2, <1>3, <1>4
  DEF TypeOK, LinkInv, Linked, Minted, Excused, Excuses, Quiet
<1>11. CallInv'
  BY <1>1, <1>2, <1>3, <1>4
  DEF TypeOK, CallInv, DisconnectSteps, Excused, Excuses, Idle, Quiet
<1>12. SweepInv'
  BY <1>1, <1>2, <1>3, <1>4
  DEF TypeOK, SweepInv, Quiet
<1>13. LivePasswordAccounted'
  BY <1>1, <1>2, <1>3, <1>4
  DEF TypeOK, LivePasswordAccounted, Linked, Holding, Excused, Excuses, Idle, Quiet, Minted
<1> QED
  BY <1>5, <1>6, <1>7, <1>8, <1>9, <1>10, <1>11, <1>12, <1>13 DEF IInv

(* Looking up a pending flow. *)
LEMMA PollPreserves ==
    ASSUME IInv, NEW p \in Requests, NEW t \in Tenants, NEW f \in Flows,
           Poll(p, t, f)
    PROVE  IInv'
<1>1. /\ TypeOK /\ TenantIsolation /\ Started /\ BeginInv /\ HoldInv
      /\ LinkInv /\ CallInv /\ SweepInv /\ LivePasswordAccounted
  BY Parts
<1>2. /\ owner[f] = t
      /\ \A q \in Requests : req[q].flow = f => req[q].at \notin BeginSteps
  BY <1>1, ConstantsAssumption
  DEF Poll, Owned, TenantIsolation, BeginInv, LinkInv, ConstantsAssumption
<1>3. /\ UNCHANGED <<pending, conns, secrets, expired, aged, remote, owner, sweep, history>>
      /\ req' \in [Requests -> Calls \union {Idle}] /\ req[p] = Idle
      /\ req'[p].at \in {"consumeToken", "readPollToken"} /\ req'[p].flow = f /\ req'[p].tenant = t
      /\ \A q \in Requests : q # p => req'[q] = req[q]
  BY <1>1, StartFacts DEF Poll, tables, clocks, external, Steps, BeginSteps, PollSteps, UseSteps, DisconnectSteps
<1>4. Quiet(p, f)
  BY <1>1, <1>2, <1>3, ConstantsAssumption
  DEF Quiet, TypeOK, Holding, Idle, ConstantsAssumption, BeginSteps, DisconnectSteps
<1> QED
  BY <1>4, QuietPreserves

(* Reading the record to be rewritten. *)
LEMMA UpdateRootPreserves ==
    ASSUME IInv, NEW p \in Requests, NEW t \in Tenants, NEW f \in Flows,
           UpdateRoot(p, t, f)
    PROVE  IInv'
<1>1. /\ TypeOK /\ TenantIsolation /\ Started /\ BeginInv /\ HoldInv
      /\ LinkInv /\ CallInv /\ SweepInv /\ LivePasswordAccounted
  BY Parts
<1>2. /\ owner[f] = t
      /\ \A q \in Requests : req[q].flow = f => req[q].at \notin BeginSteps
      /\ "connected" \in history[f]
  BY <1>1, ConstantsAssumption
  DEF UpdateRoot, Owned, TenantIsolation, BeginInv, LinkInv, ConstantsAssumption
<1>3. /\ UNCHANGED <<pending, conns, secrets, expired, aged, remote, owner, sweep, history>>
      /\ req' \in [Requests -> Calls \union {Idle}] /\ req[p] = Idle
      /\ req'[p].at \in {"writeRoot"} /\ req'[p].flow = f /\ req'[p].tenant = t
      /\ \A q \in Requests : q # p => req'[q] = req[q]
  BY <1>1, StartFacts DEF UpdateRoot, tables, clocks, external, Steps, BeginSteps, PollSteps, UseSteps, DisconnectSteps
<1>4. Quiet(p, f)
  BY <1>1, <1>2, <1>3, ConstantsAssumption
  DEF Quiet, TypeOK, Holding, Idle, ConstantsAssumption, BeginSteps, DisconnectSteps
<1> QED
  BY <1>4, QuietPreserves

(* Listing the connections of the tenant. *)
LEMMA ResolvePreserves ==
    ASSUME IInv, NEW p \in Requests, NEW t \in Tenants, NEW f \in Flows,
           Resolve(p, t, f)
    PROVE  IInv'
<1>1. /\ TypeOK /\ TenantIsolation /\ Started /\ BeginInv /\ HoldInv
      /\ LinkInv /\ CallInv /\ SweepInv /\ LivePasswordAccounted
  BY Parts
<1>2. /\ owner[f] = t
      /\ \A q \in Requests : req[q].flow = f => req[q].at \notin BeginSteps
      /\ "connected" \in history[f]
  BY <1>1, ConstantsAssumption
  DEF Resolve, Owned, TenantIsolation, BeginInv, LinkInv, ConstantsAssumption
<1>3. /\ UNCHANGED <<pending, conns, secrets, expired, aged, remote, owner, sweep, history>>
      /\ req' \in [Requests -> Calls \union {Idle}] /\ req[p] = Idle
      /\ req'[p].at \in {"readRecord"} /\ req'[p].flow = f /\ req'[p].tenant = t
      /\ \A q \in Requests : q # p => req'[q] = req[q]
  BY <1>1, StartFacts DEF Resolve, tables, clocks, external, Steps, BeginSteps, PollSteps, UseSteps, DisconnectSteps
<1>4. Quiet(p, f)
  BY <1>1, <1>2, <1>3, ConstantsAssumption
  DEF Quiet, TypeOK, Holding, Idle, ConstantsAssumption, BeginSteps, DisconnectSteps
<1> QED
  BY <1>4, QuietPreserves

(* Reading the record to be disconnected. *)
LEMMA DisconnectPreserves ==
    ASSUME IInv, NEW p \in Requests, NEW t \in Tenants, NEW f \in Flows,
           Disconnect(p, t, f)
    PROVE  IInv'
<1>1. /\ TypeOK /\ TenantIsolation /\ Started /\ BeginInv /\ HoldInv
      /\ LinkInv /\ CallInv /\ SweepInv /\ LivePasswordAccounted
  BY Parts
<1>2. /\ owner[f] = t
      /\ \A q \in Requests : req[q].flow = f => req[q].at \notin BeginSteps
      /\ "connected" \in history[f]
  BY <1>1, ConstantsAssumption
  DEF Disconnect, Owned, TenantIsolation, BeginInv, LinkInv, ConstantsAssumption
<1>3. /\ UNCHANGED <<pending, conns, secrets, expired, aged, remote, owner, sweep, history>>
      /\ req' \in [Requests -> Calls \union {Idle}] /\ req[p] = Idle
      /\ req'[p].at \in {"peekSecret"} /\ req'[p].flow = f /\ req'[p].tenant = t
      /\ \A q \in Requests : q # p => req'[q] = req[q]
  BY <1>1, StartFacts DEF Disconnect, tables, clocks, external, Steps, BeginSteps, PollSteps, UseSteps, DisconnectSteps
<1>4. Quiet(p, f)
  BY <1>1, <1>2, <1>3, ConstantsAssumption
  DEF Quiet, TypeOK, Holding, Idle, ConstantsAssumption, BeginSteps, DisconnectSteps
<1> QED
  BY <1>4, QuietPreserves

(* Reading the poll token. *)
LEMMA ReadPollTokenPreserves ==
    ASSUME IInv, NEW p \in Requests, ReadPollToken(p)
    PROVE  IInv'
<1>1. /\ TypeOK /\ TenantIsolation /\ Started /\ BeginInv /\ HoldInv
      /\ LinkInv /\ CallInv /\ SweepInv /\ LivePasswordAccounted
  BY Parts
<1>2. PICK f \in Flows : /\ req[p].flow = f /\ req[p].at = "readPollToken"
                         /\ req[p].tenant = owner[f] /\ owner[f] \in Tenants
                         /\ owner[f] # NoTenant
  BY InFlight DEF ReadPollToken
<1>3. /\ req' \in [Requests -> Calls \union {Idle}]
      /\ req'[p] = Idle \/ (req'[p].at \in {"askNextcloud", "consumeToken"} /\ req'[p].flow = f /\ req'[p].tenant = owner[f])
      /\ \A q \in Requests : q # p => req'[q] = req[q]
  BY <1>1, <1>2, GotoFacts, ReturnFacts DEF ReadPollToken, Steps, BeginSteps, PollSteps, UseSteps, DisconnectSteps
<1>4. /\ \A q \in Requests : req[q].flow = f /\ q # p => req[q].at \notin BeginSteps
  BY <1>1, <1>2 DEF BeginInv, BeginSteps
<1>5. UNCHANGED <<pending, conns, secrets, expired, aged, remote, owner, sweep, history>>
  BY DEF ReadPollToken, tables, clocks, external
<1>6. Quiet(p, f)
  BY <1>1, <1>2, <1>3, <1>4, <1>5, ConstantsAssumption
  DEF Quiet, TypeOK, Holding, Excused, Excuses, Idle, ConstantsAssumption,
      BeginSteps, DisconnectSteps
<1> QED
  BY <1>2, <1>6, QuietPreserves

(* A poll that ends with the flow pending. *)
LEMMA PollUnfinishedPreserves ==
    ASSUME IInv, NEW p \in Requests, PollUnfinished(p)
    PROVE  IInv'
<1>1. /\ TypeOK /\ TenantIsolation /\ Started /\ BeginInv /\ HoldInv
      /\ LinkInv /\ CallInv /\ SweepInv /\ LivePasswordAccounted
  BY Parts
<1>2. PICK f \in Flows : /\ req[p].flow = f /\ req[p].at = "askNextcloud"
                         /\ req[p].tenant = owner[f] /\ owner[f] \in Tenants
                         /\ owner[f] # NoTenant
  BY InFlight DEF PollUnfinished
<1>3. /\ req' \in [Requests -> Calls \union {Idle}]
      /\ req'[p] = Idle \/ (req'[p].at \in {} /\ req'[p].flow = f /\ req'[p].tenant = owner[f])
      /\ \A q \in Requests : q # p => req'[q] = req[q]
  BY <1>1, <1>2, GotoFacts, ReturnFacts DEF PollUnfinished, Steps, BeginSteps, PollSteps, UseSteps, DisconnectSteps
<1>4. /\ \A q \in Requests : req[q].flow = f /\ q # p => req[q].at \notin BeginSteps
  BY <1>1, <1>2 DEF BeginInv, BeginSteps
<1>5. UNCHANGED <<pending, conns, secrets, expired, aged, remote, owner, sweep, history>>
  BY DEF PollUnfinished, tables, clocks, external
<1>6. Quiet(p, f)
  BY <1>1, <1>2, <1>3, <1>4, <1>5, ConstantsAssumption
  DEF Quiet, TypeOK, Holding, Excused, Excuses, Idle, ConstantsAssumption,
      BeginSteps, DisconnectSteps
<1> QED
  BY <1>2, <1>6, QuietPreserves

(* Reading the record of the resolved connection. *)
LEMMA ReadRecordPreserves ==
    ASSUME IInv, NEW p \in Requests, ReadRecord(p)
    PROVE  IInv'
<1>1. /\ TypeOK /\ TenantIsolation /\ Started /\ BeginInv /\ HoldInv
      /\ LinkInv /\ CallInv /\ SweepInv /\ LivePasswordAccounted
  BY Parts
<1>2. PICK f \in Flows : /\ req[p].flow = f /\ req[p].at = "readRecord"
                         /\ req[p].tenant = owner[f] /\ owner[f] \in Tenants
                         /\ owner[f] # NoTenant
  BY InFlight DEF ReadRecord
<1>3. /\ req' \in [Requests -> Calls \union {Idle}]
      /\ req'[p] = Idle \/ (req'[p].at \in {"readSecret"} /\ req'[p].flow = f /\ req'[p].tenant = owner[f])
      /\ \A q \in Requests : q # p => req'[q] = req[q]
  BY <1>1, <1>2, GotoFacts, ReturnFacts DEF ReadRecord, Steps, BeginSteps, PollSteps, UseSteps, DisconnectSteps
<1>4. /\ \A q \in Requests : req[q].flow = f /\ q # p => req[q].at \notin BeginSteps
  BY <1>1, <1>2 DEF BeginInv, BeginSteps
<1>5. UNCHANGED <<pending, conns, secrets, expired, aged, remote, owner, sweep, history>>
  BY DEF ReadRecord, tables, clocks, external
<1>6. Quiet(p, f)
  BY <1>1, <1>2, <1>3, <1>4, <1>5, ConstantsAssumption
  DEF Quiet, TypeOK, Holding, Excused, Excuses, Idle, ConstantsAssumption,
      BeginSteps, DisconnectSteps
<1> QED
  BY <1>2, <1>6, QuietPreserves

(* Reading its password. *)
LEMMA ReadSecretPreserves ==
    ASSUME IInv, NEW p \in Requests, ReadSecret(p)
    PROVE  IInv'
<1>1. /\ TypeOK /\ TenantIsolation /\ Started /\ BeginInv /\ HoldInv
      /\ LinkInv /\ CallInv /\ SweepInv /\ LivePasswordAccounted
  BY Parts
<1>2. PICK f \in Flows : /\ req[p].flow = f /\ req[p].at = "readSecret"
                         /\ req[p].tenant = owner[f] /\ owner[f] \in Tenants
                         /\ owner[f] # NoTenant
  BY InFlight DEF ReadSecret
<1>3. /\ req' \in [Requests -> Calls \union {Idle}]
      /\ req'[p] = Idle \/ (req'[p].at \in {"inUse"} /\ req'[p].flow = f /\ req'[p].tenant = owner[f])
      /\ \A q \in Requests : q # p => req'[q] = req[q]
  BY <1>1, <1>2, GotoFacts, ReturnFacts DEF ReadSecret, Steps, BeginSteps, PollSteps, UseSteps, DisconnectSteps
<1>4. /\ \A q \in Requests : req[q].flow = f /\ q # p => req[q].at \notin BeginSteps
  BY <1>1, <1>2 DEF BeginInv, BeginSteps
<1>5. UNCHANGED <<pending, conns, secrets, expired, aged, remote, owner, sweep, history>>
  BY DEF ReadSecret, tables, clocks, external
<1>6. Quiet(p, f)
  BY <1>1, <1>2, <1>3, <1>4, <1>5, ConstantsAssumption
  DEF Quiet, TypeOK, Holding, Excused, Excuses, Idle, ConstantsAssumption,
      BeginSteps, DisconnectSteps
<1> QED
  BY <1>2, <1>6, QuietPreserves

(* The tool call returns. *)
LEMMA FinishUsePreserves ==
    ASSUME IInv, NEW p \in Requests, FinishUse(p)
    PROVE  IInv'
<1>1. /\ TypeOK /\ TenantIsolation /\ Started /\ BeginInv /\ HoldInv
      /\ LinkInv /\ CallInv /\ SweepInv /\ LivePasswordAccounted
  BY Parts
<1>2. PICK f \in Flows : /\ req[p].flow = f /\ req[p].at = "inUse"
                         /\ req[p].tenant = owner[f] /\ owner[f] \in Tenants
                         /\ owner[f] # NoTenant
  BY InFlight DEF FinishUse
<1>3. /\ req' \in [Requests -> Calls \union {Idle}]
      /\ req'[p] = Idle \/ (req'[p].at \in {} /\ req'[p].flow = f /\ req'[p].tenant = owner[f])
      /\ \A q \in Requests : q # p => req'[q] = req[q]
  BY <1>1, <1>2, GotoFacts, ReturnFacts DEF FinishUse, Steps, BeginSteps, PollSteps, UseSteps, DisconnectSteps
<1>4. /\ \A q \in Requests : req[q].flow = f /\ q # p => req[q].at \notin BeginSteps
  BY <1>1, <1>2 DEF BeginInv, BeginSteps
<1>5. UNCHANGED <<pending, conns, secrets, expired, aged, remote, owner, sweep, history>>
  BY DEF FinishUse, tables, clocks, external
<1>6. Quiet(p, f)
  BY <1>1, <1>2, <1>3, <1>4, <1>5, ConstantsAssumption
  DEF Quiet, TypeOK, Holding, Excused, Excuses, Idle, ConstantsAssumption,
      BeginSteps, DisconnectSteps
<1> QED
  BY <1>2, <1>6, QuietPreserves

(* A connection whose secret is gone was unlinked, and the reason noted. *)
LEMMA PeekSecretPreserves ==
    ASSUME IInv, NEW p \in Requests, PeekSecret(p)
    PROVE  IInv'
<1>1. /\ TypeOK /\ TenantIsolation /\ Started /\ BeginInv /\ HoldInv
      /\ LinkInv /\ CallInv /\ SweepInv /\ LivePasswordAccounted
  BY Parts
<1>2. PICK f \in Flows : /\ req[p].flow = f /\ req[p].at = "peekSecret"
                         /\ req[p].tenant = owner[f] /\ owner[f] \in Tenants
                         /\ owner[f] # NoTenant
  BY InFlight DEF PeekSecret
<1>3. /\ req' \in [Requests -> Calls \union {Idle}]
      /\ req'[p] = Idle \/ (req'[p].at \in {"resolveAgain", "deleteSecret"} /\ req'[p].flow = f /\ req'[p].tenant = owner[f])
      /\ \A q \in Requests : q # p => req'[q] = req[q]
  BY <1>1, <1>2, GotoFacts, ReturnFacts DEF PeekSecret, Steps, BeginSteps, PollSteps, UseSteps, DisconnectSteps
<1>4. /\ \A q \in Requests : req[q].flow = f /\ q # p => req[q].at \notin BeginSteps
      /\ "connected" \in history[f]
      /\ req'[p].at = "deleteSecret" => Excused(f)
  BY <1>1, <1>2, <1>3 DEF PeekSecret, Goto, TypeOK, CallInv, LinkInv, Linked, Owned, TenantIsolation, DisconnectSteps, BeginInv, BeginSteps
<1>5. UNCHANGED <<pending, conns, secrets, expired, aged, remote, owner, sweep, history>>
  BY DEF PeekSecret, tables, clocks, external
<1>6. Quiet(p, f)
  BY <1>1, <1>2, <1>3, <1>4, <1>5, ConstantsAssumption
  DEF Quiet, TypeOK, Holding, Excused, Excuses, Idle, ConstantsAssumption,
      BeginSteps, DisconnectSteps
<1> QED
  BY <1>2, <1>6, QuietPreserves

(* The same when either read comes back empty. *)
LEMMA ResolveAgainPreserves ==
    ASSUME IInv, NEW p \in Requests, ResolveAgain(p)
    PROVE  IInv'
<1>1. /\ TypeOK /\ TenantIsolation /\ Started /\ BeginInv /\ HoldInv
      /\ LinkInv /\ CallInv /\ SweepInv /\ LivePasswordAccounted
  BY Parts
<1>2. PICK f \in Flows : /\ req[p].flow = f /\ req[p].at = "resolveAgain"
                         /\ req[p].tenant = owner[f] /\ owner[f] \in Tenants
                         /\ owner[f] # NoTenant
  BY InFlight DEF ResolveAgain
<1>3. /\ req' \in [Requests -> Calls \union {Idle}]
      /\ req'[p] = Idle \/ (req'[p].at \in {"revokeOld", "deleteSecret"} /\ req'[p].flow = f /\ req'[p].tenant = owner[f])
      /\ \A q \in Requests : q # p => req'[q] = req[q]
  BY <1>1, <1>2, GotoFacts, ReturnFacts DEF ResolveAgain, Steps, BeginSteps, PollSteps, UseSteps, DisconnectSteps
<1>4. /\ \A q \in Requests : req[q].flow = f /\ q # p => req[q].at \notin BeginSteps
      /\ "connected" \in history[f]
      /\ req'[p].at = "deleteSecret" => Excused(f)
  BY <1>1, <1>2, <1>3 DEF ResolveAgain, Goto, TypeOK, CallInv, LinkInv, Linked, Owned, TenantIsolation, DisconnectSteps, BeginInv, BeginSteps
<1>5. UNCHANGED <<pending, conns, secrets, expired, aged, remote, owner, sweep, history>>
  BY DEF ResolveAgain, tables, clocks, external
<1>6. Quiet(p, f)
  BY <1>1, <1>2, <1>3, <1>4, <1>5, ConstantsAssumption
  DEF Quiet, TypeOK, Holding, Excused, Excuses, Idle, ConstantsAssumption,
      BeginSteps, DisconnectSteps
<1> QED
  BY <1>2, <1>6, QuietPreserves

(* Revoking after a failed link is noted. *)
LEMMA RevokeNewPreserves ==
    ASSUME IInv, NEW p \in Requests, RevokeNew(p)
    PROVE  IInv'
<1>1. /\ TypeOK /\ TenantIsolation /\ Started /\ BeginInv /\ HoldInv
      /\ LinkInv /\ CallInv /\ SweepInv /\ LivePasswordAccounted
  BY Parts
<1>2. PICK f \in Flows : /\ req[p].flow = f /\ req[p].at = "revokeNew"
                         /\ req[p].tenant = owner[f] /\ owner[f] \in Tenants
                         /\ owner[f] # NoTenant
  BY InFlight DEF RevokeNew
<1>3. /\ req' \in [Requests -> Calls \union {Idle}]
      /\ req'[p] = Idle \/ (req'[p].at \in {"consumeToken"} /\ req'[p].flow = f /\ req'[p].tenant = owner[f])
      /\ \A q \in Requests : q # p => req'[q] = req[q]
  BY <1>1, <1>2, GotoFacts, ReturnFacts DEF RevokeNew, Steps, BeginSteps, PollSteps, UseSteps, DisconnectSteps
<1>4. /\ \A q \in Requests : req[q].flow = f /\ q # p => req[q].at \notin BeginSteps
      /\ Minted(f)
  BY <1>1, <1>2, <1>3 DEF HoldInv, Holding, BeginInv, BeginSteps
<1>5. /\ UNCHANGED <<pending, conns, secrets, expired, aged, owner, sweep>>
      /\ remote' \in [Flows -> {"unused", "waiting", "granted", "live", "revoked"}]
      /\ \A g \in Flows : remote'[g] = remote[g] \/ (Minted(g) /\ remote'[g] = "revoked")
      /\ history' \in [Flows -> SUBSET Events]
      /\ \A g \in Flows : /\ history[g] \subseteq history'[g]
                          /\ history'[g] \subseteq history[g] \union {"revokeTried", "revokeSkipped"}
      /\ "revokeTried" \in history'[f]
  BY <1>1, <1>2, <1>4 DEF RevokeNew, TryRevoke, Note, TypeOK, Events, tables, clocks
<1>6. Quiet(p, f)
  BY <1>1, <1>2, <1>3, <1>4, <1>5, ConstantsAssumption
  DEF Quiet, TypeOK, Holding, Excused, Excuses, Idle, ConstantsAssumption,
      BeginSteps, DisconnectSteps
<1> QED
  BY <1>2, <1>6, QuietPreserves

(* Revoking for a disconnect is noted. *)
LEMMA RevokeOldPreserves ==
    ASSUME IInv, NEW p \in Requests, RevokeOld(p)
    PROVE  IInv'
<1>1. /\ TypeOK /\ TenantIsolation /\ Started /\ BeginInv /\ HoldInv
      /\ LinkInv /\ CallInv /\ SweepInv /\ LivePasswordAccounted
  BY Parts
<1>2. PICK f \in Flows : /\ req[p].flow = f /\ req[p].at = "revokeOld"
                         /\ req[p].tenant = owner[f] /\ owner[f] \in Tenants
                         /\ owner[f] # NoTenant
  BY InFlight DEF RevokeOld
<1>3. /\ req' \in [Requests -> Calls \union {Idle}]
      /\ req'[p] = Idle \/ (req'[p].at \in {"deleteSecret"} /\ req'[p].flow = f /\ req'[p].tenant = owner[f])
      /\ \A q \in Requests : q # p => req'[q] = req[q]
  BY <1>1, <1>2, GotoFacts, ReturnFacts DEF RevokeOld, Steps, BeginSteps, PollSteps, UseSteps, DisconnectSteps
<1>4. /\ \A q \in Requests : req[q].flow = f /\ q # p => req[q].at \notin BeginSteps
      /\ Minted(f) /\ "connected" \in history[f]
  BY <1>1, <1>2, <1>3 DEF CallInv, LinkInv, DisconnectSteps, BeginInv, BeginSteps
<1>5. /\ UNCHANGED <<pending, conns, secrets, expired, aged, owner, sweep>>
      /\ remote' \in [Flows -> {"unused", "waiting", "granted", "live", "revoked"}]
      /\ \A g \in Flows : remote'[g] = remote[g] \/ (Minted(g) /\ remote'[g] = "revoked")
      /\ history' \in [Flows -> SUBSET Events]
      /\ \A g \in Flows : /\ history[g] \subseteq history'[g]
                          /\ history'[g] \subseteq history[g] \union {"revokeTried", "revokeSkipped"}
      /\ "revokeTried" \in history'[f]
  BY <1>1, <1>2, <1>4 DEF RevokeOld, TryRevoke, Note, TypeOK, Events, tables, clocks
<1>6. Quiet(p, f)
  BY <1>1, <1>2, <1>3, <1>4, <1>5, ConstantsAssumption
  DEF Quiet, TypeOK, Holding, Excused, Excuses, Idle, ConstantsAssumption,
      BeginSteps, DisconnectSteps
<1> QED
  BY <1>2, <1>6, QuietPreserves

(* A failing store call keeps hold of the password, or notes that the      *)
(* revocation is skipped.                                                  *)
LEMMA FaultPreserves ==
    ASSUME IInv, NEW p \in Requests, Fault(p)
    PROVE  IInv'
<1>1. /\ TypeOK /\ TenantIsolation /\ Started /\ BeginInv /\ HoldInv
      /\ LinkInv /\ CallInv /\ SweepInv /\ LivePasswordAccounted
  BY Parts
<1>2. PICK f \in Flows : /\ req[p].flow = f /\ req[p].at \in StoreSteps
                         /\ req[p].tenant = owner[f] /\ owner[f] \in Tenants
                         /\ owner[f] # NoTenant
  BY InFlight DEF Fault, RaiseTo, StoreSteps
<1> DEFINE next == AfterFault(req[p].at)
<1>3. next \in Steps
  BY <1>2 DEF AfterFault, StoreSteps, Steps, BeginSteps, PollSteps, UseSteps, DisconnectSteps
<1>4. /\ req' \in [Requests -> Calls \union {Idle}]
      /\ \A q \in Requests : q # p => req'[q] = req[q]
      /\ next = "idle" => req'[p] = Idle
      /\ next # "idle" => /\ req'[p].at = next /\ req'[p].flow = f
                         /\ req'[p].tenant = owner[f]
  <2>1. CASE next = "idle"
    BY <1>1, <1>2, <2>1, ReturnFacts DEF Fault, RaiseTo
  <2>2. CASE next # "idle"
    BY <1>1, <1>2, <1>3, <2>2, GotoFacts DEF Fault, RaiseTo, StoreSteps
  <2> QED BY <2>1, <2>2
<1>5. /\ UNCHANGED <<pending, conns, secrets, expired, aged, remote, owner, sweep>>
      /\ history' \in [Flows -> SUBSET Events]
      /\ \A g \in Flows : /\ history[g] \subseteq history'[g]
                          /\ history'[g] \subseteq history[g] \union {"revokeTried", "revokeSkipped"}
      /\ req[p].at \in {"dropAppPassword", "resolveAgain"} => "revokeSkipped" \in history'[f]
  BY <1>1, <1>2 DEF Fault, RaiseTo, Note, TypeOK, Events, tables, clocks, external
<1>6. /\ next \in BeginSteps => req[p].at \in BeginSteps /\ next = "dropPollToken"
      /\ Holding(p, f) => \/ next \in {"dropAppPassword", "revokeNew"}
                          \/ req[p].at = "dropAppPassword"
      /\ next \in {"putAppPassword", "putConnection", "dropAppPassword", "revokeNew"} =>
            Holding(p, f) /\ next \in {"dropAppPassword", "revokeNew"}
      /\ next \in {"writeRoot"} \union DisconnectSteps =>
            next = "deleteSecret" /\ req[p].at = "resolveAgain"
  BY <1>2 DEF AfterFault, Holding, StoreSteps, Steps, BeginSteps, PollSteps, UseSteps, DisconnectSteps
<1> HIDE DEF next
<1>7. /\ \A q \in Requests : req[q].flow = f /\ q # p => req[q].at \notin BeginSteps
      /\ req[p].at = "resolveAgain" => "connected" \in history[f]
  BY <1>1, <1>2 DEF BeginInv, CallInv, DisconnectSteps
<1>8. Quiet(p, f)
  BY <1>1, <1>2, <1>3, <1>4, <1>5, <1>6, <1>7, ConstantsAssumption
  DEF Quiet, TypeOK, Holding, Idle, Excused, Excuses, ConstantsAssumption, BeginSteps, DisconnectSteps
<1> QED
  BY <1>2, <1>8, QuietPreserves

(* A flow that has just begun has no row, no secret and no other call. *)
LEMMA BeginPreserves ==
    ASSUME IInv, NEW p \in Requests, NEW t \in Tenants, NEW f \in Flows,
           Begin(p, t, f)
    PROVE  IInv'
<1>1. /\ TypeOK /\ TenantIsolation /\ Started /\ BeginInv /\ HoldInv
      /\ LinkInv /\ CallInv /\ SweepInv /\ LivePasswordAccounted
  BY Parts
<1>2. /\ remote[f] = "unused" /\ owner[f] = NoTenant /\ t # NoTenant
      /\ PollToken(f) \notin aged /\ f \notin sweep.flows
      /\ pending[f] = NoTenant /\ conns[f] = NoTenant
      /\ secrets[PollToken(f)] = NoTenant /\ secrets[AppPassword(f)] = NoTenant
  BY <1>1, ConstantsAssumption DEF Begin, Started, TenantIsolation, ConstantsAssumption
<1>3. \A q \in Requests : req[q].flow # f
  BY <1>1, <1>2, InFlight, ConstantsAssumption DEF TypeOK, Calls, Idle, ConstantsAssumption
<1>4. "connected" \notin history[f] /\ AppPassword(f) \notin aged
  BY <1>1, <1>2 DEF LinkInv, Minted
<1>5. /\ remote' \in [Flows -> {"unused", "waiting", "granted", "live", "revoked"}]
      /\ remote'[f] = "waiting" /\ owner' \in [Flows -> Rows] /\ owner'[f] = t
      /\ \A g \in Flows : g # f => remote'[g] = remote[g] /\ owner'[g] = owner[g]
      /\ UNCHANGED <<pending, conns, secrets, expired, aged, sweep, history>>
  BY <1>1 DEF Begin, TypeOK, Rows, tables, clocks
<1>6. /\ req' \in [Requests -> Calls \union {Idle}] /\ req[p] = Idle
      /\ req'[p].at = "putPollToken" /\ req'[p].flow = f /\ req'[p].tenant = t
      /\ \A q \in Requests : q # p => req'[q] = req[q]
  BY <1>1, StartFacts DEF Begin, Steps, BeginSteps
<1>7. TypeOK'
  BY <1>1, <1>5, <1>6 DEF TypeOK
<1>8. TenantIsolation'
  BY <1>1, <1>2, <1>3, <1>5, <1>6 DEF TypeOK, TenantIsolation, Calls, Idle
<1>9. Started'
  BY <1>1, <1>5 DEF Started
<1>10. BeginInv'
  BY <1>1, <1>2, <1>3, <1>4, <1>5, <1>6 DEF BeginInv, BeginSteps
<1>11. HoldInv'
  BY <1>1, <1>2, <1>3, <1>5, <1>6 DEF HoldInv, Holding, Minted
<1>12. LinkInv'
  BY <1>1, <1>2, <1>4, <1>5 DEF LinkInv, Linked, Minted, Excused
<1>13. CallInv'
  BY <1>1, <1>3, <1>5, <1>6 DEF CallInv, DisconnectSteps, Excused
<1>14. SweepInv'
  BY <1>1, <1>5 DEF SweepInv
<1>15. LivePasswordAccounted'
  <2>1. \A g \in Flows : remote'[g] = "live" => g # f /\ remote[g] = "live"
    BY <1>5
  <2>2. \A q \in Requests : \A g \in Flows : Holding(q, g) => Holding(q, g)'
    BY <1>6, ConstantsAssumption DEF Holding, Idle, ConstantsAssumption
  <2> QED
    BY <1>1, <1>5, <2>1, <2>2 DEF LivePasswordAccounted, Linked
<1> QED
  BY <1>7, <1>8, <1>9, <1>10, <1>11, <1>12, <1>13, <1>14, <1>15 DEF IInv

(* A crash leaves the tables and notes the passwords it loses. *)
LEMMA CrashPreserves ==
    ASSUME IInv, Crash
    PROVE  IInv'
<1>1. /\ TypeOK /\ TenantIsolation /\ Started /\ BeginInv /\ HoldInv
      /\ LinkInv /\ CallInv /\ SweepInv /\ LivePasswordAccounted
  BY Parts
<1>2. /\ UNCHANGED <<pending, conns, secrets, expired, aged, remote, owner, sweep>>
      /\ \A p \in Requests : req'[p] = Idle
      /\ req' \in [Requests -> Calls \union {Idle}]
  BY DEF Crash, tables, clocks, external
<1>3. /\ history' \in [Flows -> SUBSET Events]
      /\ \A f \in Flows : /\ history[f] \subseteq history'[f]
                          /\ history'[f] \subseteq history[f] \union {"crashed"}
                          /\ (\E p \in Requests : Holding(p, f)) => "crashed" \in history'[f]
  BY <1>1 DEF Crash, TypeOK, Events
<1>4. \A p \in Requests : \A f \in Flows :
         /\ req'[p].flow # f /\ req'[p].at = "idle" /\ ~Holding(p, f)'
  BY <1>2, ConstantsAssumption DEF Idle, ConstantsAssumption, Holding
<1>5. TypeOK'
  BY <1>1, <1>2, <1>3 DEF TypeOK
<1>6. TenantIsolation'
  BY <1>1, <1>2 DEF TenantIsolation
<1>7. Started' /\ SweepInv'
  BY <1>1, <1>2, <1>3 DEF Started, SweepInv
<1>8. BeginInv' /\ HoldInv' /\ CallInv'
  BY <1>4 DEF BeginInv, HoldInv, CallInv
<1>9. LinkInv'
  BY <1>1, <1>2, <1>3 DEF LinkInv, Linked, Minted, Excused, Excuses
<1>10. LivePasswordAccounted'
  BY <1>1, <1>2, <1>3 DEF LivePasswordAccounted, Linked, Excuses
<1> QED
  BY <1>5, <1>6, <1>7, <1>8, <1>9, <1>10 DEF IInv

(* What a step of the maintenance process leaves alone. *)
LEMMA SweepFrame ==
    ASSUME IInv, UNCHANGED <<pending, conns, secrets, clocks, external, req, history>>,
           sweep' \in Sweeps \union {NoSweep}, Started', SweepInv',
           \A f \in Flows : f \in sweep'.flows => f \in sweep.flows \/ pending[f] # NoTenant
    PROVE  IInv'
<1>1. /\ TypeOK /\ TenantIsolation /\ Started /\ BeginInv /\ HoldInv
      /\ LinkInv /\ CallInv /\ SweepInv /\ LivePasswordAccounted
  BY Parts
<1>2. TypeOK' /\ TenantIsolation'
  BY <1>1 DEF TypeOK, TenantIsolation, clocks, external
<1>3. BeginInv'
  BY <1>1 DEF BeginInv, clocks
<1>4. HoldInv' /\ LinkInv' /\ CallInv' /\ LivePasswordAccounted'
  BY <1>1 DEF HoldInv, LinkInv, CallInv, LivePasswordAccounted, Holding, Minted,
              Linked, Excused, clocks, external
<1> QED
  BY <1>2, <1>3, <1>4 DEF IInv

(* Only flows with a row are selected, so none that is being begun. *)
LEMMA SweepExpiredPreserves ==
    ASSUME IInv, SweepExpired
    PROVE  IInv'
<1>1. TypeOK /\ TenantIsolation /\ Started
  BY Parts
<1> DEFINE flows == {f \in expired : pending[f] # NoTenant}
<1>2. /\ UNCHANGED <<pending, conns, secrets, clocks, external, req, history>>
      /\ sweep' = [at |-> "scan", flows |-> flows, refs |-> {}]
  BY DEF SweepExpired, SelectExpired, tables
<1>3. sweep' \in Sweeps
  BY <1>1, <1>2 DEF TypeOK, Sweeps
<1>4. Started'
  BY <1>1, <1>2, ConstantsAssumption DEF Started, TenantIsolation, TypeOK, clocks, external
<1>5. SweepInv'
  BY <1>2 DEF SweepInv
<1> QED
  BY <1>2, <1>3, <1>4, <1>5, SweepFrame

(* Only old secrets without a row are selected: no call can name them any  *)
(* more.                                                                   *)
LEMMA SweepOrphansPreserves ==
    ASSUME IInv, SweepOrphans
    PROVE  IInv'
<1>1. TypeOK /\ TenantIsolation /\ Started /\ LinkInv
  BY Parts
<1> DEFINE refs == {r \in aged : secrets[r] # NoTenant /\ ~Referenced(r, sweep.flows)}
                      \ {PollToken(f) : f \in sweep.flows}
<1>2. /\ UNCHANGED <<pending, conns, secrets, clocks, external, req, history>>
      /\ sweep' = [at |-> "commit", flows |-> sweep.flows, refs |-> refs]
  BY DEF SweepOrphans, SelectOrphans, tables
<1>3. sweep' \in Sweeps
  BY <1>1, <1>2 DEF TypeOK, Sweeps, NoSweep
<1>4. Started'
  BY <1>1, <1>2 DEF Started, clocks, external
<1>5. SweepInv'
  <2>1. refs \subseteq aged
    OBVIOUS
  <2>2. ASSUME NEW f \in Flows, AppPassword(f) \in refs
        PROVE  "unlinked" \in history[f] \/ "connected" \notin history[f]
    <3>1. secrets[AppPassword(f)] # NoTenant /\ conns[f] # secrets[AppPassword(f)]
      BY <2>2 DEF Referenced, Owned
    <3>2. conns[f] = NoTenant
      BY <1>1, <3>1 DEF TenantIsolation
    <3> QED
      BY <1>1, <3>2 DEF LinkInv, Linked
  <2>3. ASSUME NEW f \in Flows, PollToken(f) \in refs
        PROVE  pending[f] = NoTenant \/ "consumed" \in history[f]
    <3>1. /\ f \notin sweep.flows
          /\ secrets[PollToken(f)] # NoTenant /\ pending[f] # secrets[PollToken(f)]
      BY <2>3 DEF Referenced, Owned
    <3> QED
      BY <1>1, <3>1 DEF TenantIsolation
  <2> QED
    BY <1>2, <2>1, <2>2, <2>3 DEF SweepInv, clocks
<1> QED
  BY <1>2, <1>3, <1>4, <1>5, SweepFrame

(* A sweep that rolls back changes nothing. *)
LEMMA SweepAbortPreserves ==
    ASSUME IInv, SweepAbort
    PROVE  IInv'
<1>1. TypeOK /\ Started
  BY Parts
<1>2. /\ UNCHANGED <<pending, conns, secrets, clocks, external, req, history>>
      /\ sweep' = NoSweep
  BY DEF SweepAbort, tables
<1>3. Started' /\ SweepInv'
  BY <1>1, <1>2 DEF Started, SweepInv, NoSweep, clocks, external
<1> QED
  BY <1>2, <1>3, SweepFrame DEF NoSweep

(* A sweep deletes the rows of expired flows with their tokens, and        *)
(* secrets no row needs: the grace period keeps the others from it.        *)
LEMMA SweepCommitPreserves ==
    ASSUME IInv, SweepCommit
    PROVE  IInv'
<1>1. /\ TypeOK /\ TenantIsolation /\ Started /\ BeginInv /\ HoldInv
      /\ LinkInv /\ CallInv /\ SweepInv /\ LivePasswordAccounted
  BY Parts
<1>2. /\ pending' \in [Flows -> Rows]
      /\ \A f \in Flows : pending'[f] = IF f \in sweep.flows THEN NoTenant ELSE pending[f]
      /\ UNCHANGED <<conns, expired, aged, remote, owner, req, history>>
      /\ sweep' = NoSweep
  BY <1>1 DEF SweepCommit, CommitSweep, TypeOK, Rows, clocks, external
<1>3. /\ secrets' \in [Refs -> Rows]
      /\ \A r \in sweep.refs : secrets'[r] = NoTenant
      /\ \A f \in sweep.flows : secrets'[PollToken(f)] = NoTenant
      /\ \A r \in Refs : secrets'[r] \in {NoTenant, secrets[r]}
      /\ \A f \in Flows : AppPassword(f) \notin sweep.refs =>
                            secrets'[AppPassword(f)] = secrets[AppPassword(f)]
      /\ \A f \in Flows : PollToken(f) \notin sweep.refs /\ f \notin sweep.flows =>
                            secrets'[PollToken(f)] = secrets[PollToken(f)]
  <2>1. PICK doomed :
            /\ doomed = sweep.refs \union {PollToken(f) : f \in sweep.flows}
            /\ secrets' = [r \in Refs |-> IF r \in doomed THEN NoTenant ELSE secrets[r]]
    BY DEF SweepCommit, CommitSweep
  <2>2. sweep.flows \subseteq Flows /\ sweep.refs \subseteq Refs
    BY <1>1 DEF TypeOK, Sweeps, NoSweep
  <2>3. /\ \A r \in sweep.refs : r \in doomed
        /\ \A f \in sweep.flows : PollToken(f) \in doomed
        /\ \A f \in Flows : AppPassword(f) \in doomed => AppPassword(f) \in sweep.refs
        /\ \A f \in Flows : PollToken(f) \in doomed =>
                              PollToken(f) \in sweep.refs \/ f \in sweep.flows
    BY <2>1, <2>2, RefsFacts
  <2>4. secrets' \in [Refs -> Rows]
    BY <1>1, <2>1 DEF TypeOK, Rows
  <2>5. \A r \in Refs : secrets'[r] = IF r \in doomed THEN NoTenant ELSE secrets[r]
    BY <2>1
  <2> QED
    BY <2>2, <2>3, <2>4, <2>5, RefsFacts
<1>4. TypeOK'
  BY <1>1, <1>2, <1>3 DEF TypeOK
<1>5. TenantIsolation'
  BY <1>1, <1>2, <1>3 DEF TenantIsolation
<1>6. Started' /\ SweepInv'
  BY <1>1, <1>2 DEF Started, SweepInv, NoSweep
<1>7. BeginInv'
  BY <1>1, <1>2, <1>3 DEF BeginInv, SweepInv, NoSweep
<1>8. HoldInv'
  BY <1>1, <1>2, <1>3 DEF HoldInv, SweepInv, Holding, Minted
<1>9. LinkInv'
  BY <1>1, <1>2, <1>3 DEF LinkInv, SweepInv, Linked, Minted, Excused
<1>10. CallInv'
  BY <1>1, <1>2 DEF CallInv, Excused
<1>11. LivePasswordAccounted'
  <2>1. ASSUME NEW f \in Flows, Linked(f)
        PROVE  Linked(f)' \/ Excused(f)
    BY <1>1, <1>2, <1>3, <2>1 DEF LinkInv, SweepInv, Linked
  <2> QED
    BY <1>1, <1>2, <2>1 DEF LivePasswordAccounted, Holding, Excused
<1> QED
  BY <1>4, <1>5, <1>6, <1>7, <1>8, <1>9, <1>10, <1>11 DEF IInv

(* The user's approval. *)
LEMMA GrantPreserves ==
    ASSUME IInv, NEW f \in Flows, Grant(f)
    PROVE  IInv'
<1>1. /\ TypeOK /\ TenantIsolation /\ Started /\ BeginInv /\ HoldInv
      /\ LinkInv /\ CallInv /\ SweepInv /\ LivePasswordAccounted
  BY Parts
<1>2. /\ UNCHANGED <<pending, conns, secrets, expired, aged, owner, req, sweep, history>>
      /\ remote' \in [Flows -> {"unused", "waiting", "granted", "live", "revoked"}]
      /\ remote[f] = "waiting" /\ remote'[f] = "granted"
      /\ \A g \in Flows : g # f => remote'[g] = remote[g]
  BY <1>1 DEF Grant, TypeOK, tables, clocks
<1>3. \A g \in Flows : Minted(g)' = Minted(g) /\ (remote'[g] = "unused" <=> remote[g] = "unused")
  BY <1>2 DEF Minted
<1>4. TypeOK' /\ TenantIsolation' /\ Started' /\ SweepInv'
  BY <1>1, <1>2, <1>3 DEF TypeOK, TenantIsolation, Started, SweepInv
<1>5. BeginInv' /\ CallInv'
  BY <1>1, <1>2 DEF BeginInv, CallInv, Excused
<1>6. HoldInv' /\ LinkInv'
  BY <1>1, <1>2, <1>3 DEF HoldInv, LinkInv, Holding, Linked, Excused
<1>7. LivePasswordAccounted'
  BY <1>1, <1>2 DEF LivePasswordAccounted, Linked, Holding
<1> QED
  BY <1>4, <1>5, <1>6, <1>7 DEF IInv

(* The invariant does not depend on which flows have expired. *)
LEMMA ExpirePreserves ==
    ASSUME IInv, NEW f \in Flows, Expire(f)
    PROVE  IInv'
<1>1. /\ TypeOK /\ TenantIsolation /\ Started /\ BeginInv /\ HoldInv
      /\ LinkInv /\ CallInv /\ SweepInv /\ LivePasswordAccounted
  BY Parts
<1>2. /\ UNCHANGED <<pending, conns, secrets, aged, remote, owner, req, sweep, history>>
      /\ expired' \subseteq Flows
  BY <1>1 DEF Expire, TypeOK, tables, external
<1>3. TypeOK' /\ TenantIsolation' /\ Started' /\ BeginInv' /\ CallInv' /\ SweepInv'
  BY <1>1, <1>2 DEF TypeOK, TenantIsolation, Started, BeginInv, CallInv, Excused, SweepInv
<1>4. HoldInv' /\ LinkInv' /\ LivePasswordAccounted'
  BY <1>1, <1>2 DEF HoldInv, LinkInv, LivePasswordAccounted, Holding, Minted, Linked, Excused
<1> QED
  BY <1>3, <1>4 DEF IInv

(* A secret grows old only outside the window of the call that stored it. *)
LEMMA AgePreserves ==
    ASSUME IInv, NEW r \in Refs, Age(r)
    PROVE  IInv'
<1>1. /\ TypeOK /\ TenantIsolation /\ Started /\ BeginInv /\ HoldInv
      /\ LinkInv /\ CallInv /\ SweepInv /\ LivePasswordAccounted
  BY Parts
<1>2. /\ UNCHANGED <<pending, conns, secrets, expired, remote, owner, req, sweep, history>>
      /\ aged' = aged \union {r} /\ secrets[r] # NoTenant
      /\ \A p \in Requests : \A f \in Flows : req[p].flow = f =>
            /\ req[p].at = "putPending" => r # PollToken(f)
            /\ req[p].at = "putConnection" => r # AppPassword(f)
  BY <1>1 DEF Age, InWindow, TypeOK, tables, external
<1>3. TypeOK' /\ TenantIsolation' /\ CallInv' /\ SweepInv'
  BY <1>1, <1>2 DEF TypeOK, TenantIsolation, CallInv, Excused, SweepInv
<1>4. Started'
  BY <1>1, <1>2 DEF Started, TenantIsolation
<1>5. BeginInv'
  BY <1>1, <1>2 DEF BeginInv
<1>6. HoldInv'
  BY <1>1, <1>2 DEF HoldInv, Holding, Minted
<1>7. LinkInv'
  BY <1>1, <1>2 DEF LinkInv, Linked, Minted, Excused
<1>8. LivePasswordAccounted'
  BY <1>1, <1>2 DEF LivePasswordAccounted, Linked, Holding
<1> QED
  BY <1>3, <1>4, <1>5, <1>6, <1>7, <1>8 DEF IInv

-----------------------------------------------------------------------------
(* The initial state satisfies the invariant. *)
LEMMA InitInv ==
    Init => IInv
<1> SUFFICES ASSUME Init PROVE IInv
  OBVIOUS
<1> USE ConstantsAssumption DEF Init, ConstantsAssumption
<1>1. TypeOK
  BY DEF TypeOK, Rows, Idle, NoSweep
<1>2. TenantIsolation
  BY RefsFacts DEF TenantIsolation
<1>3. Started /\ SweepInv
  BY DEF Started, SweepInv, NoSweep
<1>4. BeginInv /\ HoldInv /\ CallInv
  BY DEF BeginInv, HoldInv, CallInv, Idle, Holding
<1>5. LinkInv
  BY RefsFacts DEF LinkInv
<1>6. LivePasswordAccounted
  BY DEF LivePasswordAccounted
<1> QED
  BY <1>1, <1>2, <1>3, <1>4, <1>5, <1>6 DEF IInv

(* Every step of the service, of maintenance and of the environment keeps  *)
(* the invariant.                                                          *)
LEMMA NextInv ==
    IInv /\ [Next]_vars => IInv'
<1> SUFFICES ASSUME IInv, [Next]_vars PROVE IInv'
  OBVIOUS
<1>1. CASE UNCHANGED vars
  <2>1. \A p \in Requests : \A f \in Flows : Holding(p, f)' = Holding(p, f)
    BY <1>1 DEF vars, Holding
  <2> QED
    BY <1>1, <2>1 DEF vars, IInv, TypeOK, TenantIsolation, Started, BeginInv, HoldInv, LinkInv,
                 CallInv, SweepInv, LivePasswordAccounted, Minted, Excused, Linked
<1>2. ASSUME NEW p \in Requests, Continue(p) PROVE IInv'
  <2>1. CASE BeginStep(p)
    BY <2>1, PutPollTokenPreserves, PutPendingPreserves, DropPollTokenPreserves DEF BeginStep
  <2>2. CASE PollStep(p)
    BY <2>2, ReadPollTokenPreserves, PollUnfinishedPreserves, PollCompletedPreserves,
       PollRefusedPreserves, PollAnswerLostPreserves, PutAppPasswordPreserves,
       PutConnectionPreserves, DropAppPasswordPreserves, RevokeNewPreserves,
       ConsumeTokenPreserves, ConsumeRowPreserves DEF PollStep, Answer
  <2>3. CASE WriteRoot(p)
    BY <2>3, WriteRootPreserves
  <2>4. CASE UseStep(p)
    BY <2>4, ReadRecordPreserves, ReadSecretPreserves, FinishUsePreserves DEF UseStep
  <2>5. CASE DisconnectStep(p)
    BY <2>5, PeekSecretPreserves, ResolveAgainPreserves, RevokeOldPreserves,
       DeleteSecretPreserves, DeleteRowPreserves DEF DisconnectStep
  <2>6. CASE Fault(p)
    BY <2>6, FaultPreserves
  <2> QED
    BY <1>2, <2>1, <2>2, <2>3, <2>4, <2>5, <2>6 DEF Continue
<1>3. ASSUME NEW p \in Requests, NEW t \in Tenants, NEW f \in Flows, Call(p, t, f)
      PROVE  IInv'
  BY <1>3, BeginPreserves, PollPreserves, UpdateRootPreserves, ResolvePreserves,
     DisconnectPreserves DEF Call
<1>4. CASE Crash
  BY <1>4, CrashPreserves
<1>5. CASE Sweep \/ SweepAbort
  BY <1>5, SweepExpiredPreserves, SweepOrphansPreserves, SweepCommitPreserves,
     SweepAbortPreserves DEF Sweep
<1>6. ASSUME NEW f \in Flows, Grant(f) \/ Expire(f) PROVE IInv'
  BY <1>6, GrantPreserves, ExpirePreserves
<1>7. ASSUME NEW r \in Refs, Age(r) PROVE IInv'
  BY <1>7, AgePreserves
<1> QED
  BY <1>1, <1>2, <1>3, <1>4, <1>5, <1>6, <1>7 DEF Next

(* IInv holds in every reachable state, whatever the constants. *)
THEOREM InvariantHolds ==
    Spec => []IInv
  BY InitInv, NextInv, PTL DEF Spec

(* Every variable keeps its type: in particular a call in flight always    *)
(* has a tenant and a flow, and a thread between calls keeps nothing.      *)
THEOREM TypeCorrect ==
    Spec => []TypeOK
<1>1. IInv => TypeOK
  BY DEF IInv
<1> QED
  BY <1>1, InvariantHolds, PTL

(* No row, secret or call of a flow ever belongs to a tenant other than    *)
(* the one that began it (the tenant predicate of every store query).      *)
THEOREM TenantsIsolated ==
    Spec => []TenantIsolation
<1>1. IInv => TenantIsolation
  BY DEF IInv
<1> QED
  BY <1>1, InvariantHolds, PTL

(* Neither maintenance nor a failing call deletes a secret that a row      *)
(* still needs, whatever interleaves.                                      *)
THEOREM NoDanglingReference ==
    Spec => []ReferencesResolve
<1>1. IInv => ReferencesResolve
  BY DEF IInv, LinkInv, Linked, ReferencesResolve
<1> QED
  BY <1>1, InvariantHolds, PTL

(* The service loses sight of a live app password only in the ways that    *)
(* LivePasswordAccounted names.                                            *)
THEOREM PasswordsAccounted ==
    Spec => []LivePasswordAccounted
<1>1. IInv => LivePasswordAccounted
  BY DEF IInv
<1> QED
  BY <1>1, InvariantHolds, PTL

(* disconnect is final for the credential: no concurrent call brings it    *)
(* back.                                                                   *)
THEOREM DisconnectFinal ==
    Spec => []DisconnectedCredentialGone
<1>1. IInv => DisconnectedCredentialGone
  BY DEF IInv, LinkInv, DisconnectedCredentialGone
<1> QED
  BY <1>1, InvariantHolds, PTL

-----------------------------------------------------------------------------
(***************************************************************************)
(* The account of a flow (LinkedAccount), with or without faults: whatever *)
(* interleaves, an account is linked once, with a live password, and       *)
(* closed for good.  Most steps of the service are stutters of the         *)
(* account; Begin offers, HandOut issues, PutConnection links, a           *)
(* revocation that reaches Nextcloud revokes, DeleteSecret closes.         *)
(***************************************************************************)

(* The password a poll is about to store is live: only the poll that holds *)
(* it could revoke it, and there is one at most.                           *)
FreshInv ==
    \A p \in Requests :
        req[p].at \in {"putAppPassword", "putConnection"} => remote[req[p].flow] = "live"

(* One step of the account of f, the other accounts stay as they are. *)
AccountMoves(f) ==
    /\ \A g \in Flows : g # f => Phase(g)' = Phase(g) /\ Password(g)' = Password(g)
    /\ \/ /\ Phase(f) = "new" /\ Phase(f)' = "offered" /\ Password(f)' = Password(f)
       \/ /\ Phase(f) = "offered" /\ Password(f) = "none"
          /\ Password(f)' = "live" /\ Phase(f)' = Phase(f)
       \/ /\ Phase(f) = "offered" /\ Password(f) = "live"
          /\ Phase(f)' = "linked" /\ Password(f)' = Password(f)
       \/ /\ Password(f) = "live" /\ Password(f)' = "revoked" /\ Phase(f)' = Phase(f)
       \/ /\ Phase(f) = "linked" /\ Phase(f)' = "closed" /\ Password(f)' = Password(f)

AccountsStay == \A g \in Flows : Phase(g)' = Phase(g) /\ Password(g)' = Password(g)

AccountStep == AccountsStay \/ \E f \in Flows : AccountMoves(f)

(* What the accounts look like depends on three facts of each flow. *)
LEMMA SameView ==
    ASSUME NEW g \in Flows,
           Linked(g)' = Linked(g),
           ("connected" \in history[g])' = ("connected" \in history[g]),
           remote'[g] = remote[g]
    PROVE  Phase(g)' = Phase(g) /\ Password(g)' = Password(g)
  BY DEF Phase, Password

(* What is not connected is not linked. *)
LEMMA Unlinked ==
    ASSUME IInv, NEW f \in Flows, "connected" \notin history[f]
    PROVE  conns[f] = NoTenant /\ ~Linked(f)
  BY Parts DEF LinkInv, Linked

(* An app password is nobody's poll token. *)
LEMMA AppRef ==
    \A f, g \in Flows :
        /\ AppPassword(f) \in Refs /\ AppPassword(f) # PollToken(g)
        /\ f # g => AppPassword(f) # AppPassword(g)
  BY RefsFacts

(* Steps that touch neither a connection, an app password nor Nextcloud,   *)
(* and note nothing of a connection, are stutters.                         *)
LEMMA Stutter ==
    ASSUME UNCHANGED <<conns, remote>>,
           \A f \in Flows : secrets'[AppPassword(f)] = secrets[AppPassword(f)],
           \A f \in Flows : ("connected" \in history'[f]) = ("connected" \in history[f])
    PROVE  AccountStep
<1>1. \A g \in Flows : Linked(g)' = Linked(g)
  BY DEF Linked, AppPassword
<1> QED
  BY <1>1, SameView DEF AccountStep, AccountsStay

(* A step of one call that enters none of the two steps anew, and leaves   *)
(* Nextcloud alone, keeps FreshInv.                                        *)
LEMMA FreshStays ==
    ASSUME FreshInv, NEW p \in Requests, UNCHANGED remote,
           \A q \in Requests : q # p => req'[q] = req[q],
           req'[p].at \in {"putAppPassword", "putConnection"} =>
               req[p].at = "putAppPassword" /\ req'[p].flow = req[p].flow
    PROVE  FreshInv'
  BY DEF FreshInv

(* The idle call holds no password. *)
LEMMA IdleHoldsNothing == Idle.at = "idle"
  BY DEF Idle

-----------------------------------------------------------------------------
(* Steps of a call that are stutters of the accounts                       *)

(* The calls that change the poll token or the pending row. *)
LEMMA PendingSteps ==
    ASSUME IInv, FreshInv, NEW p \in Requests,
           \/ PutPollToken(p) \/ PutPending(p) \/ DropPollToken(p)
           \/ ConsumeToken(p) \/ ConsumeRow(p)
    PROVE  AccountStep /\ FreshInv'
<1>1. TypeOK
  BY Parts
<1>2. PICK f \in Flows : req[p].flow = f /\ req[p].at # "idle"
  BY InFlight DEF PutPollToken, PutPending, DropPollToken, ConsumeToken, ConsumeRow
<1>3. UNCHANGED <<conns, remote>>
  BY DEF PutPollToken, PutPending, DropPollToken, ConsumeToken, ConsumeRow, external
<1>4. \A g \in Flows : secrets'[AppPassword(g)] = secrets[AppPassword(g)]
  BY <1>1, <1>2, AppRef
  DEF PutPollToken, PutPending, DropPollToken, ConsumeToken, ConsumeRow, Without, TypeOK
<1>5. \A g \in Flows : ("connected" \in history'[g]) = ("connected" \in history[g])
  BY <1>1, <1>2
  DEF PutPollToken, PutPending, DropPollToken, ConsumeToken, ConsumeRow, Note, TypeOK
<1>6. AccountStep
  BY <1>3, <1>4, <1>5, Stutter
<1>7. FreshInv'
  <2>1. /\ \A q \in Requests : q # p => req'[q] = req[q]
        /\ req'[p].at \in {"putPending", "consumeRow", "idle"}
    BY <1>1, <1>2, GotoFacts, ReturnFacts, IdleHoldsNothing
    DEF PutPollToken, PutPending, DropPollToken, ConsumeToken, ConsumeRow, Steps, BeginSteps,
        PollSteps
  <2> QED
    BY <1>3, <2>1, FreshStays
<1> QED
  BY <1>6, <1>7

(* The steps that only read, and those that begin a call on a flow. *)
LEMMA ReadingSteps ==
    ASSUME IInv, FreshInv, NEW p \in Requests,
           \/ ReadPollToken(p) \/ PollUnfinished(p) \/ UseStep(p)
           \/ PeekSecret(p) \/ ResolveAgain(p)
           \/ \E t \in Tenants, f \in Flows :
                Poll(p, t, f) \/ UpdateRoot(p, t, f) \/ Resolve(p, t, f) \/ Disconnect(p, t, f)
    PROVE  AccountStep /\ FreshInv'
<1>1. TypeOK
  BY Parts
<1>2. UNCHANGED <<conns, secrets, remote, history>>
  BY DEF ReadPollToken, PollUnfinished, UseStep, ReadRecord, ReadSecret, FinishUse, PeekSecret,
         ResolveAgain, Poll, UpdateRoot, Resolve, Disconnect, tables, external
<1>3. AccountStep
  BY <1>2, Stutter
<1>4. /\ \A q \in Requests : q # p => req'[q] = req[q]
      /\ req'[p].at \notin {"putAppPassword", "putConnection"}
  <2>1. CASE \E t \in Tenants, f \in Flows :
               Poll(p, t, f) \/ UpdateRoot(p, t, f) \/ Resolve(p, t, f) \/ Disconnect(p, t, f)
    BY <1>1, <2>1, StartFacts
    DEF Poll, UpdateRoot, Resolve, Disconnect, Steps, PollSteps, UseSteps, DisconnectSteps
  <2>2. CASE ReadPollToken(p) \/ PollUnfinished(p) \/ UseStep(p) \/ PeekSecret(p) \/ ResolveAgain(p)
    BY <1>1, <2>2, GotoFacts, ReturnFacts, IdleHoldsNothing
    DEF ReadPollToken, PollUnfinished, UseStep, ReadRecord, ReadSecret, FinishUse, PeekSecret,
        ResolveAgain, Steps, PollSteps, UseSteps, DisconnectSteps
  <2> QED
    BY <2>1, <2>2
<1>5. FreshInv'
  BY <1>2, <1>4, FreshStays
<1> QED
  BY <1>3, <1>5

(* A failing store call changes no table and goes to no step that stores. *)
LEMMA FaultStep ==
    ASSUME IInv, FreshInv, NEW p \in Requests, Fault(p)
    PROVE  AccountStep /\ FreshInv'
<1>1. TypeOK
  BY Parts
<1>2. PICK f \in Flows : req[p].flow = f /\ req[p].at \in StoreSteps /\ req[p].at # "idle"
  BY InFlight DEF Fault, RaiseTo, StoreSteps
<1>3. UNCHANGED <<conns, secrets, remote>>
  BY DEF Fault, RaiseTo, tables, external
<1>4. \A g \in Flows : ("connected" \in history'[g]) = ("connected" \in history[g])
  BY <1>1, <1>2 DEF Fault, RaiseTo, Note, TypeOK
<1>5. AccountStep
  BY <1>3, <1>4, Stutter
<1> DEFINE next == AfterFault(req[p].at)
<1>6. next \in Steps /\ next \notin {"putAppPassword", "putConnection"}
  BY <1>2 DEF AfterFault, StoreSteps, Steps, BeginSteps, PollSteps, UseSteps, DisconnectSteps
<1>7. IF next = "idle" THEN Return(p) ELSE Goto(p, next)
  BY DEF Fault, RaiseTo
<1> HIDE DEF next
<1>8. /\ \A q \in Requests : q # p => req'[q] = req[q]
      /\ req'[p].at \notin {"putAppPassword", "putConnection"}
  BY <1>1, <1>2, <1>6, <1>7, GotoFacts, ReturnFacts, IdleHoldsNothing
<1>9. FreshInv'
  BY <1>3, <1>8, FreshStays
<1> QED
  BY <1>5, <1>9

(* The app password is stored before anything is connected. *)
LEMMA PutAppPasswordStep ==
    ASSUME IInv, FreshInv, NEW p \in Requests, PutAppPassword(p)
    PROVE  AccountStep /\ FreshInv'
<1>1. TypeOK /\ HoldInv
  BY Parts
<1>2. PICK f \in Flows : req[p].flow = f /\ req[p].at = "putAppPassword"
  BY InFlight DEF PutAppPassword
<1>3. UNCHANGED <<conns, remote, history>>
  BY DEF PutAppPassword, external
<1>4. \A g \in Flows : g # f => secrets'[AppPassword(g)] = secrets[AppPassword(g)]
  BY <1>1, <1>2, AppRef DEF PutAppPassword, TypeOK
<1>5. conns[f] = NoTenant
  BY <1>1, <1>2, Unlinked DEF HoldInv, Holding
<1>6. \A g \in Flows : Linked(g)' = Linked(g)
  BY <1>3, <1>4, <1>5 DEF Linked, AppPassword
<1>7. AccountStep
  BY <1>3, <1>6, SameView DEF AccountStep, AccountsStay
<1>8. /\ \A q \in Requests : q # p => req'[q] = req[q]
      /\ req'[p].at = "putConnection" /\ req'[p].flow = req[p].flow
  BY <1>1, <1>2, GotoFacts DEF PutAppPassword, Steps, PollSteps
<1>9. FreshInv'
  BY <1>2, <1>3, <1>8, FreshStays
<1> QED
  BY <1>7, <1>9

(* The password that could not be connected is deleted again. *)
LEMMA DropAppPasswordStep ==
    ASSUME IInv, FreshInv, NEW p \in Requests, DropAppPassword(p)
    PROVE  AccountStep /\ FreshInv'
<1>1. TypeOK /\ HoldInv
  BY Parts
<1>2. PICK f \in Flows : req[p].flow = f /\ req[p].at = "dropAppPassword"
  BY InFlight DEF DropAppPassword
<1>3. UNCHANGED <<conns, remote, history>>
  BY DEF DropAppPassword, external
<1>4. \A g \in Flows : g # f => secrets'[AppPassword(g)] = secrets[AppPassword(g)]
  BY <1>1, <1>2, AppRef DEF DropAppPassword, Without, TypeOK
<1>5. conns[f] = NoTenant
  BY <1>1, <1>2, Unlinked DEF HoldInv, Holding
<1>6. \A g \in Flows : Linked(g)' = Linked(g)
  BY <1>3, <1>4, <1>5 DEF Linked, AppPassword
<1>7. AccountStep
  BY <1>3, <1>6, SameView DEF AccountStep, AccountsStay
<1>8. /\ \A q \in Requests : q # p => req'[q] = req[q]
      /\ req'[p].at = "revokeNew"
  BY <1>1, <1>2, GotoFacts DEF DropAppPassword, Steps, PollSteps
<1>9. FreshInv'
  BY <1>3, <1>8, FreshStays
<1> QED
  BY <1>7, <1>9

(* The row is written back of a connection whose password is either still  *)
(* there or gone for good.                                                 *)
LEMMA WriteRootStep ==
    ASSUME IInv, FreshInv, NEW p \in Requests, WriteRoot(p)
    PROVE  AccountStep /\ FreshInv'
<1>1. TypeOK /\ LinkInv /\ CallInv
  BY Parts
<1>2. PICK f \in Flows : /\ req[p].flow = f /\ req[p].at = "writeRoot"
                         /\ req[p].tenant \in Tenants /\ req[p].tenant # NoTenant
  BY InFlight DEF WriteRoot
<1>3. UNCHANGED <<secrets, remote, history>>
  BY DEF WriteRoot, external
<1>4. /\ \A g \in Flows : g # f => conns'[g] = conns[g]
      /\ conns'[f] # NoTenant
  BY <1>1, <1>2 DEF WriteRoot, UpsertConnection, TypeOK
<1>5. "connected" \in history[f]
  BY <1>1, <1>2 DEF CallInv
<1>6. Linked(f) \/ secrets[AppPassword(f)] = NoTenant
  BY <1>1, <1>5 DEF LinkInv
<1>7. \A g \in Flows : Linked(g)' = Linked(g)
  BY <1>3, <1>4, <1>6 DEF Linked, AppPassword
<1>8. AccountStep
  BY <1>3, <1>7, SameView DEF AccountStep, AccountsStay
<1>9. /\ \A q \in Requests : q # p => req'[q] = req[q]
      /\ req'[p].at = "idle"
  BY <1>1, ReturnFacts, IdleHoldsNothing DEF WriteRoot
<1>10. FreshInv'
  BY <1>3, <1>9, FreshStays
<1> QED
  BY <1>8, <1>10

(* The row of a disconnected account is deleted after its password. *)
LEMMA DeleteRowStep ==
    ASSUME IInv, FreshInv, NEW p \in Requests, DeleteRow(p)
    PROVE  AccountStep /\ FreshInv'
<1>1. TypeOK /\ LinkInv /\ CallInv
  BY Parts
<1>2. PICK f \in Flows : req[p].flow = f /\ req[p].at = "deleteRow"
  BY InFlight DEF DeleteRow
<1>3. UNCHANGED <<secrets, remote>>
  BY DEF DeleteRow, external
<1>4. \A g \in Flows : g # f => conns'[g] = conns[g]
  BY <1>1, <1>2 DEF DeleteRow, Without, TypeOK
<1>5. secrets[AppPassword(f)] = NoTenant
  BY <1>1, <1>2 DEF CallInv, LinkInv
<1>6. \A g \in Flows : Linked(g)' = Linked(g)
  BY <1>3, <1>4, <1>5 DEF Linked, AppPassword
<1>7. \A g \in Flows : ("connected" \in history'[g]) = ("connected" \in history[g])
  BY <1>1, <1>2 DEF DeleteRow, Note, TypeOK
<1>8. AccountStep
  BY <1>3, <1>6, <1>7, SameView DEF AccountStep, AccountsStay
<1>9. /\ \A q \in Requests : q # p => req'[q] = req[q]
      /\ req'[p].at = "idle"
  BY <1>1, ReturnFacts, IdleHoldsNothing DEF DeleteRow
<1>10. FreshInv'
  BY <1>3, <1>9, FreshStays
<1> QED
  BY <1>8, <1>10

-----------------------------------------------------------------------------
(* Steps that move an account                                              *)

(* initiate() offers the account of a flow that nobody has used.           *)
LEMMA BeginStepMoves ==
    ASSUME IInv, FreshInv, NEW p \in Requests, NEW t \in Tenants, NEW f \in Flows, Begin(p, t, f)
    PROVE  AccountStep /\ FreshInv'
<1>1. TypeOK /\ LinkInv
  BY Parts
<1>2. /\ remote[f] = "unused" /\ remote'[f] = "waiting"
      /\ \A g \in Flows : g # f => remote'[g] = remote[g]
      /\ UNCHANGED <<conns, secrets, history>>
  BY <1>1 DEF Begin, TypeOK, tables
<1>3. "connected" \notin history[f] /\ ~Linked(f)
  BY <1>1, <1>2, Unlinked DEF LinkInv, Minted
<1>4. \A g \in Flows : Linked(g)' = Linked(g)
  BY <1>2 DEF Linked, AppPassword
<1>5. \A g \in Flows : g # f => Phase(g)' = Phase(g) /\ Password(g)' = Password(g)
  BY <1>2, <1>4, SameView
<1>6. Phase(f) = "new" /\ Phase(f)' = "offered" /\ Password(f)' = Password(f)
  BY <1>2, <1>3, <1>4 DEF Phase, Password
<1>7. AccountStep
  BY <1>5, <1>6 DEF AccountStep, AccountMoves
<1>8. /\ \A q \in Requests : q # p => req'[q] = req[q]
      /\ req'[p].at = "putPollToken"
  BY <1>1, StartFacts DEF Begin, Steps, BeginSteps
<1>9. FreshInv'
  <2> SUFFICES ASSUME NEW q \in Requests, req'[q].at \in {"putAppPassword", "putConnection"}
               PROVE  remote'[req'[q].flow] = "live"
    BY DEF FreshInv
  <2>1. req'[q] = req[q] /\ remote[req[q].flow] = "live"
    BY <1>8 DEF FreshInv
  <2>2. req[q].flow \in Flows
    BY <2>1, InFlight
  <2> QED
    BY <1>2, <2>1, <2>2
<1> QED
  BY <1>7, <1>9

(* Nextcloud hands out the password, whatever becomes of the answer. *)
LEMMA AnswerStep ==
    ASSUME IInv, FreshInv, NEW p \in Requests,
           PollCompleted(p) \/ PollRefused(p) \/ PollAnswerLost(p)
    PROVE  AccountStep /\ FreshInv'
<1>1. TypeOK /\ LinkInv
  BY Parts
<1>2. PICK f \in Flows : req[p].flow = f /\ req[p].at = "askNextcloud"
  BY InFlight DEF PollCompleted, PollRefused, PollAnswerLost, HandOut
<1>3. /\ remote[f] = "granted" /\ remote'[f] = "live"
      /\ \A g \in Flows : g # f => remote'[g] = remote[g]
      /\ UNCHANGED <<conns, secrets>>
  BY <1>1, <1>2 DEF PollCompleted, PollRefused, PollAnswerLost, HandOut, TypeOK, tables
<1>4. \A g \in Flows : ("connected" \in history'[g]) = ("connected" \in history[g])
  BY <1>1, <1>2 DEF PollCompleted, PollRefused, PollAnswerLost, HandOut, TypeOK
<1>5. "connected" \notin history[f] /\ ~Linked(f)
  BY <1>1, <1>3, Unlinked DEF LinkInv, Minted
<1>6. \A g \in Flows : Linked(g)' = Linked(g)
  BY <1>3 DEF Linked, AppPassword
<1>7. \A g \in Flows : g # f => Phase(g)' = Phase(g) /\ Password(g)' = Password(g)
  BY <1>3, <1>4, <1>6, SameView
<1>8. /\ Phase(f) = "offered" /\ Phase(f)' = Phase(f)
      /\ Password(f) = "none" /\ Password(f)' = "live"
  BY <1>3, <1>4, <1>5, <1>6 DEF Phase, Password
<1>9. AccountStep
  BY <1>7, <1>8 DEF AccountStep, AccountMoves
<1>10. /\ \A q \in Requests : q # p => req'[q] = req[q]
       /\ req'[p].at = "idle" \/ req'[p].flow = f
  BY <1>1, <1>2, GotoFacts, ReturnFacts, IdleHoldsNothing
  DEF PollCompleted, PollRefused, PollAnswerLost, Steps, PollSteps
<1>11. FreshInv'
  <2> SUFFICES ASSUME NEW q \in Requests, req'[q].at \in {"putAppPassword", "putConnection"}
               PROVE  remote'[req'[q].flow] = "live"
    BY DEF FreshInv
  <2>1. CASE q = p
    BY <1>3, <1>10, <2>1
  <2>2. CASE q # p
    <3>1. req'[q] = req[q] /\ remote[req[q].flow] = "live"
      BY <1>10, <2>2 DEF FreshInv
    <3>2. req[q].flow \in Flows
      BY <3>1, InFlight
    <3> QED
      BY <1>3, <3>1, <3>2
  <2> QED
    BY <2>1, <2>2
<1> QED
  BY <1>9, <1>11

(* The connection becomes usable, with the password that is live. *)
LEMMA PutConnectionStep ==
    ASSUME IInv, FreshInv, NEW p \in Requests, PutConnection(p)
    PROVE  AccountStep /\ FreshInv'
<1>1. TypeOK /\ HoldInv
  BY Parts
<1>2. PICK f \in Flows : /\ req[p].flow = f /\ req[p].at = "putConnection"
                         /\ req[p].tenant \in Tenants /\ req[p].tenant # NoTenant
  BY InFlight DEF PutConnection
<1>3. remote[f] = "live" /\ UNCHANGED <<secrets, remote>>
  BY <1>2 DEF PutConnection, FreshInv, external
<1>4. secrets[AppPassword(f)] # NoTenant /\ "connected" \notin history[f] /\ ~Linked(f)
  BY <1>1, <1>2, Unlinked DEF HoldInv, Holding
<1>5. /\ \A g \in Flows : g # f => conns'[g] = conns[g] /\ history'[g] = history[g]
      /\ conns'[f] # NoTenant
  BY <1>1, <1>2 DEF PutConnection, UpsertConnection, Note, TypeOK
<1>6. \A g \in Flows : g # f => Linked(g)' = Linked(g)
  BY <1>3, <1>5 DEF Linked, AppPassword
<1>7. \A g \in Flows : g # f => Phase(g)' = Phase(g) /\ Password(g)' = Password(g)
  BY <1>3, <1>5, <1>6, SameView
<1>8. Linked(f)'
  BY <1>3, <1>4, <1>5 DEF Linked, AppPassword
<1>9. /\ Phase(f) = "offered" /\ Phase(f)' = "linked"
      /\ Password(f) = "live" /\ Password(f)' = Password(f)
  BY <1>3, <1>4, <1>8 DEF Phase, Password
<1>10. AccountStep
  BY <1>7, <1>9 DEF AccountStep, AccountMoves
<1>11. /\ \A q \in Requests : q # p => req'[q] = req[q]
       /\ req'[p].at = "consumeToken"
  BY <1>1, <1>2, GotoFacts DEF PutConnection, Steps, PollSteps
<1>12. FreshInv'
  BY <1>3, <1>11, FreshStays
<1> QED
  BY <1>10, <1>12

(* A revocation that reaches Nextcloud; no other call is about to store    *)
(* the password that it revokes.                                           *)
LEMMA RevokeStep ==
    ASSUME IInv, FreshInv, NEW p \in Requests, RevokeNew(p) \/ RevokeOld(p)
    PROVE  AccountStep /\ FreshInv'
<1>1. TypeOK /\ HoldInv /\ LinkInv /\ CallInv
  BY Parts
<1>2. PICK f \in Flows : req[p].flow = f /\ req[p].at \in {"revokeNew", "revokeOld"}
  BY InFlight DEF RevokeNew, RevokeOld
<1>3. /\ Minted(f)
      /\ \A q \in Requests : q # p => ~Holding(q, f)
  BY <1>1, <1>2 DEF HoldInv, CallInv, LinkInv, Holding, DisconnectSteps
<1>4. /\ remote'[f] \in {remote[f], "revoked"}
      /\ \A g \in Flows : g # f => remote'[g] = remote[g]
      /\ UNCHANGED <<conns, secrets>>
  BY <1>1, <1>2 DEF RevokeNew, RevokeOld, TryRevoke, TypeOK, tables
<1>5. \A g \in Flows : ("connected" \in history'[g]) = ("connected" \in history[g])
  BY <1>1, <1>2 DEF RevokeNew, RevokeOld, TryRevoke, Note, TypeOK
<1>6. \A g \in Flows : Linked(g)' = Linked(g)
  BY <1>4 DEF Linked, AppPassword
<1>7. \A g \in Flows : g # f => Phase(g)' = Phase(g) /\ Password(g)' = Password(g)
  BY <1>4, <1>5, <1>6, SameView
<1>8. AccountStep
  <2>1. CASE remote'[f] = remote[f]
    BY <1>5, <1>6, <1>7, <2>1, SameView DEF AccountStep, AccountsStay
  <2>2. CASE remote'[f] = "revoked" /\ remote[f] # "revoked"
    <3>1. /\ Password(f) = "live" /\ Password(f)' = "revoked"
          /\ Phase(f)' = Phase(f)
      BY <1>3, <1>5, <1>6, <2>2 DEF Minted, Phase, Password
    <3> QED
      BY <1>7, <3>1 DEF AccountStep, AccountMoves
  <2> QED
    BY <1>4, <2>1, <2>2
<1>9. /\ \A q \in Requests : q # p => req'[q] = req[q]
      /\ req'[p].at \in {"consumeToken", "deleteSecret"}
  BY <1>1, <1>2, GotoFacts DEF RevokeNew, RevokeOld, Steps, PollSteps, DisconnectSteps
<1>10. FreshInv'
  <2> SUFFICES ASSUME NEW q \in Requests, req'[q].at \in {"putAppPassword", "putConnection"}
               PROVE  remote'[req'[q].flow] = "live"
    BY DEF FreshInv
  <2>1. q # p /\ req'[q] = req[q] /\ remote[req[q].flow] = "live"
    BY <1>9 DEF FreshInv
  <2>2. req[q].flow \in Flows /\ req[q].flow # f
    BY <1>3, <2>1, InFlight DEF Holding
  <2> QED
    BY <1>4, <2>1, <2>2
<1> QED
  BY <1>8, <1>10

(* The account is closed with the deletion of its password. *)
LEMMA DeleteSecretStep ==
    ASSUME IInv, FreshInv, NEW p \in Requests, DeleteSecret(p)
    PROVE  AccountStep /\ FreshInv'
<1>1. TypeOK /\ TenantIsolation /\ CallInv
  BY Parts
<1>2. PICK f \in Flows : /\ req[p].flow = f /\ req[p].at = "deleteSecret"
                         /\ req[p].tenant = owner[f]
  BY InFlight DEF DeleteSecret
<1>3. UNCHANGED <<conns, remote>>
  BY DEF DeleteSecret, external
<1>4. "connected" \in history[f]
  BY <1>1, <1>2 DEF CallInv, DisconnectSteps
<1>5. secrets[AppPassword(f)] \in {NoTenant, owner[f]}
  BY <1>1 DEF TenantIsolation
<1>6. /\ secrets'[AppPassword(f)] = NoTenant
      /\ \A g \in Flows : g # f => secrets'[AppPassword(g)] = secrets[AppPassword(g)]
  BY <1>1, <1>2, <1>5, AppRef DEF DeleteSecret, Without, Owned, TypeOK
<1>7. \A g \in Flows : ("connected" \in history'[g]) = ("connected" \in history[g])
  BY <1>1, <1>2 DEF DeleteSecret, Note, TypeOK
<1>8. /\ \A g \in Flows : g # f => Linked(g)' = Linked(g)
      /\ ~Linked(f)'
  BY <1>3, <1>6 DEF Linked, AppPassword
<1>9. \A g \in Flows : g # f => Phase(g)' = Phase(g) /\ Password(g)' = Password(g)
  BY <1>3, <1>7, <1>8, SameView
<1>10. /\ Phase(f)' = "closed" /\ Phase(f) \in {"linked", "closed"}
       /\ Password(f)' = Password(f)
  BY <1>3, <1>4, <1>7, <1>8 DEF Phase, Password
<1>11. AccountStep
  BY <1>9, <1>10 DEF AccountStep, AccountMoves, AccountsStay
<1>12. /\ \A q \in Requests : q # p => req'[q] = req[q]
       /\ req'[p].at = "deleteRow"
  BY <1>1, <1>2, GotoFacts DEF DeleteSecret, Steps, DisconnectSteps
<1>13. FreshInv'
  BY <1>3, <1>12, FreshStays
<1> QED
  BY <1>11, <1>13

-----------------------------------------------------------------------------
(* Crashes, maintenance, Nextcloud and the clock                           *)

(* A crash and an idle maintenance step leave the accounts alone. *)
LEMMA CrashStep ==
    ASSUME IInv, FreshInv, Crash
    PROVE  AccountStep /\ FreshInv'
<1>1. TypeOK
  BY Parts
<1>2. UNCHANGED <<conns, secrets, remote>>
  BY DEF Crash, tables, external
<1>3. \A g \in Flows : ("connected" \in history'[g]) = ("connected" \in history[g])
  BY <1>1 DEF Crash, TypeOK
<1>4. AccountStep
  BY <1>2, <1>3, Stutter
<1>5. FreshInv'
  BY IdleHoldsNothing DEF Crash, FreshInv
<1> QED
  BY <1>4, <1>5

(* Selecting what to delete, giving up, and time change no account. *)
LEMMA IdleSteps ==
    ASSUME FreshInv,
           \/ SweepExpired \/ SweepOrphans \/ SweepAbort
           \/ \E f \in Flows : Expire(f)
           \/ \E r \in Refs : Age(r)
    PROVE  AccountStep /\ FreshInv'
<1>1. UNCHANGED <<conns, secrets, remote, history, req>>
  BY DEF SweepExpired, SelectExpired, SweepOrphans, SelectOrphans, SweepAbort, Expire, Age,
         tables, external
<1> QED
  BY <1>1, Stutter DEF FreshInv

(* Maintenance deletes no password of a connection that is linked. *)
LEMMA SweepCommitStep ==
    ASSUME IInv, FreshInv, SweepCommit
    PROVE  AccountStep /\ FreshInv'
<1>1. TypeOK /\ LinkInv /\ SweepInv
  BY Parts
<1>2. UNCHANGED <<conns, remote, history, req>>
  BY DEF SweepCommit, CommitSweep, external
<1>3. \A g \in Flows : secrets'[AppPassword(g)] =
         IF AppPassword(g) \in sweep.refs THEN NoTenant ELSE secrets[AppPassword(g)]
  <2>1. sweep.flows \subseteq Flows
    BY <1>1 DEF TypeOK, Sweeps, NoSweep
  <2>2. \A g \in Flows : AppPassword(g) \notin {PollToken(f) : f \in sweep.flows}
    BY <2>1, AppRef
  <2> QED
    BY <2>2, AppRef DEF SweepCommit, CommitSweep
<1>4. ASSUME NEW g \in Flows, AppPassword(g) \in sweep.refs PROVE ~Linked(g)
  BY <1>1, <1>4 DEF SweepInv, LinkInv, Linked
<1>5. \A g \in Flows : Linked(g)' = Linked(g)
  BY <1>2, <1>3, <1>4 DEF Linked, AppPassword
<1>6. AccountStep
  BY <1>2, <1>5, SameView DEF AccountStep, AccountsStay
<1>7. FreshInv'
  BY <1>2 DEF FreshInv
<1> QED
  BY <1>6, <1>7

(* An approved login is not yet a password. *)
LEMMA GrantStep ==
    ASSUME IInv, FreshInv, NEW f \in Flows, Grant(f)
    PROVE  AccountStep /\ FreshInv'
<1>1. TypeOK
  BY Parts
<1>2. /\ remote[f] = "waiting" /\ remote'[f] = "granted"
      /\ \A g \in Flows : g # f => remote'[g] = remote[g]
      /\ UNCHANGED <<conns, secrets, history, req>>
  BY <1>1 DEF Grant, TypeOK, tables
<1>3. \A g \in Flows : Linked(g)' = Linked(g)
  BY <1>2 DEF Linked, AppPassword
<1>4. \A g \in Flows : g # f => Phase(g)' = Phase(g) /\ Password(g)' = Password(g)
  BY <1>2, <1>3, SameView
<1>5. Phase(f)' = Phase(f) /\ Password(f)' = Password(f)
  BY <1>2, <1>3 DEF Phase, Password
<1>6. AccountStep
  BY <1>4, <1>5 DEF AccountStep, AccountsStay
<1>7. FreshInv'
  <2> SUFFICES ASSUME NEW q \in Requests, req[q].at \in {"putAppPassword", "putConnection"}
               PROVE  remote'[req[q].flow] = "live"
    BY <1>2 DEF FreshInv
  <2>1. remote[req[q].flow] = "live" /\ req[q].flow \in Flows
    BY InFlight DEF FreshInv
  <2> QED
    BY <1>2, <2>1
<1> QED
  BY <1>6, <1>7

-----------------------------------------------------------------------------
(* Every step of the service is a step of one account or a stutter, and    *)
(* keeps FreshInv.                                                         *)
LEMMA NextMoves ==
    IInv /\ FreshInv /\ [Next]_vars => AccountStep /\ FreshInv'
<1> SUFFICES ASSUME IInv, FreshInv, [Next]_vars PROVE AccountStep /\ FreshInv'
  OBVIOUS
<1>1. CASE UNCHANGED vars
  BY <1>1, Stutter DEF vars, FreshInv
<1>2. ASSUME NEW p \in Requests, Continue(p) PROVE AccountStep /\ FreshInv'
  <2>1. CASE BeginStep(p)
    BY <2>1, PendingSteps DEF BeginStep
  <2>2. CASE PollStep(p)
    BY <2>2, PendingSteps, ReadingSteps, AnswerStep, PutAppPasswordStep, PutConnectionStep,
       DropAppPasswordStep, RevokeStep DEF PollStep, Answer
  <2>3. CASE WriteRoot(p) \/ UseStep(p) \/ Fault(p)
    BY <2>3, WriteRootStep, ReadingSteps, FaultStep
  <2>4. CASE DisconnectStep(p)
    BY <2>4, ReadingSteps, RevokeStep, DeleteSecretStep, DeleteRowStep DEF DisconnectStep
  <2> QED
    BY <1>2, <2>1, <2>2, <2>3, <2>4 DEF Continue
<1>3. ASSUME NEW p \in Requests, NEW t \in Tenants, NEW f \in Flows, Call(p, t, f)
      PROVE  AccountStep /\ FreshInv'
  BY <1>3, BeginStepMoves, ReadingSteps DEF Call
<1>4. CASE Crash
  BY <1>4, CrashStep
<1>5. CASE Sweep \/ SweepAbort
  BY <1>5, IdleSteps, SweepCommitStep DEF Sweep
<1>6. ASSUME NEW f \in Flows, Grant(f) \/ Expire(f) PROVE AccountStep /\ FreshInv'
  BY <1>6, GrantStep, IdleSteps
<1>7. ASSUME NEW r \in Refs, Age(r) PROVE AccountStep /\ FreshInv'
  BY <1>7, IdleSteps
<1> QED
  BY <1>1, <1>2, <1>3, <1>4, <1>5, <1>6, <1>7 DEF Next

(* A step of one account is a step of LinkedAccount. *)
LEMMA StepMaps ==
    AccountStep => [Account!Next]_<<[f \in Flows |-> Phase(f)], [f \in Flows |-> Password(f)]>>
<1>1. ASSUME AccountsStay
      PROVE  /\ [f \in Flows |-> Phase(f)]' = [f \in Flows |-> Phase(f)]
             /\ [f \in Flows |-> Password(f)]' = [f \in Flows |-> Password(f)]
  BY <1>1 DEF AccountsStay
<1>2. ASSUME NEW f \in Flows, AccountMoves(f) PROVE Account!Next
  <2>1. \/ Account!Offer(f) \/ Account!Issue(f) \/ Account!Link(f)
        \/ Account!Revoke(f) \/ Account!Close(f)
    BY <1>2 DEF AccountMoves, Account!Offer, Account!Issue, Account!Link, Account!Revoke,
                Account!Close
  <2> QED
    BY <2>1 DEF Account!Next
<1> QED
  BY <1>1, <1>2 DEF AccountStep

(* Initially every account is new. *)
LEMMA InitMaps == Init => Account!Init /\ FreshInv
<1> SUFFICES ASSUME Init PROVE Account!Init /\ FreshInv
  OBVIOUS
<1>1. \A f \in Flows : Phase(f) = "new" /\ Password(f) = "none"
  BY DEF Init, Phase, Password, Linked
<1>2. FreshInv
  BY IdleHoldsNothing DEF Init, FreshInv
<1> QED
  BY <1>1, <1>2 DEF Account!Init

(* The service implements the life cycle of LinkedAccount: one usable      *)
(* connection per flow, made with a live password, closed for good         *)
(* (connections/service.py:60-209, maintenance.py:33-82).                  *)
THEOREM ImplementsAccount ==
    Spec => AccountSpec
<1>1. Init => Account!Init /\ FreshInv
  BY InitMaps
<1>2. IInv /\ FreshInv /\ [Next]_vars =>
        /\ [Account!Next]_<<[f \in Flows |-> Phase(f)], [f \in Flows |-> Password(f)]>>
        /\ FreshInv'
  BY NextMoves, StepMaps
<1> QED
  BY <1>1, <1>2, InvariantHolds, PTL DEF Spec, AccountSpec, Account!Spec, Account!vars
=============================================================================
