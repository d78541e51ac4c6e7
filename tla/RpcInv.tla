------------------------------ MODULE RpcInv -------------------------------
(***************************************************************************)
(* The inductive invariant of the RPC channel, for any number of processes, *)
(* threads and calls, with or without the faults; the facts about streams  *)
(* its proof rests on; and the proof, step by step.                        *)
(*                                                                         *)
(* JobFound is not inductive.  Why a canary cannot overtake its RPC is in  *)
(* InCall: the job is in the map from the moment the ACK can be read, and  *)
(* a thread writes the canary after it has read the ACK.  Why the job is   *)
(* still there when the canary is read is in Canaries and Unique: only     *)
(* reading that canary removes it, and it is written once.                 *)
(***************************************************************************)
EXTENDS Rpc, TLAPS

\* Thread t is inside rpc_send_command and call c is the one it is making.
Before(t, c) == pc[t] \in {"token", "ack", "canary"} /\ cur[t] = c

\* A socket that has not been connected yet has no past.
Fresh ==
  \A s \in Socks : s > nsock => /\ up[s] = <<>>
                                /\ down[s] = <<>>
                                /\ result[s] = "none"

\* What thread t has done so far in the call it is making.
CallOf(t) ==
  /\ pc[t] # "idle" => /\ (want[t].cmd = "SOCKET") <=> (want[t].fd = 0)
                       /\ want[t].fd # 0 => result[want[t].fd] = "ok"
  /\ pc[t] \in {"token", "ack", "canary", "retval", "addr"} =>
       /\ cur[t] \in 1 .. nsock
       /\ owner[cur[t]] = t
       /\ call[cur[t]] = want[t]
       /\ result[cur[t]] = "none"
  /\ pc[t] = "token" => up[cur[t]] = <<>> /\ down[cur[t]] = <<>>
  /\ pc[t] = "ack" =>
       \/ /\ up[cur[t]] = <<[k |-> "rpc", n |-> cur[t]]>>
          /\ down[cur[t]] = <<>>
       \/ want[t].cmd # "SOCKET" => jobmap[cur[t]] = cur[t]
  /\ pc[t] = "canary" => jobmap[cur[t]] = cur[t]
  /\ pc[t] \in {"canary", "retval", "addr"} => want[t].cmd # "SOCKET"
InCall == \A t \in Threads : CallOf(t)

\* An RPC is alone on its own socket, and its caller waits for the ACK.
RpcItems ==
  \A s \in Socks : \A i \in 1 .. Len(up[s]) :
    up[s][i].k = "rpc" => /\ up[s] = <<[k |-> "rpc", n |-> s]>>
                          /\ down[s] = <<>>
                          /\ owner[s] \in Threads
                          /\ pc[owner[s]] = "ack"
                          /\ cur[owner[s]] = s

\* Call c has its job in the map, and its caller is past writing the canary.
Registered(c) ==
  /\ jobmap[c] = c
  /\ c <= nsock
  /\ call[c].cmd # "SOCKET"
  /\ \A t \in Threads : ~Before(t, c)

\* Every canary in a stream belongs to such a call.
Canaries ==
  \A s \in Socks : \A i \in 1 .. Len(up[s]) :
    up[s][i].k = "canary" => Registered(up[s][i].n)

\* A canary is in one place only.
Unique ==
  \A s, r \in Socks : \A i \in 1 .. Len(up[s]), j \in 1 .. Len(up[r]) :
    /\ up[s][i].k = "canary"
    /\ up[r][j] = up[s][i]
    => s = r /\ i = j

\* A Connection belongs to a socket made by RPC_SOCKET.
Conns == \A s \in conns : /\ s <= nsock
                          /\ call[s].cmd = "SOCKET"
                          /\ down[s] \in {<<>>, <<"z">>}

\* select() reports the listening socket only if a connection waits there.
Pending == 0 \in ready => nacc < nsock

IInv == /\ TypeOK /\ Fresh /\ InCall /\ RpcItems
        /\ Canaries /\ Unique /\ Conns /\ Pending

----------------------------------------------------------------------------
(***************************************************************************)
(* The initial states.                                                     *)
(***************************************************************************)

\* Nothing has happened yet.
LEMMA InitInv == Init => IInv
  <1> SUFFICES ASSUME Init
               PROVE  IInv
    BY Zenon
  <1> USE ConstantsAssumption
  <1>1. TypeOK
    <2>1. NoCall \in Call
      BY DEF NoCall, Call, AllCmds
    <2>2. /\ lock \in [Procs -> Threads \cup {None}]
          /\ pc \in [Threads -> {"idle", "lock", "join", "token", "ack", "canary", "retval", "addr"}]
          /\ want \in [Threads -> Call]
          /\ cur \in [Threads -> 0 .. MaxSocks]
      BY <2>1 DEF Init
    <2>3. /\ call \in [Socks -> Call]
          /\ owner \in [Socks -> Threads \cup {None}]
          /\ result \in [Socks -> Reply \cup {"none"}]
          /\ sent \in [Socks -> 0 .. MaxData]
          /\ nsock \in 0 .. MaxSocks
      BY <2>1 DEF Init
    <2>4. /\ up \in [Socks -> Seq(Item)]
          /\ down \in [Socks -> Seq(Reply)]
          /\ tx \in [Socks -> Seq(0 .. MaxData)]
      BY DEF Init
    <2>5. copen \in [Socks -> BOOLEAN] /\ tap \in {"off", "up", "bare", "dead"}
      BY Zenon DEF Init
    <2>6. /\ nacc \in 0 .. MaxSocks /\ tmpbuf \in 0 .. MaxSocks
          /\ jobmap \in [Socks -> 0 .. MaxSocks]
          /\ done \in [Socks -> AllCmds \cup {"none"}]
          /\ phys \subseteq Socks /\ conns \subseteq Socks
          /\ ready \subseteq 0 .. MaxSocks
      BY DEF Init
    <2>7. pico \in [Socks -> [st : {"none", "open", "bound", "listen", "syn"},
                              ports : SUBSET (Ports \cup {NoPort})]]
      BY Zenon DEF Init
    <2> QED
      BY <2>2, <2>3, <2>4, <2>5, <2>6, <2>7, Zenon DEF TypeOK
  <1>2. Fresh /\ InCall /\ Conns /\ Pending
    BY Zenon DEF Init, Fresh, InCall, CallOf, Conns, Pending
  <1>3. \A s \in Socks : Len(up[s]) = 0
    BY Zenon DEF Init
  <1>4. RpcItems /\ Canaries /\ Unique
    BY <1>3 DEF RpcItems, Canaries, Unique
  <1> QED
    BY <1>1, <1>2, <1>4, Zenon DEF IInv

----------------------------------------------------------------------------
(***************************************************************************)
(* Facts used for several actions.                                         *)
(***************************************************************************)

\* An item of a stream is an RPC or a canary of some call, or data.
LEMMA ItemKinds ==
  ASSUME TypeOK, NEW s \in Socks, NEW i \in 1 .. Len(up[s])
  PROVE  /\ up[s][i] \in Item
         /\ up[s][i].k = "canary" => up[s][i].n \in Socks
         /\ up[s][i].k = "rpc" => up[s][i].n \in Socks
         /\ up[s][i].k \notin {"canary", "rpc"} => up[s][i].n \in 0 .. MaxData
  <1>1. up[s] \in Seq(Item)
    BY Zenon DEF TypeOK
  <1>2. up[s][i] \in Item
    BY <1>1
  <1> QED
    BY <1>2, Zenon DEF Item

\* The ephemeral socket of a call in progress.
LEMMA CurrentCall ==
  ASSUME IInv, NEW t \in Threads,
         pc[t] \in {"token", "ack", "canary", "retval", "addr"}
  PROVE  \E c \in Socks : /\ cur[t] = c
                          /\ c \in 1 .. nsock
                          /\ owner[c] = t
                          /\ call[c] = want[t]
                          /\ result[c] = "none"
  <1>1. CallOf(t)
    BY Zenon DEF IInv, InCall
  <1>2. nsock \in Nat /\ MaxSocks \in Nat /\ nsock <= MaxSocks
    BY ConstantsAssumption DEF IInv, TypeOK
  <1> QED
    BY <1>1, <1>2 DEF CallOf, Socks

\* A step that leaves the streams alone and takes no call back.
LEMMA CanariesKept ==
  ASSUME TypeOK, Canaries, up' = up,
         \A c \in Socks : Registered(c) => Registered(c)'
  PROVE  Canaries'
  <1> SUFFICES ASSUME NEW s \in Socks, NEW i \in 1 .. Len(up[s]),
                      up[s][i].k = "canary"
               PROVE  Registered(up[s][i].n)'
    BY Zenon DEF Canaries
  <1>1. PICK c \in Socks : c = up[s][i].n
    BY ItemKinds, Zenon
  <1>2. Registered(c)
    BY <1>1, Zenon DEF Canaries
  <1>3. Registered(c)'
    BY <1>2, Zenon
  <1>4. up'[s][i].n = c
    BY <1>1, Zenon
  <1> QED
    BY <1>3, <1>4, Zenon

\* A socket the application knows carries no RPC and is nobody's rpc_sock.
LEMMA KnownSocket ==
  ASSUME IInv, NEW s \in Socks, result[s] = "ok"
  PROVE  /\ s <= nsock
         /\ \A i \in 1 .. Len(up[s]) : up[s][i].k # "rpc"
         /\ \A t \in Threads :
              pc[t] \in {"token", "ack", "canary", "retval", "addr"} => cur[t] # s
  <1>1. nsock \in Nat /\ s \in Nat
    BY ConstantsAssumption DEF IInv, TypeOK, Socks
  <1>2. s <= nsock
    BY <1>1 DEF IInv, Fresh
  <1>3. \A t \in Threads :
          pc[t] \in {"token", "ack", "canary", "retval", "addr"} => cur[t] # s
    BY CurrentCall, ZenonT(60)
  <1>4. \A i \in 1 .. Len(up[s]) : up[s][i].k # "rpc"
    BY <1>3, Zenon DEF IInv, RpcItems
  <1> QED
    BY <1>2, <1>3, <1>4, Zenon

\* Where the items of the streams are after x has been written to s.
Extended(s, x) ==
  /\ up' \in [Socks -> Seq(Item)]
  /\ up'[s] = Append(up[s], x)
  /\ \A r \in Socks : r # s => up'[r] = up[r]
  /\ \A r \in Socks : \A i \in 1 .. Len(up'[r]) :
       \/ i \in 1 .. Len(up[r]) /\ up'[r][i] = up[r][i]
       \/ r = s /\ i = Len(up[s]) + 1 /\ up'[r][i] = x

\* What Append does to the streams.
LEMMA AppendItem ==
  ASSUME TypeOK, NEW s \in Socks, NEW x \in Item,
         up' = [up EXCEPT ![s] = Append(@, x)]
  PROVE  Extended(s, x)
  <1>1. up \in [Socks -> Seq(Item)]
    BY Zenon DEF TypeOK
  <1>2. up' \in [Socks -> Seq(Item)] /\ up'[s] = Append(up[s], x)
    BY <1>1
  <1>3. \A r \in Socks : r # s => up'[r] = up[r]
    BY <1>1, Zenon
  <1>4. \A i \in 1 .. Len(up'[s]) : \/ i \in 1 .. Len(up[s]) /\ up'[s][i] = up[s][i]
                                    \/ i = Len(up[s]) + 1 /\ up'[s][i] = x
    <2>1. up[s] \in Seq(Item)
      BY <1>1, Zenon
    <2> QED
      BY <2>1, <1>2
  <1> QED
    BY <1>2, <1>3, <1>4, Zenon DEF Extended

\* Writing anything but a canary that is already there keeps them unique.
LEMMA AppendUnique ==
  ASSUME TypeOK, Unique, NEW s \in Socks, NEW x \in Item, Extended(s, x),
         x.k = "canary" => \A r \in Socks : \A j \in 1 .. Len(up[r]) : up[r][j] # x
  PROVE  Unique'
  <1> SUFFICES ASSUME NEW a \in Socks, NEW b \in Socks,
                      NEW i \in 1 .. Len(up'[a]), NEW j \in 1 .. Len(up'[b]),
                      up'[a][i].k = "canary",
                      up'[b][j] = up'[a][i]
               PROVE  a = b /\ i = j
    BY DEF Unique
  <1>1. \/ i \in 1 .. Len(up[a]) /\ up'[a][i] = up[a][i]
        \/ a = s /\ i = Len(up[s]) + 1 /\ up'[a][i] = x
    BY Zenon DEF Extended
  <1>2. \/ j \in 1 .. Len(up[b]) /\ up'[b][j] = up[b][j]
        \/ b = s /\ j = Len(up[s]) + 1 /\ up'[b][j] = x
    BY Zenon DEF Extended
  <1> QED
    BY <1>1, <1>2, SMTT(90) DEF Unique

\* Writing data, or the canary of a registered call, keeps Canaries.
LEMMA AppendCanaries ==
  ASSUME TypeOK, Canaries, NEW s \in Socks, NEW x \in Item, Extended(s, x),
         \A c \in Socks : Registered(c) => Registered(c)',
         x.k = "canary" => \E c \in Socks : x.n = c /\ Registered(c)'
  PROVE  Canaries'
  <1> SUFFICES ASSUME NEW a \in Socks, NEW i \in 1 .. Len(up'[a]),
                      up'[a][i].k = "canary"
               PROVE  \E c \in Socks : up'[a][i].n = c /\ Registered(c)'
    BY Zenon DEF Canaries
  <1>1. CASE i \in 1 .. Len(up[a]) /\ up'[a][i] = up[a][i]
    <2>1. PICK c \in Socks : c = up[a][i].n
      BY <1>1, ItemKinds, Zenon
    <2>2. Registered(c)
      BY <1>1, <2>1, Zenon DEF Canaries
    <2> QED
      BY <1>1, <2>1, <2>2, Zenon
  <1>2. CASE up'[a][i] = x
    BY <1>2, Zenon
  <1> QED
    BY <1>1, <1>2, Zenon DEF Extended

----------------------------------------------------------------------------
(***************************************************************************)
(* The steps of the application.                                           *)
(***************************************************************************)

\* A call is prepared.
LEMMA BeginInv ==
  ASSUME IInv, NEW t \in Threads, Begin(t)
  PROVE  IInv'
  <1> USE ConstantsAssumption
  <1>1. PICK cmd \in Cmds, fd \in Fds(t) \cup {0}, arg \in Ports \cup {NoPort} :
          /\ (cmd = "SOCKET") <=> (fd = 0)
          /\ want' = [want EXCEPT ![t] = [cmd |-> cmd, fd |-> fd, arg |-> arg]]
    BY Zenon DEF Begin
  <1>2. /\ pc[t] = "idle"
        /\ pc' = [pc EXCEPT ![t] = "lock"]
        /\ UNCHANGED <<lock, cur, call, owner, result, sent, copen, nsock, up, down, svcvars>>
    BY Zenon DEF Begin
  <1>3. [cmd |-> cmd, fd |-> fd, arg |-> arg] \in Call
    BY DEF Call, Fds, Socks
  <1>4. fd # 0 => fd \in Socks /\ result[fd] = "ok"
    BY Zenon DEF Fds
  <1>5. TypeOK'
    BY <1>1, <1>2, <1>3, ZenonT(60) DEF IInv, TypeOK, svcvars
  <1>6. InCall'
    BY <1>1, <1>2, <1>4, SMTT(90) DEF IInv, TypeOK, InCall, CallOf, svcvars
  <1>7. (Fresh /\ RpcItems /\ Unique /\ Conns /\ Pending)'
    <2>1. (Fresh /\ Conns /\ Pending)'
      BY <1>2, SMTT(90) DEF IInv, Fresh, Conns, Pending, svcvars
    <2>2. RpcItems'
      BY <1>1, <1>2, SMTT(90) DEF IInv, TypeOK, RpcItems
    <2>3. Unique'
      BY <1>2, SMTT(90) DEF IInv, Unique
    <2> QED
      BY <2>1, <2>2, <2>3, Zenon
  <1>8. Canaries'
    <2>1. ASSUME NEW c \in Socks, Registered(c)
          PROVE  Registered(c)'
      BY <2>1, <1>2, Zenon DEF IInv, TypeOK, Registered, Before, svcvars
    <2> QED
      BY <2>1, <1>2, CanariesKept, Zenon DEF IInv
  <1> QED
    BY <1>5, <1>6, <1>7, <1>8, Zenon DEF IInv

\* The mutex is taken.
LEMMA LockInv ==
  ASSUME IInv, NEW t \in Threads, Lock(t)
  PROVE  IInv'
  <1> USE ConstantsAssumption
  <1>1. TypeOK'
    BY Zenon DEF IInv, TypeOK, Lock, svcvars
  <1>2. InCall'
    BY SMTT(90) DEF IInv, TypeOK, InCall, CallOf, Lock, svcvars
  <1>3. (Fresh /\ RpcItems /\ Unique /\ Conns /\ Pending)'
    <2>1. (Fresh /\ Conns /\ Pending)'
      BY SMTT(90) DEF IInv, Fresh, Conns, Pending, Lock, svcvars
    <2>2. RpcItems'
      BY SMTT(90) DEF IInv, TypeOK, RpcItems, Lock
    <2>3. Unique'
      BY SMTT(90) DEF IInv, Unique, Lock
    <2> QED
      BY <2>1, <2>2, <2>3, Zenon
  <1>4. Canaries'
    <2>1. ASSUME NEW c \in Socks, Registered(c)
          PROVE  Registered(c)'
      BY <2>1, Zenon DEF IInv, TypeOK, Registered, Before, Lock, svcvars
    <2> QED
      BY <2>1, CanariesKept, Zenon DEF IInv, Lock
  <1> QED
    BY <1>1, <1>2, <1>3, <1>4, Zenon DEF IInv

\* A call is given up.
LEMMA TokenFailsInv ==
  ASSUME IInv, NEW t \in Threads, TokenFails(t)
  PROVE  IInv'
  <1> USE ConstantsAssumption
  <1>1. PICK c \in Socks : /\ cur[t] = c /\ c \in 1 .. nsock
                           /\ owner[c] = t /\ result[c] = "none"
    BY CurrentCall, Zenon DEF TokenFails
  <1>2. /\ pc[t] = "token"
        /\ result' = [result EXCEPT ![c] = "err"]
        /\ pc' = [pc EXCEPT ![t] = "idle"]
        /\ UNCHANGED <<lock, want, cur, call, owner, sent, copen, nsock, up, down, svcvars>>
    BY <1>1, Zenon DEF TokenFails
  <1>3. TypeOK'
    BY <1>2, Zenon DEF IInv, TypeOK, Reply, svcvars
  <1>4. ASSUME NEW u \in Threads
        PROVE  CallOf(u)'
    <2>1. CallOf(u)
      BY Zenon DEF IInv, InCall
    <2>2. CASE u = t
      BY <2>2, <1>2, Zenon DEF IInv, TypeOK, CallOf
    <2>3. CASE u # t
      BY <2>1, <2>3, <1>1, <1>2, SMTT(90) DEF IInv, TypeOK, CallOf, svcvars
    <2> QED
      BY <2>2, <2>3, Zenon
  <1>5. (Fresh /\ Unique /\ Conns /\ Pending)'
    BY <1>1, <1>2 DEF IInv, TypeOK, Fresh, Unique, Conns, Pending, svcvars
  <1>6. RpcItems'
    BY <1>1, <1>2, ZenonT(60) DEF IInv, TypeOK, RpcItems, svcvars
  <1>7. Canaries'
    <2>1. ASSUME NEW d \in Socks, Registered(d)
          PROVE  Registered(d)'
      BY <2>1, <1>2, Zenon DEF IInv, TypeOK, Registered, Before, svcvars
    <2> QED
      BY <2>1, <1>2, CanariesKept, Zenon DEF IInv
  <1> QED
    BY <1>3, <1>4, <1>5, <1>6, <1>7, Zenon DEF IInv, InCall

\* The ephemeral socket is connected: it is new, and so is its number.
LEMMA JoinInv ==
  ASSUME IInv, NEW t \in Threads, Join(t)
  PROVE  IInv'
  <1> USE ConstantsAssumption
  <1>0. nsock \in Nat /\ nsock + 1 \in Socks
    BY DEF IInv, TypeOK, Join, Socks
  <1>1. PICK n \in Socks : n = nsock + 1
    BY <1>0, Zenon
  <1>2. /\ pc[t] = "join"
        /\ nsock' = n
        /\ cur' = [cur EXCEPT ![t] = n]
        /\ call' = [call EXCEPT ![n] = want[t]]
        /\ owner' = [owner EXCEPT ![n] = t]
        /\ copen' = [copen EXCEPT ![n] = TRUE]
        /\ pc' = [pc EXCEPT ![t] = "token"]
        /\ UNCHANGED <<lock, want, result, sent, up, down, svcvars>>
    BY <1>1, Zenon DEF Join
  <1>3. up[n] = <<>> /\ down[n] = <<>> /\ result[n] = "none"
    BY <1>0, <1>1 DEF IInv, Fresh
  <1>4. TypeOK'
    <2>1. copen' \in [Socks -> BOOLEAN]
      BY <1>2, Zenon DEF IInv, TypeOK
    <2>2. cur' \in [Threads -> 0 .. MaxSocks] /\ nsock' \in 0 .. MaxSocks
      BY <1>2 DEF IInv, TypeOK, Socks
    <2>3. call' \in [Socks -> Call] /\ owner' \in [Socks -> Threads \cup {None}]
      BY <1>2, ZenonT(60) DEF IInv, TypeOK
    <2> QED
      BY <2>1, <2>2, <2>3, <1>2, Zenon DEF IInv, TypeOK, svcvars
  <1>5. ASSUME NEW u \in Threads
        PROVE  CallOf(u)'
    <2>1. CallOf(u)
      BY Zenon DEF IInv, InCall
    <2>2. CASE u = t
      BY <2>1, <2>2, <1>0, <1>1, <1>2, <1>3 DEF IInv, TypeOK, CallOf
    <2>3. CASE u # t
      <3>1. \A c \in 1 .. nsock : c # n /\ c \in 1 .. nsock' /\ c \in Socks
        BY <1>0, <1>1, <1>2 DEF Socks
      <3> QED
        BY <2>1, <2>3, <3>1, <1>2, ZenonT(60) DEF IInv, TypeOK, CallOf, svcvars
    <2> QED
      BY <2>2, <2>3, Zenon
  <1>6. Fresh' /\ Pending'
    <2>1. \A s \in Socks : s > nsock' => s > nsock
      BY <1>0, <1>1, <1>2 DEF Socks
    <2>2. nacc \in Nat /\ nacc < nsock => nacc < nsock'
      BY <1>0, <1>1, <1>2
    <2>3. Fresh'
      BY <2>1, <1>2, Zenon DEF IInv, Fresh
    <2>4. Pending'
      BY <2>2, <1>2, SMTT(90) DEF IInv, TypeOK, Pending, svcvars
    <2> QED
      BY <2>3, <2>4, Zenon
  <1>7. RpcItems'
    <2>1. ASSUME NEW s \in Socks, NEW i \in 1 .. Len(up[s]), up[s][i].k = "rpc"
          PROVE  s # n /\ owner[s] # t
      <3>1. up[s] = <<[k |-> "rpc", n |-> s]>> /\ pc[owner[s]] = "ack"
        BY <2>1, Zenon DEF IInv, RpcItems
      <3>2. up[s] # <<>>
        BY <3>1
      <3> QED
        BY <3>1, <3>2, <1>2, <1>3, Zenon
    <2> QED
      BY <2>1, <1>2, SMTT(90) DEF IInv, TypeOK, RpcItems, svcvars
  <1>8. Conns'
    BY <1>0, <1>1, <1>2 DEF IInv, TypeOK, Conns, svcvars, Socks
  <1>9. Canaries'
    <2>1. ASSUME NEW c \in Socks, Registered(c)
          PROVE  Registered(c)'
      <3>1. c # n /\ c <= nsock'
        BY <2>1, <1>0, <1>1, <1>2 DEF Registered, Socks
      <3> QED
        BY <2>1, <3>1, <1>2, Zenon DEF IInv, TypeOK, Registered, Before, svcvars
    <2> QED
      BY <2>1, <1>2, CanariesKept, Zenon DEF IInv
  <1>10. Unique'
    <2>1. UNCHANGED up
      BY <1>2, Zenon
    <2> QED
      BY <2>1 DEF IInv, Unique
  <1> QED
    BY <1>4, <1>5, <1>6, <1>7, <1>8, <1>9, <1>10, Zenon DEF IInv, InCall

\* Data is written to a socket the application knows.
LEMMA WriteDataInv ==
  ASSUME IInv, NEW t \in Threads, WriteData(t)
  PROVE  IInv'
  <1> USE ConstantsAssumption
  <1>1. PICK s \in Fds(t), k \in {"data", "pad"} :
          /\ sent[s] < MaxData
          /\ sent' = [sent EXCEPT ![s] = @ + 1]
          /\ up' = [up EXCEPT ![s] = Append(@, [k |-> k, n |-> sent[s] + 1])]
    BY Zenon DEF WriteData
  <1>2. UNCHANGED <<lock, pc, want, cur, call, owner, result, copen, nsock, down, svcvars>>
    BY Zenon DEF WriteData
  <1>3. s \in Socks /\ result[s] = "ok"
    BY Zenon DEF Fds
  <1>4. PICK x \in Item : x = [k |-> k, n |-> sent[s] + 1]
    <2>1. sent[s] + 1 \in 0 .. MaxData
      BY <1>1, <1>3, SMTT(90) DEF IInv, TypeOK
    <2> QED
      BY <2>1, ZenonT(60) DEF Item
  <1>5. up' = [up EXCEPT ![s] = Append(@, x)] /\ x.k # "canary" /\ x.k # "rpc"
    BY <1>1, <1>4, Zenon
  <1>6. Extended(s, x)
    BY <1>3, <1>5, AppendItem, Zenon DEF IInv
  <1>7. TypeOK'
    <2>1. sent' \in [Socks -> 0 .. MaxData]
      BY <1>1, <1>3, SMTT(90) DEF IInv, TypeOK
    <2> QED
      BY <2>1, <1>2, <1>6, Zenon DEF Extended, IInv, TypeOK, svcvars
  <1>8. ASSUME NEW u \in Threads
        PROVE  CallOf(u)'
    <2>1. CallOf(u)
      BY Zenon DEF IInv, InCall
    <2>2. pc[u] \in {"token", "ack", "canary", "retval", "addr"} =>
            cur[u] # s /\ cur[u] \in Socks
      BY <1>3, KnownSocket, CurrentCall
    <2> QED
      BY <2>1, <2>2, <1>2, <1>6, Zenon DEF Extended, CallOf, svcvars
  <1>9. Fresh'
    BY <1>2, <1>3, <1>6, KnownSocket, Zenon DEF Extended, IInv, TypeOK, Fresh, Socks
  <1>10. RpcItems'
    <2> SUFFICES ASSUME NEW r \in Socks, NEW i \in 1 .. Len(up'[r]), up'[r][i].k = "rpc"
                 PROVE  /\ up'[r] = <<[k |-> "rpc", n |-> r]>>
                        /\ down[r] = <<>>
                        /\ owner[r] \in Threads
                        /\ pc[owner[r]] = "ack"
                        /\ cur[owner[r]] = r
      BY <1>2, Zenon DEF RpcItems
    <2>1. i \in 1 .. Len(up[r]) /\ up'[r][i] = up[r][i]
      <3>1. up'[r][i] # x
        BY <1>5, Zenon
      <3> QED
        BY <3>1, <1>6, Zenon DEF Extended
    <2>2. r # s
      BY <2>1, <1>3, KnownSocket, Zenon
    <2> QED
      BY <2>1, <2>2, <1>6, Zenon DEF Extended, IInv, RpcItems
  <1>11. \A c \in Socks : Registered(c) => Registered(c)'
    BY <1>2, Zenon DEF Registered, Before, svcvars
  <1>12. Canaries'
    BY <1>3, <1>5, <1>6, <1>11, AppendCanaries, Zenon DEF IInv
  <1>13. Unique'
    BY <1>3, <1>5, <1>6, AppendUnique, Zenon DEF IInv
  <1>14. Conns' /\ Pending'
    BY <1>2, Zenon DEF IInv, Conns, Pending, svcvars
  <1> QED
    BY <1>7, <1>8, <1>9, <1>10, <1>12, <1>13, <1>14, Zenon DEF IInv, InCall

\* The RPC is written: it is alone on a socket nobody else has.
LEMMA SendRpcInv ==
  ASSUME IInv, NEW t \in Threads, SendRpc(t)
  PROVE  IInv'
  <1> USE ConstantsAssumption
  <1>1. PICK c \in Socks : /\ cur[t] = c /\ c \in 1 .. nsock
                           /\ owner[c] = t /\ result[c] = "none" /\ call[c] = want[t]
    BY CurrentCall, Zenon DEF SendRpc
  <1>2. /\ pc[t] = "token"
        /\ pc' = [pc EXCEPT ![t] = "ack"]
        /\ UNCHANGED <<lock, want, cur, call, owner, result, sent, copen, nsock, down, svcvars>>
    BY Zenon DEF SendRpc
  <1>3. PICK x \in Item : x = [k |-> "rpc", n |-> c]
    BY Zenon DEF Item
  <1>4. up' = [up EXCEPT ![c] = Append(@, x)] /\ x.k = "rpc"
    BY <1>1, <1>3, Zenon DEF SendRpc
  <1>5. Extended(c, x)
    BY <1>4, AppendItem, Zenon DEF IInv
  <1>6. up[c] = <<>> /\ down[c] = <<>> /\ up'[c] = <<[k |-> "rpc", n |-> c]>>
    <2>1. up[c] = <<>> /\ down[c] = <<>>
      BY <1>1, <1>2, Zenon DEF IInv, InCall, CallOf
    <2> QED
      BY <2>1, <1>3, <1>5 DEF Extended
  <1>7. TypeOK'
    BY <1>2, <1>5, Zenon DEF Extended, IInv, TypeOK, svcvars
  <1>8. ASSUME NEW u \in Threads
        PROVE  CallOf(u)'
    <2>1. CallOf(u)
      BY Zenon DEF IInv, InCall
    <2>2. CASE u = t
      BY <2>1, <2>2, <1>1, <1>2, <1>6, Zenon DEF IInv, TypeOK, CallOf
    <2>3. CASE u # t
      <3>1. pc[u] \in {"token", "ack", "canary", "retval", "addr"} =>
              cur[u] # c /\ cur[u] \in Socks
        BY <2>3, <1>1, CurrentCall
      <3> QED
        BY <2>1, <2>3, <3>1, <1>2, <1>5, ZenonT(60) DEF Extended, IInv, TypeOK, CallOf, svcvars
    <2> QED
      BY <2>2, <2>3, Zenon
  <1>9. Fresh'
    <2>1. \A s \in Socks : s > nsock => s # c
      BY <1>1 DEF IInv, TypeOK, Socks
    <2> QED
      BY <2>1, <1>2, <1>5, Zenon DEF Extended, IInv, Fresh
  <1>10. RpcItems'
    <2> SUFFICES ASSUME NEW r \in Socks, NEW i \in 1 .. Len(up'[r]), up'[r][i].k = "rpc"
                 PROVE  /\ up'[r] = <<[k |-> "rpc", n |-> r]>>
                        /\ down[r] = <<>>
                        /\ owner[r] \in Threads
                        /\ pc'[owner[r]] = "ack"
                        /\ cur[owner[r]] = r
      BY <1>2, ZenonT(60) DEF RpcItems
    <2>1. CASE r = c
      BY <2>1, <1>1, <1>2, <1>6, Zenon DEF IInv, TypeOK
    <2>2. CASE r # c
      <3>1. up'[r] = up[r]
        BY <2>2, <1>5, Zenon DEF Extended
      <3> QED
        BY <3>1, <1>2, Zenon DEF IInv, TypeOK, RpcItems
    <2> QED
      BY <2>1, <2>2, Zenon
  <1>11. \A d \in Socks : Registered(d) => Registered(d)'
    BY <1>2, Zenon DEF IInv, TypeOK, Registered, Before, svcvars
  <1>12. Canaries'
    BY <1>4, <1>5, <1>11, AppendCanaries, Zenon DEF IInv
  <1>13. Unique'
    BY <1>4, <1>5, AppendUnique, Zenon DEF IInv
  <1>14. Conns' /\ Pending'
    BY <1>2, Zenon DEF IInv, Conns, Pending, svcvars
  <1> QED
    BY <1>7, <1>8, <1>9, <1>10, <1>12, <1>13, <1>14, Zenon DEF IInv, InCall

\* The canary is written: its job is in the map, and no copy of it is about.
LEMMA SendCanaryInv ==
  ASSUME IInv, NEW t \in Threads, SendCanary(t)
  PROVE  IInv'
  <1> USE ConstantsAssumption
  <1>1. PICK c \in Socks : /\ cur[t] = c /\ c \in 1 .. nsock
                           /\ owner[c] = t /\ result[c] = "none" /\ call[c] = want[t]
    BY CurrentCall, Zenon DEF SendCanary
  <1>2. /\ pc[t] = "canary"
        /\ \E p \in {"addr", "retval"} : pc' = [pc EXCEPT ![t] = p]
        /\ lock' \in {lock, [lock EXCEPT ![ProcOf[t]] = None]}
        /\ UNCHANGED <<want, cur, call, owner, result, sent, copen, nsock, down, svcvars>>
    BY Zenon DEF SendCanary
  <1>3. want[t].cmd # "SOCKET" /\ jobmap[c] = c
    BY <1>1, <1>2, Zenon DEF IInv, InCall, CallOf
  <1>4. PICK s \in Socks : s = want[t].fd /\ result[s] = "ok"
    <2>1. want[t] \in Call
      BY Zenon DEF IInv, TypeOK
    <2>2. want[t].fd \in 0 .. MaxSocks
      BY <2>1, Zenon DEF Call
    <2>3. want[t].fd # 0 /\ result[want[t].fd] = "ok"
      BY <1>2, <1>3, Zenon DEF IInv, InCall, CallOf
    <2> QED
      BY <2>2, <2>3 DEF Socks
  <1>5. PICK x \in Item : x = [k |-> "canary", n |-> c]
    BY Zenon DEF Item
  <1>6. up' = [up EXCEPT ![s] = Append(@, x)]
    BY <1>1, <1>4, <1>5, Zenon DEF SendCanary
  <1>7. Extended(s, x)
    BY <1>6, AppendItem, Zenon DEF IInv
  <1>8. TypeOK'
    <2>1. lock' \in [Procs -> Threads \cup {None}]
      BY <1>2, Zenon DEF IInv, TypeOK, Procs
    <2>2. pc' \in [Threads -> {"idle", "lock", "join", "token", "ack", "canary", "retval", "addr"}]
      BY <1>2, ZenonT(60) DEF IInv, TypeOK
    <2> QED
      BY <2>1, <2>2, <1>2, <1>7, Zenon DEF Extended, IInv, TypeOK, svcvars
  <1>9. ASSUME NEW u \in Threads
        PROVE  CallOf(u)'
    <2>1. CallOf(u)
      BY Zenon DEF IInv, InCall
    <2>2. pc[u] \in {"token", "ack", "canary", "retval", "addr"} =>
            cur[u] # s /\ cur[u] \in Socks
      BY <1>4, KnownSocket, CurrentCall
    <2>3. CASE u = t
      BY <2>1, <2>3, <1>2, <1>3, Zenon DEF IInv, TypeOK, CallOf
    <2>4. CASE u # t
      BY <2>1, <2>2, <2>4, <1>2, <1>7, ZenonT(60) DEF Extended, IInv, TypeOK, CallOf, svcvars
    <2> QED
      BY <2>3, <2>4, Zenon
  <1>10. Fresh'
    BY <1>2, <1>4, <1>7, KnownSocket, Zenon DEF Extended, IInv, TypeOK, Fresh, Socks
  <1>11. RpcItems'
    <2> SUFFICES ASSUME NEW r \in Socks, NEW i \in 1 .. Len(up'[r]), up'[r][i].k = "rpc"
                 PROVE  /\ up'[r] = <<[k |-> "rpc", n |-> r]>>
                        /\ down[r] = <<>>
                        /\ owner[r] \in Threads
                        /\ pc'[owner[r]] = "ack"
                        /\ cur[owner[r]] = r
      BY <1>2, Zenon DEF RpcItems
    <2>1. i \in 1 .. Len(up[r]) /\ up'[r][i] = up[r][i]
      <3>1. up'[r][i] # x
        BY <1>5
      <3> QED
        BY <3>1, <1>7, Zenon DEF Extended
    <2>2. r # s
      BY <2>1, <1>4, KnownSocket, Zenon
    <2>3. /\ up'[r] = up[r] /\ up[r] = <<[k |-> "rpc", n |-> r]>>
          /\ down[r] = <<>>
          /\ owner[r] \in Threads
          /\ pc[owner[r]] = "ack"
          /\ cur[owner[r]] = r
      BY <2>1, <2>2, <1>7, Zenon DEF Extended, IInv, RpcItems
    <2> QED
      BY <2>3, <1>2, Zenon DEF IInv, TypeOK
  <1>12. \A d \in Socks : Registered(d) => Registered(d)'
    BY <1>2, Zenon DEF IInv, TypeOK, Registered, Before, svcvars
  <1>13. Registered(c)'
    <2>1. ASSUME NEW u \in Threads
          PROVE  ~Before(u, c)'
      <3>1. CASE u = t
        BY <3>1, <1>2, Zenon DEF IInv, TypeOK, Before
      <3>2. CASE u # t
        <4>1. pc[u] \in {"token", "ack", "canary"} => cur[u] # c
          BY <3>2, <1>1, CurrentCall
        <4> QED
          BY <3>2, <4>1, <1>2, Zenon DEF IInv, TypeOK, Before
      <3> QED
        BY <3>1, <3>2, Zenon
    <2> QED
      BY <2>1, <1>1, <1>2, <1>3 DEF Registered, svcvars
  <1>14. Canaries'
    <2>1. x.n = c
      BY <1>5, Zenon
    <2> QED
      BY <2>1, <1>7, <1>12, <1>13, AppendCanaries, Zenon DEF IInv
  <1>15. \A r \in Socks : \A j \in 1 .. Len(up[r]) : up[r][j] # x
    <2> SUFFICES ASSUME NEW r \in Socks, NEW j \in 1 .. Len(up[r]), up[r][j] = x
                 PROVE  FALSE
      BY Zenon
    <2>1. Registered(c)
      BY <1>5, SMTT(90) DEF IInv, Canaries
    <2> QED
      BY <2>1, <1>1, <1>2, Zenon DEF Registered, Before
  <1>16. Unique'
    BY <1>7, <1>15, AppendUnique, Zenon DEF IInv
  <1>17. Conns' /\ Pending'
    BY <1>2, Zenon DEF IInv, Conns, Pending, svcvars
  <1> QED
    BY <1>8, <1>9, <1>10, <1>11, <1>14, <1>16, <1>17, Zenon DEF IInv, InCall

\* A reply is read: what that leaves alone, whatever the thread does next.
LEMMA ReplyRead ==
  ASSUME IInv, NEW t \in Threads, NEW c \in Socks,
         NEW p \in {"idle", "canary"}, NEW v \in Reply \cup {"none"},
         pc[t] \in {"ack", "retval", "addr"}, cur[t] = c, down[c] # <<>>,
         p = "canary" => /\ pc[t] = "ack" /\ v = "none"
                         /\ want[t].cmd # "SOCKET" /\ jobmap[c] = c,
         pc' = [pc EXCEPT ![t] = p],
         down' = [down EXCEPT ![c] = Tail(@)],
         result' = [result EXCEPT ![c] = v],
         lock' \in [Procs -> Threads \cup {None}],
         copen' \in [Socks -> BOOLEAN],
         UNCHANGED <<want, cur, call, owner, sent, nsock, up, svcvars>>
  PROVE  IInv'
  <1> USE ConstantsAssumption
  <1>1. c \in 1 .. nsock /\ owner[c] = t /\ result[c] = "none" /\ call[c] = want[t]
    BY CurrentCall
  <1>2. TypeOK'
    <2>1. down' \in [Socks -> Seq(Reply)]
      <3>1. down[c] \in Seq(Reply)
        BY Zenon DEF IInv, TypeOK
      <3>2. Tail(down[c]) \in Seq(Reply)
        BY <3>1
      <3> QED
        BY <3>2, Zenon DEF IInv, TypeOK
    <2>2. result' \in [Socks -> Reply \cup {"none"}]
      BY Zenon DEF IInv, TypeOK
    <2>3. pc' \in [Threads -> {"idle", "lock", "join", "token", "ack", "canary", "retval", "addr"}]
      BY Zenon DEF IInv, TypeOK
    <2> QED
      BY <2>1, <2>2, <2>3, Zenon DEF IInv, TypeOK, svcvars
  <1>3. ASSUME NEW u \in Threads
        PROVE  CallOf(u)'
    <2>1. CallOf(u) /\ CallOf(t)
      BY Zenon DEF IInv, InCall
    <2>2. CASE u = t
      <3>1. CASE p = "idle"
        BY <2>2, <3>1, ZenonT(60) DEF IInv, TypeOK, CallOf
      <3>2. CASE p = "canary"
        <4>1. want[t].fd # c
          <5>1. result[want[t].fd] = "ok"
            BY <2>1, <3>2, Zenon DEF CallOf
          <5> QED
            BY <5>1, <1>1, Zenon
        <4>2. pc'[t] = "canary" /\ result'[c] = "none"
          BY <3>2, Zenon DEF IInv, TypeOK
        <4>3. /\ cur'[t] = c /\ want'[t] = want[t] /\ nsock' = nsock
              /\ owner'[c] = t /\ call'[c] = want[t] /\ jobmap'[c] = c
          BY <3>2, <1>1, Zenon DEF svcvars
        <4> QED
          BY <4>1, <4>2, <4>3, <2>1, <2>2, <3>2, SMTT(90) DEF CallOf
      <3> QED
        BY <3>1, <3>2, Zenon
    <2>3. CASE u # t
      <3>1. pc[u] \in {"token", "ack", "canary", "retval", "addr"} =>
              cur[u] # c /\ cur[u] \in Socks
        BY <2>3, <1>1, CurrentCall
      <3>2. pc[u] # "idle" /\ want[u].fd # 0 => want[u].fd # c
        BY <2>1, <1>1, Zenon DEF CallOf
      <3>3. pc'[u] = pc[u] /\ cur'[u] = cur[u] /\ want'[u] = want[u]
        BY <2>3, Zenon DEF IInv, TypeOK
      <3>4. \A s \in Socks : s # c => result'[s] = result[s] /\ down'[s] = down[s]
        BY Zenon DEF IInv, TypeOK
      <3>5. want[u].fd # 0 => want[u].fd \in Socks
        <4>1. want[u] \in Call
          BY Zenon DEF IInv, TypeOK
        <4> QED
          BY <4>1 DEF Call, Socks
      <3>6. pc[u] \in {"token", "ack", "canary", "retval", "addr"} =>
              result'[cur[u]] = result[cur[u]] /\ down'[cur[u]] = down[cur[u]]
        BY <3>1, <3>4, Zenon
      <3>7. pc[u] # "idle" /\ want[u].fd # 0 => result'[want[u].fd] = result[want[u].fd]
        BY <3>2, <3>4, <3>5, Zenon
      <3>8. call' = call /\ owner' = owner /\ up' = up /\ nsock' = nsock /\ jobmap' = jobmap
        BY Zenon DEF svcvars
      <3> QED
        BY <2>1, <3>3, <3>6, <3>7, <3>8, ZenonT(60) DEF CallOf
    <2> QED
      BY <2>2, <2>3, Zenon
  <1>4. Fresh'
    <2>1. \A s \in Socks : s > nsock => s # c
      BY <1>1, SMTT(90) DEF IInv, TypeOK, Socks
    <2> QED
      BY <2>1, ZenonT(60) DEF IInv, TypeOK, Fresh
  <1>5. RpcItems'
    <2>1. ASSUME NEW s \in Socks, NEW i \in 1 .. Len(up[s]), up[s][i].k = "rpc"
          PROVE  s # c /\ owner[s] # t
      <3>1. down[s] = <<>> /\ cur[owner[s]] = s
        BY <2>1, Zenon DEF IInv, RpcItems
      <3> QED
        BY <3>1, Zenon
    <2> QED
      BY <2>1, SMTT(90) DEF IInv, TypeOK, RpcItems, svcvars
  <1>6. Canaries'
    <2>1. ASSUME NEW d \in Socks, Registered(d)
          PROVE  Registered(d)'
      <3>1. ~Before(t, d)'
        <4>1. pc'[t] = p /\ cur'[t] = c
          BY Zenon DEF IInv, TypeOK
        <4>2. ~Before(t, d)
          BY <2>1, Zenon DEF Registered
        <4> QED
          BY <4>1, <4>2, Zenon DEF Before
      <3>2. ASSUME NEW u \in Threads, u # t
            PROVE  ~Before(u, d)'
        BY <2>1, <3>2, Zenon DEF IInv, TypeOK, Registered, Before
      <3> QED
        BY <2>1, <3>1, <3>2, Zenon DEF Registered, svcvars
    <2> QED
      BY <2>1, CanariesKept, Zenon DEF IInv
  <1>7. Conns'
    <2>1. ASSUME NEW s \in conns
          PROVE  down'[s] \in {<<>>, <<"z">>}
      <3>1. s \in Socks /\ down[s] \in {<<>>, <<"z">>}
        BY Zenon DEF IInv, TypeOK, Conns
      <3>2. CASE s = c
        <4>1. down[c] = <<"z">>
          BY <3>1, <3>2, Zenon
        <4>2. Tail(down[c]) = <<>>
          BY <4>1
        <4> QED
          BY <4>2, <3>2, Zenon DEF IInv, TypeOK
      <3>3. CASE s # c
        BY <3>1, <3>3, Zenon DEF IInv, TypeOK
      <3> QED
        BY <3>2, <3>3, Zenon
    <2> QED
      BY <2>1, Zenon DEF IInv, Conns, svcvars
  <1>8. Unique' /\ Pending'
    BY DEF IInv, Unique, Pending, svcvars
  <1> QED
    BY <1>2, <1>3, <1>4, <1>5, <1>6, <1>7, <1>8, Zenon DEF IInv, InCall

\* The ACK is read.
LEMMA ReadAckInv ==
  ASSUME IInv, NEW t \in Threads, ReadAck(t)
  PROVE  IInv'
  <1> USE ConstantsAssumption
  <1>1. PICK c \in Socks : cur[t] = c /\ result[c] = "none"
    BY CurrentCall, Zenon DEF ReadAck
  <1>2. /\ pc[t] = "ack" /\ down[c] # <<>>
        /\ down' = [down EXCEPT ![c] = Tail(@)]
        /\ UNCHANGED <<want, cur, call, owner, sent, nsock, up, svcvars>>
    BY <1>1, Zenon DEF ReadAck
  <1>3. copen' \in [Socks -> BOOLEAN]
    BY Zenon DEF ReadAck, IInv, TypeOK
  <1>4. lock' \in [Procs -> Threads \cup {None}]
    BY Zenon DEF ReadAck, IInv, TypeOK, Procs
  <1>5. CASE want[t].cmd = "SOCKET"
    <2>1. result' = [result EXCEPT ![c] = "ok"] /\ pc' = [pc EXCEPT ![t] = "idle"]
      BY <1>1, <1>5, Zenon DEF ReadAck
    <2> QED
      BY <2>1, <1>1, <1>2, <1>3, <1>4, ReplyRead, Zenon DEF Reply
  <1>6. CASE want[t].cmd # "SOCKET"
    <2>1. result' = [result EXCEPT ![c] = "none"] /\ pc' = [pc EXCEPT ![t] = "canary"]
      BY <1>1, <1>6 DEF ReadAck, IInv, TypeOK
    <2>2. jobmap[c] = c
      BY <1>1, <1>2, <1>6, Zenon DEF IInv, InCall, CallOf
    <2> QED
      BY <2>1, <2>2, <1>1, <1>2, <1>3, <1>4, <1>6, ReplyRead, ZenonT(60)
  <1> QED
    BY <1>5, <1>6, Zenon

\* The return value is read.
LEMMA GetRetvalInv ==
  ASSUME IInv, NEW t \in Threads, GetRetval(t)
  PROVE  IInv'
  <1> USE ConstantsAssumption
  <1>1. PICK c \in Socks : cur[t] = c
    BY CurrentCall, ZenonT(60) DEF GetRetval
  <1>2. /\ pc[t] = "retval" /\ down[c] # <<>>
        /\ down' = [down EXCEPT ![c] = Tail(@)]
        /\ result' = [result EXCEPT ![c] = Head(down[c])]
        /\ pc' = [pc EXCEPT ![t] = "idle"]
        /\ UNCHANGED <<want, cur, call, owner, sent, nsock, up, svcvars>>
    BY <1>1, Zenon DEF GetRetval
  <1>3. copen' \in [Socks -> BOOLEAN]
    BY Zenon DEF GetRetval, IInv, TypeOK
  <1>4. lock' \in [Procs -> Threads \cup {None}]
    BY Zenon DEF GetRetval, IInv, TypeOK, Procs
  <1>5. Head(down[c]) \in Reply
    BY <1>2 DEF IInv, TypeOK
  <1> QED
    BY <1>1, <1>2, <1>3, <1>4, <1>5, ReplyRead, Zenon

\* The address is read.
LEMMA ReadAddrInv ==
  ASSUME IInv, NEW t \in Threads, ReadAddr(t)
  PROVE  IInv'
  <1> USE ConstantsAssumption
  <1>1. PICK c \in Socks : cur[t] = c
    BY CurrentCall, Zenon DEF ReadAddr
  <1>2. /\ pc[t] = "addr" /\ down[c] # <<>>
        /\ down' = [down EXCEPT ![c] = Tail(@)]
        /\ result' = [result EXCEPT ![c] = "ok"]
        /\ pc' = [pc EXCEPT ![t] = "idle"]
        /\ UNCHANGED <<want, cur, call, owner, sent, nsock, up, svcvars>>
    BY <1>1, Zenon DEF ReadAddr
  <1>3. copen' \in [Socks -> BOOLEAN]
    BY Zenon DEF ReadAddr, IInv, TypeOK
  <1>4. lock' \in [Procs -> Threads \cup {None}]
    BY Zenon DEF ReadAddr, IInv, TypeOK
  <1> QED
    BY <1>1, <1>2, <1>3, <1>4, ReplyRead, Zenon DEF Reply

----------------------------------------------------------------------------
(***************************************************************************)
(* The steps of the tap service.                                           *)
(***************************************************************************)

\* A step that touches no stream, no job and no Connection.
LEMMA QuietInv ==
  ASSUME IInv, TypeOK', Pending', UNCHANGED <<appvars, up, down, jobmap, conns>>
  PROVE  IInv'
  <1>1. UNCHANGED <<pc, want, cur, call, owner, result, nsock, up, down, jobmap, conns>>
    BY Zenon DEF appvars
  <1>2. (Fresh /\ RpcItems /\ Unique /\ Conns)'
    <2>1. Fresh' /\ Conns'
      BY <1>1, Zenon DEF IInv, Fresh, Conns
    <2>2. RpcItems'
      BY <1>1, Zenon DEF IInv, RpcItems
    <2>3. Unique'
      BY <1>1, ZenonT(60) DEF IInv, Unique
    <2> QED
      BY <2>1, <2>2, <2>3, Zenon
  <1>3. InCall'
    <2>1. ASSUME NEW t \in Threads
          PROVE  CallOf(t)'
      <3>1. CallOf(t)
        BY Zenon DEF IInv, InCall
      <3> QED
        BY <1>1, <3>1, ZenonT(60) DEF CallOf
    <2> QED
      BY <2>1, Zenon DEF InCall
  <1>4. Canaries'
    <2>1. Canaries
      BY Zenon DEF IInv
    <2> QED
      BY <1>1, <2>1, ZenonT(60) DEF Canaries, Registered, Before
  <1> QED
    BY <1>2, <1>3, <1>4, Zenon DEF IInv

\* The tap gets an address, loses its last one, or takes the service down.
LEMMA TapInv ==
  ASSUME IInv, AddIp \/ RemoveIp \/ \E s \in Socks : Crash(s)
  PROVE  IInv'
  <1>1. /\ tap' \in {"off", "up", "bare", "dead"}
        /\ UNCHANGED <<appvars, up, down, nacc, phys, ready, jobmap, tmpbuf, conns, pico, tx, done>>
    BY Zenon DEF AddIp, RemoveIp, Crash
  <1>2. TypeOK'
    BY <1>1, Zenon DEF IInv, TypeOK, appvars
  <1>3. Pending'
    BY <1>1, Zenon DEF IInv, Pending, appvars
  <1> QED
    BY <1>1, <1>2, <1>3, QuietInv, Zenon

\* select() returns.
LEMMA SelectInv ==
  ASSUME IInv, Select
  PROVE  IInv'
  <1>1. 0 \in Readable => nacc < nsock
    BY ConstantsAssumption DEF IInv, TypeOK, Readable, Listening, Socks
  <1>2. Readable \subseteq 0 .. MaxSocks
    <2>1. Readable \subseteq phys \cup {0}
      BY Zenon DEF Readable, Listening
    <2>2. phys \cup {0} \subseteq 0 .. MaxSocks
      BY ConstantsAssumption DEF IInv, TypeOK, Socks
    <2> QED
      BY <2>1, <2>2, Zenon
  <1>3. TypeOK'
    BY <1>2, Zenon DEF Select, IInv, TypeOK, appvars
  <1>4. Pending'
    BY <1>1, Zenon DEF Select, Pending, appvars
  <1> QED
    BY <1>3, <1>4, QuietInv, Zenon DEF Select

\* A connection is accepted: there is one, so the count stays in bounds.
LEMMA AcceptInv ==
  ASSUME IInv, Accept
  PROVE  IInv'
  <1>1. nacc < nsock
    BY Zenon DEF Accept, IsNext, IInv, Pending
  <1>2. nacc + 1 \in Socks
    BY <1>1, ConstantsAssumption, SMTT(90) DEF IInv, TypeOK, Socks
  <1>3. nacc' \in 0 .. MaxSocks /\ phys' \subseteq Socks /\ ready' \subseteq 0 .. MaxSocks
    BY <1>2, ConstantsAssumption DEF Accept, IInv, TypeOK, Socks
  <1>4. TypeOK'
    BY <1>3, Zenon DEF Accept, IInv, TypeOK, appvars
  <1>5. Pending'
    BY Zenon DEF Accept, Pending
  <1> QED
    BY <1>4, <1>5, QuietInv, Zenon DEF Accept

\* A closed socket leaves the list.
LEMMA EofInv ==
  ASSUME IInv, NEW s \in Socks, Eof(s)
  PROVE  IInv'
  <1>1. TypeOK'
    BY Zenon DEF Eof, IInv, TypeOK, appvars
  <1>2. Pending'
    BY Zenon DEF Eof, IInv, Pending, appvars
  <1> QED
    BY <1>1, <1>2, QuietInv, Zenon DEF Eof

\* The stack slot is overwritten.
LEMMA ReuseStackInv ==
  ASSUME IInv, ReuseStack
  PROVE  IInv'
  <1>1. TypeOK'
    BY ConstantsAssumption DEF ReuseStack, IInv, TypeOK, appvars
  <1>2. Pending'
    BY Zenon DEF ReuseStack, IInv, Pending, appvars
  <1> QED
    BY <1>1, <1>2, QuietInv, ZenonT(60) DEF ReuseStack

\* The first k items of stream s have been read, and a canary behind them may
\* have been cut.
Consumed(s, k) ==
  /\ up' \in [Socks -> Seq(Item)]
  /\ up[s] # <<>>
  /\ \A r \in Socks : r # s => up'[r] = up[r]
  /\ Len(up'[s]) = Len(up[s]) - k
  /\ \A i \in 1 .. Len(up'[s]) :
       /\ i + k \in 1 .. Len(up[s])
       /\ \/ up'[s][i] = up[s][i + k]
          \/ up[s][i + k].k = "canary" /\ up'[s][i].k \in {"data", "pad"}

\* Read r took the first k items of stream s, and a piece of the next one if
\* it was cut.
Taken(s, r, k) ==
  /\ k \in 1 .. Len(up[s])
  /\ k = ReadMax \/ (k = Len(up[s]) /\ k < ReadMax)
  /\ \A i \in 1 .. k : r.got[i] = up[s][i]
  /\ \/ Len(r.got) = k
     \/ /\ Len(r.got) = k + 1 /\ r.got[k + 1] = Piece("data")
        /\ k + 1 \in 1 .. Len(up[s]) /\ up[s][k + 1].k = "canary"

\* Where the items of a stream are when there is no cut.
LEMMA ChunkItems ==
  ASSUME TypeOK, NEW s \in Socks, up[s] # <<>>
  PROVE  \E k \in 1 .. Len(up[s]) :
           /\ k = ReadMax \/ (k = Len(up[s]) /\ k < ReadMax)
           /\ Chunk(s) \in Seq(Item) /\ Len(Chunk(s)) = k
           /\ \A i \in 1 .. k : Chunk(s)[i] = up[s][i]
           /\ Rest(s) \in Seq(Item) /\ Len(Rest(s)) = Len(up[s]) - k
           /\ \A i \in 1 .. Len(Rest(s)) :
                i + k \in 1 .. Len(up[s]) /\ Rest(s)[i] = up[s][i + k]
  <1>1. PICK u \in Seq(Item) : up[s] = u
    BY Zenon DEF TypeOK
  <1>2. PICK k \in 1 .. Len(u) : k = IF Len(u) < ReadMax THEN Len(u) ELSE ReadMax
    <2>1. Len(u) \in Nat \ {0}
      BY <1>1
    <2> QED
      BY <2>1, ConstantsAssumption
  <1>3. k = ReadMax \/ (k = Len(u) /\ k < ReadMax)
    BY <1>2, Zenon
  <1>4. Chunk(s) = SubSeq(u, 1, k)
    BY <1>1, <1>2, Zenon DEF Chunk
  <1>5. Chunk(s) \in Seq(Item) /\ Len(Chunk(s)) = k /\ \A i \in 1 .. k : Chunk(s)[i] = u[i]
    BY <1>4
  <1>6. Rest(s) = SubSeq(u, k + 1, Len(u))
    BY <1>1, <1>5, Zenon DEF Rest
  <1>7. Rest(s) \in Seq(Item) /\ Len(Rest(s)) = Len(u) - k
    BY <1>6
  <1>8. \A i \in 1 .. Len(u) - k : Rest(s)[i] = u[i + k] /\ i + k \in 1 .. Len(u)
    BY <1>6
  <1> QED
    BY <1>1, <1>3, <1>5, <1>7, <1>8, ZenonT(60)

\* What read() returns, and what it leaves in the socket.
LEMMA ReadItems ==
  ASSUME TypeOK, NEW s \in Socks, up[s] # <<>>, NEW r \in Reads(s),
         up' = [up EXCEPT ![s] = r.left]
  PROVE  \E k \in 1 .. Len(up[s]) : Taken(s, r, k) /\ Consumed(s, k)
  <1>1. PICK k \in 1 .. Len(up[s]) :
          /\ k = ReadMax \/ (k = Len(up[s]) /\ k < ReadMax)
          /\ Chunk(s) \in Seq(Item) /\ Len(Chunk(s)) = k
          /\ \A i \in 1 .. k : Chunk(s)[i] = up[s][i]
          /\ Rest(s) \in Seq(Item) /\ Len(Rest(s)) = Len(up[s]) - k
          /\ \A i \in 1 .. Len(Rest(s)) :
               i + k \in 1 .. Len(up[s]) /\ Rest(s)[i] = up[s][i + k]
    BY ChunkItems, ZenonT(60)
  <1>2. up \in [Socks -> Seq(Item)]
    BY Zenon DEF TypeOK
  <1>3. (\A q \in Socks : q # s => up'[q] = up[q]) /\ up'[s] = r.left
    BY <1>2, Zenon
  <1>4. CASE r = [got |-> Chunk(s), left |-> Rest(s)]
    <2>1. r.got = Chunk(s) /\ r.left = Rest(s)
      BY <1>4
    <2>2. up' \in [Socks -> Seq(Item)]
      BY <1>1, <1>2, <2>1, Zenon
    <2>3. Taken(s, r, k)
      BY <1>1, <2>1, Zenon DEF Taken
    <2>4. Consumed(s, k)
      BY <1>1, <1>3, <2>1, <2>2, ZenonT(60) DEF Consumed
    <2> QED
      BY <2>3, <2>4, Zenon
  <1>5. CASE r \in Cuts(s)
    <2>1. PICK j \in {"data", "pad"} :
            /\ Rest(s) # <<>> /\ Rest(s)[1].k = "canary"
            /\ r = [got |-> Append(Chunk(s), Piece("data")), left |-> [Rest(s) EXCEPT ![1] = Piece(j)]]
      BY <1>5, ZenonT(60) DEF Cuts
    <2>2. r.got = Append(Chunk(s), Piece("data")) /\ r.left = [Rest(s) EXCEPT ![1] = Piece(j)]
      BY <2>1
    <2>3. Piece(j) \in Item /\ Piece("data") \in Item /\ Piece(j).k \in {"data", "pad"}
      <3>1. 0 \in 0 .. MaxData
        BY ConstantsAssumption
      <3> QED
        BY <3>1, ZenonT(60) DEF Piece, Item
    <2>4. Len(r.got) = k + 1 /\ r.got[k + 1] = Piece("data") /\ \A i \in 1 .. k : r.got[i] = Chunk(s)[i]
      <3> HIDE DEF Piece
      <3> QED
        BY <1>1, <2>2, <2>3
    <2>5. 1 \in 1 .. Len(Rest(s))
      BY <1>1, <2>1
    <2>6. k + 1 \in 1 .. Len(up[s]) /\ up[s][k + 1].k = "canary"
      <3>1. 1 + k \in 1 .. Len(up[s]) /\ up[s][1 + k].k = "canary"
        BY <1>1, <2>1, <2>5, ZenonT(60)
      <3> QED
        BY <3>1
    <2>7. Taken(s, r, k)
      BY <1>1, <2>4, <2>6, ZenonT(60) DEF Taken
    <2>8. /\ r.left \in Seq(Item) /\ Len(r.left) = Len(Rest(s))
          /\ \A i \in 1 .. Len(r.left) : IF i = 1 THEN r.left[i] = Piece(j) ELSE r.left[i] = Rest(s)[i]
      BY <1>1, <2>2, <2>3, <2>5
    <2>9. up' \in [Socks -> Seq(Item)]
      BY <1>2, <2>8, Zenon
    <2>10. ASSUME NEW i \in 1 .. Len(up'[s])
           PROVE  /\ i + k \in 1 .. Len(up[s])
                  /\ \/ up'[s][i] = up[s][i + k]
                     \/ up[s][i + k].k = "canary" /\ up'[s][i].k \in {"data", "pad"}
      <3>1. i \in 1 .. Len(Rest(s))
        BY <1>3, <2>8, Zenon
      <3>2. i + k \in 1 .. Len(up[s]) /\ Rest(s)[i] = up[s][i + k]
        BY <1>1, <3>1, Zenon
      <3>3. i \in 1 .. Len(r.left)
        BY <1>3, Zenon
      <3>4. CASE i = 1
        <4>1. up'[s][i] = Piece(j) /\ up[s][i + k].k = "canary"
          <5>1. r.left[i] = Piece(j)
            BY <2>8, <3>3, <3>4, Zenon
          <5> QED
            BY <1>3, <2>1, <3>2, <3>4, <5>1, ZenonT(60)
        <4> QED
          BY <2>3, <3>2, <4>1, Zenon
      <3>5. CASE i # 1
        <4>1. r.left[i] = Rest(s)[i]
          BY <2>8, <3>3, <3>5, Zenon
        <4> QED
          BY <1>3, <3>2, <4>1, ZenonT(60)
      <3> QED
        BY <3>4, <3>5, Zenon
    <2>11. Consumed(s, k)
      BY <1>1, <1>3, <2>8, <2>9, <2>10, ZenonT(60) DEF Consumed
    <2> QED
      BY <2>7, <2>11, Zenon
  <1> QED
    BY <1>4, <1>5, Zenon DEF Reads

\* A read of a stream without RPCs, after which the jobs in D are done: their
\* canaries have been read, and only they and their sockets have changed.
LEMMA StreamInv ==
  ASSUME IInv, TypeOK', Pending', UNCHANGED <<appvars, conns>>,
         NEW s \in Socks, NEW k \in Nat \ {0}, Consumed(s, k),
         \A i \in 1 .. Len(up[s]) : up[s][i].k # "rpc",
         NEW D \in SUBSET Socks,
         \A d \in D : Registered(d),
         \A r \in Socks : \A i \in 1 .. Len(up'[r]) :
           up'[r][i].k = "canary" => up'[r][i].n \notin D,
         \A r \in Socks \ D : jobmap'[r] = jobmap[r] /\ down'[r] = down[r]
  PROVE  IInv'
  <1> USE ConstantsAssumption
  <1>1. UNCHANGED <<pc, want, cur, call, owner, result, nsock, conns>>
    BY ZenonT(60) DEF appvars
  <1>2. nsock \in Nat /\ \A r \in Socks : r \in Nat
    BY DEF IInv, TypeOK, Socks
  <1>3. ASSUME NEW r \in Socks, NEW i \in 1 .. Len(up'[r]), up'[r][i].k \in {"rpc", "canary"}
        PROVE  \E j \in 1 .. Len(up[r]) : /\ up'[r][i] = up[r][j]
                                          /\ j = IF r = s THEN i + k ELSE i
    <2>1. up'[r][i].k \notin {"data", "pad"}
      BY <1>3
    <2> QED
      BY <2>1, Zenon DEF Consumed
  <1>4. ASSUME NEW t \in Threads, pc[t] \in {"token", "ack", "canary"}
        PROVE  cur[t] \in Socks \ D
    <2>1. PICK c \in Socks : cur[t] = c
      BY <1>4, CurrentCall, ZenonT(60)
    <2> QED
      BY <2>1, <1>4, Zenon DEF Registered, Before
  <1>5. Fresh'
    <2>1. s <= nsock
      BY <1>2 DEF IInv, Fresh, Consumed
    <2>2. \A d \in D : d <= nsock
      BY ZenonT(60) DEF Registered
    <2>3. ASSUME NEW r \in Socks, r > nsock
          PROVE  r # s /\ r \notin D
      BY <2>1, <2>2, <2>3, <1>2
    <2> QED
      BY <2>3, <1>1, Zenon DEF IInv, Fresh, Consumed
  <1>6. ASSUME NEW t \in Threads
        PROVE  CallOf(t)'
    <2>1. CallOf(t)
      BY Zenon DEF IInv, InCall
    <2>2. CASE pc[t] \in {"token", "ack", "canary"}
      <3>1. PICK c \in Socks \ D : cur[t] = c
        BY <1>4, <2>2, Zenon
      <3>2. jobmap'[c] = jobmap[c] /\ down'[c] = down[c]
        BY <3>1, Zenon
      <3>3. up[c] = <<>> \/ up[c] = <<[k |-> "rpc", n |-> c]>> => up'[c] = up[c]
        <4>1. up[s] # <<>>
          BY Zenon DEF Consumed
        <4>2. up[s] # <<[k |-> "rpc", n |-> c]>>
          <5>1. SUFFICES ASSUME up[s] = <<[k |-> "rpc", n |-> c]>>
                         PROVE  FALSE
            BY ZenonT(60)
          <5>2. 1 \in 1 .. Len(up[s]) /\ up[s][1].k = "rpc"
            BY <5>1, SMTT(90)
          <5> QED
            BY <5>2, Zenon
        <4> QED
          BY <4>1, <4>2, Zenon DEF Consumed
      <3> QED
        BY <2>1, <2>2, <3>1, <3>2, <3>3, <1>1, Zenon DEF CallOf
    <2>3. CASE pc[t] \notin {"token", "ack", "canary"}
      BY <2>1, <2>3, <1>1, Zenon DEF CallOf
    <2> QED
      BY <2>2, <2>3, Zenon
  <1>7. RpcItems'
    <2>1. ASSUME NEW r \in Socks, NEW i \in 1 .. Len(up'[r]), up'[r][i].k = "rpc"
          PROVE  /\ up'[r] = <<[k |-> "rpc", n |-> r]>>
                 /\ down'[r] = <<>>
                 /\ owner[r] \in Threads
                 /\ pc[owner[r]] = "ack"
                 /\ cur[owner[r]] = r
      <3>1. PICK j \in 1 .. Len(up[r]) : up'[r][i] = up[r][j]
        BY <1>3, <2>1, Zenon
      <3>1a. up[r][j].k = "rpc"
        BY <2>1, <3>1, Zenon
      <3>2. r # s
        BY <3>1a, Zenon
      <3>3. up'[r] = up[r]
        BY <3>2, Zenon DEF Consumed
      <3>4. /\ up[r] = <<[k |-> "rpc", n |-> r]>>
            /\ down[r] = <<>>
            /\ owner[r] \in Threads
            /\ pc[owner[r]] = "ack"
            /\ cur[owner[r]] = r
        BY <3>1a, Zenon DEF IInv, RpcItems
      <3>5. r \notin D
        BY <3>4, <1>4, Zenon
      <3> QED
        BY <3>3, <3>4, <3>5, Zenon
    <2> QED
      BY <2>1, <1>1, Zenon DEF RpcItems
  <1>8. Canaries'
    <2>1. ASSUME NEW r \in Socks, NEW i \in 1 .. Len(up'[r]), up'[r][i].k = "canary"
          PROVE  \E c \in Socks : up'[r][i].n = c /\ Registered(c)'
      <3>1. PICK j \in 1 .. Len(up[r]) : up'[r][i] = up[r][j]
        BY <1>3, <2>1, Zenon
      <3>2. PICK c \in Socks : up[r][j].n = c
        BY <2>1, <3>1, ItemKinds, Zenon DEF IInv
      <3>3. Registered(c)
        BY <2>1, <3>1, <3>2, Zenon DEF IInv, Canaries
      <3>4. c \notin D
        BY <2>1, <3>1, <3>2, Zenon
      <3>5. jobmap'[c] = jobmap[c]
        BY <3>4, Zenon
      <3>6. Registered(c)'
        BY <3>3, <3>5, <1>1, ZenonT(60) DEF Registered, Before
      <3> QED
        BY <3>1, <3>2, <3>6, Zenon
    <2> QED
      BY <2>1, ZenonT(60) DEF Canaries
  <1>9. Unique'
    <2> SUFFICES ASSUME NEW a \in Socks, NEW b \in Socks,
                        NEW i \in 1 .. Len(up'[a]), NEW j \in 1 .. Len(up'[b]),
                        up'[a][i].k = "canary",
                        up'[b][j] = up'[a][i]
                 PROVE  a = b /\ i = j
      BY SMTT(90) DEF Unique
    <2>1. PICK x \in 1 .. Len(up[a]) : /\ up'[a][i] = up[a][x]
                                       /\ x = IF a = s THEN i + k ELSE i
      BY <1>3, Zenon
    <2>1a. up'[b][j].k \in {"rpc", "canary"}
      BY Zenon
    <2>2. PICK y \in 1 .. Len(up[b]) : /\ up'[b][j] = up[b][y]
                                       /\ y = IF b = s THEN j + k ELSE j
      BY <1>3, <2>1a, Zenon
    <2>3. up[a][x].k = "canary" /\ up[b][y] = up[a][x]
      BY <2>1, <2>2, Zenon
    <2>4. a = b /\ x = y
      <3>1. Unique
        BY Zenon DEF IInv
      <3> QED
        BY <2>3, <3>1, SMTT(90) DEF Unique
    <2> QED
      BY <2>1, <2>2, <2>4, SMTT(90)
  <1>10. Conns'
    <2>1. conns \cap D = {}
      BY Zenon DEF Registered, IInv, Conns
    <2> QED
      BY <2>1, <1>1, Zenon DEF IInv, TypeOK, Conns
  <1> QED
    BY <1>5, <1>6, <1>7, <1>8, <1>9, <1>10, Zenon DEF IInv, InCall

----------------------------------------------------------------------------
(***************************************************************************)
(* The handlers of phyOnUnixData.                                          *)
(***************************************************************************)

\* phyOnUnixData with an RPC: it is the one RPC of the socket's own call, and
\* the job is in the map when the ACK is written.
LEMMA OnRpcInv ==
  ASSUME IInv, NEW s \in Socks, OnRpc(s)
  PROVE  IInv'
  <1> USE ConstantsAssumption
  <1>1. PICK k \in 1 .. Len(up[s]) : /\ Taken(s, [got |-> Chunk(s), left |-> Rest(s)], k)
                                     /\ Consumed(s, k)
    <2>1. PICK r \in Reads(s) : r = [got |-> Chunk(s), left |-> Rest(s)]
      BY Zenon DEF Reads
    <2>2. up' = [up EXCEPT ![s] = r.left]
      BY <2>1, Zenon DEF OnRpc
    <2> QED
      BY <2>1, <2>2, ReadItems, Zenon DEF OnRpc, IInv
  <1>2. k = 1 /\ Chunk(s)[1] = up[s][1] /\ up[s][1].k = "rpc" /\ 1 \in 1 .. Len(up[s])
    <2>1. Len(Chunk(s)) = 1 /\ Chunk(s)[1].k = "rpc"
      BY Zenon DEF OnRpc, IsRpc
    <2>2. /\ Len(Chunk(s)) \in {k, k + 1}
          /\ \A i \in 1 .. k : Chunk(s)[i] = up[s][i]
      BY <1>1, Zenon DEF Taken
    <2>3. k = 1 /\ Chunk(s)[1] = up[s][1]
      BY <2>1, <2>2
    <2> QED
      BY <2>1, <2>2, <2>3, Zenon
  <1>3. /\ up[s] = <<[k |-> "rpc", n |-> s]>>
        /\ down[s] = <<>>
        /\ owner[s] \in Threads
        /\ pc[owner[s]] = "ack"
        /\ cur[owner[s]] = s
    BY <1>2, Zenon DEF IInv, RpcItems
  <1>4. Chunk(s)[1].n = s
    BY <1>2, <1>3
  <1>5. up' \in [Socks -> Seq(Item)] /\ up'[s] = <<>>
    <2>1. up'[s] \in Seq(Item) /\ up' \in [Socks -> Seq(Item)]
      BY <1>1, ZenonT(60) DEF Consumed
    <2>2. Len(up[s]) = 1
      BY <1>3
    <2>3. \A i \in 1 .. Len(up'[s]) : i + 1 \in 1 .. 1
      BY <1>1, <1>2, <2>2, Zenon DEF Consumed
    <2>4. Len(up'[s]) = 0
      BY <2>1, <2>3
    <2> QED
      BY <2>1, <2>4
  <1>6. \A r \in Socks : r # s => up'[r] = up[r]
    BY <1>1, Zenon DEF Consumed
  <1>7. /\ down' = [down EXCEPT ![s] = <<"z">>]
        /\ UNCHANGED <<pc, want, cur, call, owner, result, nsock>>
    <2>1. Append(down[s], "z") = <<"z">>
      BY <1>3, SMTT(90)
    <2> QED
      BY <2>1, Zenon DEF OnRpc, appvars, IInv, TypeOK
  <1>8. s \in 1 .. nsock /\ call[s] = want[owner[s]]
    <2>1. CallOf(owner[s])
      BY <1>3, Zenon DEF IInv, InCall
    <2> QED
      BY <1>3, <2>1, ZenonT(60) DEF CallOf
  <1>9. \/ /\ call[s].cmd = "SOCKET"
           /\ jobmap' = jobmap /\ tmpbuf' = tmpbuf
           /\ conns' = conns \cup {s} \/ conns' = conns
        \/ /\ call[s].cmd # "SOCKET"
           /\ jobmap' = [jobmap EXCEPT ![s] = s] /\ tmpbuf' = s
           /\ conns' = conns
    BY <1>4, Zenon DEF OnRpc
  <1>10. TypeOK'
    <2>1. down' \in [Socks -> Seq(Reply)]
      BY <1>7 DEF IInv, TypeOK, Reply
    <2>2. /\ jobmap' \in [Socks -> 0 .. MaxSocks]
          /\ tmpbuf' \in 0 .. MaxSocks
          /\ conns' \subseteq Socks
      <3>1. s \in 0 .. MaxSocks
        BY DEF Socks
      <3>2. /\ jobmap \in [Socks -> 0 .. MaxSocks]
            /\ tmpbuf \in 0 .. MaxSocks
            /\ conns \subseteq Socks
        BY Zenon DEF IInv, TypeOK
      <3>3. jobmap' \in [Socks -> 0 .. MaxSocks]
        BY <1>9, <3>1, <3>2, Zenon
      <3>4. tmpbuf' \in 0 .. MaxSocks /\ conns' \subseteq Socks
        BY <1>9, <3>1, <3>2, Zenon
      <3> QED
        BY <3>3, <3>4, Zenon
    <2>3. pico' \in [Socks -> [st : {"none", "open", "bound", "listen", "syn"},
                               ports : SUBSET (Ports \cup {NoPort})]]
      <3>1. pico' = pico \/ pico' = [pico EXCEPT ![s] = [st |-> "open", ports |-> {}]]
        BY <1>4, Zenon DEF OnRpc
      <3>2. pico \in [Socks -> [st : {"none", "open", "bound", "listen", "syn"},
                               ports : SUBSET (Ports \cup {NoPort})]]
        BY Zenon DEF IInv, TypeOK
      <3> QED
        BY <3>1, <3>2, SMTT(90)
    <2>4. ready' \subseteq 0 .. MaxSocks
      BY Zenon DEF OnRpc, IInv, TypeOK
    <2> QED
      BY <1>5, <2>1, <2>2, <2>3, <2>4, Zenon DEF OnRpc, appvars, IInv, TypeOK
  <1>11. Pending'
    BY Zenon DEF OnRpc, IInv, Pending, appvars
  <1>12. Fresh'
    <2>1. \A r \in Socks : r > nsock => r # s
      BY <1>8 DEF IInv, TypeOK, Socks
    <2>2. \A r \in Socks : r # s => down'[r] = down[r]
      BY <1>7, Zenon DEF IInv, TypeOK
    <2> QED
      BY <2>1, <2>2, <1>6, <1>7, Zenon DEF IInv, Fresh
  <1>13. \A r \in Socks : r # s => jobmap'[r] = jobmap[r] /\ down'[r] = down[r]
    BY <1>7, <1>9, Zenon DEF IInv, TypeOK
  <1>14. call[s].cmd # "SOCKET" => jobmap'[s] = s
    BY <1>9, Zenon DEF IInv, TypeOK
  <1>15. ASSUME NEW t \in Threads
         PROVE  CallOf(t)'
    <2>1. CallOf(t)
      BY Zenon DEF IInv, InCall
    <2>2. CASE t = owner[s]
      BY <2>1, <2>2, <1>3, <1>7, <1>8, <1>14, Zenon DEF CallOf
    <2>3. CASE t # owner[s] /\ pc[t] \in {"token", "ack", "canary"}
      <3>1. PICK c \in Socks : cur[t] = c /\ owner[c] = t
        BY <2>3, CurrentCall, Zenon
      <3>2. c # s
        BY <2>3, <3>1, Zenon
      <3> QED
        BY <2>1, <3>1, <3>2, <1>6, <1>7, <1>13, Zenon DEF CallOf
    <2>4. CASE pc[t] \notin {"token", "ack", "canary"}
      BY <2>1, <2>4, <1>7, Zenon DEF CallOf
    <2> QED
      BY <2>2, <2>3, <2>4, Zenon
  <1>16. RpcItems'
    <2>1. ASSUME NEW r \in Socks, NEW i \in 1 .. Len(up'[r])
          PROVE  r # s /\ up'[r] = up[r] /\ down'[r] = down[r]
      <3>1. r # s
        BY <1>5
      <3> QED
        BY <3>1, <1>6, <1>13, Zenon
    <2> QED
      BY <2>1, <1>7, ZenonT(60) DEF IInv, RpcItems
  <1>17. Canaries'
    <2>1. ASSUME NEW r \in Socks, NEW i \in 1 .. Len(up'[r]), up'[r][i].k = "canary"
          PROVE  \E c \in Socks : up'[r][i].n = c /\ Registered(c)'
      <3>1. r # s
        BY <1>5
      <3>2. up'[r] = up[r] /\ i \in 1 .. Len(up[r])
        BY <3>1, <1>6, Zenon
      <3>3. PICK c \in Socks : up[r][i].n = c
        BY <2>1, <3>2, ItemKinds, Zenon DEF IInv
      <3>4. Registered(c)
        BY <2>1, <3>2, <3>3, Zenon DEF IInv, Canaries
      <3>5. c # s
        BY <3>4, <1>3, Zenon DEF Registered, Before
      <3>6. Registered(c)'
        BY <3>4, <3>5, <1>7, <1>13, Zenon DEF Registered, Before
      <3> QED
        BY <3>2, <3>3, <3>6, Zenon
    <2> QED
      BY <2>1, Zenon DEF Canaries
  <1>18. Unique'
    <2>1. ASSUME NEW r \in Socks, NEW i \in 1 .. Len(up'[r])
          PROVE  up'[r] = up[r]
      BY <1>5, <1>6
    <2> QED
      BY <2>1, SMTT(90) DEF IInv, Unique
  <1>19. Conns'
    <2>1. down'[s] = <<"z">>
      BY <1>7, Zenon DEF IInv, TypeOK
    <2>2. ASSUME NEW r \in conns'
          PROVE  /\ r <= nsock
                 /\ call[r].cmd = "SOCKET"
                 /\ down'[r] \in {<<>>, <<"z">>}
      <3>1. CASE r \in conns /\ r # s
        BY <3>1, <1>13, ZenonT(60) DEF IInv, TypeOK, Conns
      <3>2. CASE r = s /\ call[s].cmd = "SOCKET"
        BY <3>2, <2>1, <1>8 DEF IInv, TypeOK
      <3>3. CASE r = s /\ r \in conns
        BY <3>3, <2>1, Zenon DEF IInv, Conns
      <3> QED
        BY <3>1, <3>2, <3>3, <1>9, Zenon
    <2> QED
      BY <2>2, <1>7, Zenon DEF Conns
  <1> QED
    BY <1>10, <1>11, <1>12, <1>15, <1>16, <1>17, <1>18, <1>19, Zenon DEF IInv, InCall

\* A read that is not an RPC is of a stream that holds none.
LEMMA NoRpc ==
  ASSUME IInv, NEW s \in Socks, NEW r, NEW k, Taken(s, r, k), ~IsRpc(r.got)
  PROVE  \A i \in 1 .. Len(up[s]) : up[s][i].k # "rpc"
  <1> SUFFICES ASSUME NEW i \in 1 .. Len(up[s]), up[s][i].k = "rpc"
               PROVE  FALSE
    BY Zenon
  <1>1. up[s] = <<[k |-> "rpc", n |-> s]>>
    BY ZenonT(60) DEF IInv, RpcItems
  <1>2. Len(up[s]) = 1 /\ up[s][1].k = "rpc"
    BY <1>1, SMTT(90)
  <1>3. k \in 1 .. Len(up[s]) /\ (Len(r.got) = k \/ k + 1 \in 1 .. Len(up[s]))
        /\ \A j \in 1 .. k : r.got[j] = up[s][j]
    BY Zenon DEF Taken
  <1>4. Len(r.got) = 1 /\ r.got[1] = up[s][1]
    BY <1>2, <1>3, SMTT(90)
  <1> QED
    BY <1>2, <1>4, Zenon DEF IsRpc

\* A read with padding in it is no RPC.
LEMMA PaddingNoRpc ==
  ASSUME NEW b, NEW i \in 1 .. Len(b), FirstPadding(b, i)
  PROVE  ~IsRpc(b) /\ ~NoPadding(b)
  <1>1. b[i].k # "rpc"
    BY Zenon DEF FirstPadding
  <1>2. Len(b) = 1 => i = 1
    OBVIOUS
  <1> QED
    BY <1>1, <1>2, Zenon DEF IsRpc, NoPadding, FirstPadding

\* phyOnUnixData reads data, or padding that is not that of a canary.
LEMMA StreamOnly ==
  ASSUME IInv, NEW s \in Socks, NEW r \in Reads(s), up[s] # <<>>, ~IsRpc(r.got),
         up' = [up EXCEPT ![s] = r.left],
         tx' \in [Socks -> Seq(0 .. MaxData)], ready' = ready \ {s},
         UNCHANGED <<appvars, down, nacc, phys, jobmap, tmpbuf, conns, pico, tap, done>>
  PROVE  IInv'
  <1>1. PICK k \in 1 .. Len(up[s]) : Taken(s, r, k) /\ Consumed(s, k)
    BY ReadItems, Zenon DEF IInv
  <1>2. \A i \in 1 .. Len(up[s]) : up[s][i].k # "rpc"
    BY <1>1, NoRpc, ZenonT(60)
  <1>3. TypeOK'
    <2>1. up' \in [Socks -> Seq(Item)]
      BY <1>1, Zenon DEF Consumed
    <2>2. ready' \subseteq 0 .. MaxSocks
      BY Zenon DEF IInv, TypeOK
    <2> QED
      BY <2>1, <2>2, Zenon DEF appvars, IInv, TypeOK
  <1>4. Pending'
    BY Zenon DEF IInv, Pending, appvars
  <1>5. \A q \in Socks \ {} : jobmap'[q] = jobmap[q] /\ down'[q] = down[q]
    BY Zenon
  <1>6. {} \in SUBSET Socks /\ k \in Nat \ {0}
    OBVIOUS
  <1> QED
    BY <1>1, <1>2, <1>3, <1>4, <1>5, <1>6, StreamInv, ZenonT(60)

\* phyOnUnixData with data.
LEMMA OnDataInv ==
  ASSUME IInv, NEW s \in Socks, OnData(s)
  PROVE  IInv'
  <1>1. PICK r \in Reads(s) :
          /\ ~IsRpc(r.got) /\ NoPadding(r.got)
          /\ tx' = IF s \in conns THEN [tx EXCEPT ![s] = @ \o Appended(r.got)] ELSE tx
          /\ up' = [up EXCEPT ![s] = r.left]
    BY Zenon DEF OnData
  <1>2. /\ up[s] # <<>> /\ ready' = ready \ {s}
        /\ UNCHANGED <<appvars, down, nacc, phys, jobmap, tmpbuf, conns, pico, tap, done>>
    BY Zenon DEF OnData
  <1>3. PICK k \in 1 .. Len(up[s]) : Taken(s, r, k)
    BY <1>1, <1>2, ReadItems, Zenon DEF IInv
  <1>4. \A i \in 1 .. Len(up[s]) : up[s][i].k # "rpc"
    BY <1>1, <1>3, NoRpc, ZenonT(60)
  <1>5. ASSUME NEW i \in 1 .. Len(r.got)
        PROVE  r.got[i].n \in 0 .. MaxData
    <2>1. CASE i \in 1 .. k
      <3>1. i \in 1 .. Len(up[s]) /\ r.got[i] = up[s][i]
        <4>1. i \in 1 .. Len(up[s])
          BY <2>1
        <4> QED
          BY <1>3, <2>1, <4>1, Zenon DEF Taken
      <3>2. r.got[i].k # "canary"
        BY <1>1, Zenon DEF NoPadding
      <3> QED
        BY <1>4, <3>1, <3>2, ItemKinds, ZenonT(60) DEF IInv
    <2>2. CASE i \notin 1 .. k
      <3>1. Len(r.got) \in {k, k + 1} /\ (Len(r.got) = k \/ r.got[k + 1] = Piece("data"))
        BY <1>3, Zenon DEF Taken
      <3>2. i = k + 1 /\ Len(r.got) # k
        BY <2>2, <3>1
      <3>3. r.got[i] = Piece("data")
        BY <3>1, <3>2, Zenon
      <3>4. Piece("data").n = 0 /\ 0 \in 0 .. MaxData
        BY ConstantsAssumption DEF Piece
      <3> QED
        BY <3>3, <3>4, Zenon
    <2> QED
      BY <2>1, <2>2, Zenon
  <1>6. Appended(r.got) \in Seq(0 .. MaxData)
    <2>1. Appended(r.got) = [i \in 1 .. Len(r.got) |-> r.got[i].n]
      BY <1>1, Zenon DEF Appended
    <2>2. PICK l \in Nat : l = Len(r.got)
      <3>1. Len(r.got) \in {k, k + 1}
        BY <1>3, Zenon DEF Taken
      <3> QED
        BY <3>1
    <2>3. \A i \in 1 .. l : r.got[i].n \in 0 .. MaxData
      BY <1>5, <2>2, Zenon
    <2>4. [i \in 1 .. l |-> r.got[i].n] \in Seq(0 .. MaxData)
      BY <2>3
    <2> QED
      BY <2>1, <2>2, <2>4, Zenon
  <1>7. tx' \in [Socks -> Seq(0 .. MaxData)]
    <2>1. tx[s] \in Seq(0 .. MaxData) /\ tx \in [Socks -> Seq(0 .. MaxData)]
      BY Zenon DEF IInv, TypeOK
    <2>2. tx[s] \o Appended(r.got) \in Seq(0 .. MaxData)
      BY <1>6, <2>1
    <2> QED
      BY <1>1, <2>1, <2>2, Zenon
  <1> QED
    BY <1>1, <1>2, <1>7, StreamOnly, Zenon

\* phyOnUnixData with padding that is not that of a canary.
LEMMA OnPaddingInv ==
  ASSUME IInv, NEW s \in Socks, OnPadding(s)
  PROVE  IInv'
  <1>1. PICK r \in Reads(s) :
          /\ \E i \in 1 .. Len(r.got) : FirstPadding(r.got, i)
          /\ tx' = tx \/ tx' = [tx EXCEPT ![s] = Append(@, 0)]
          /\ up' = [up EXCEPT ![s] = r.left]
    BY Zenon DEF OnPadding
  <1>2. /\ up[s] # <<>> /\ ready' = ready \ {s}
        /\ UNCHANGED <<appvars, down, nacc, phys, jobmap, tmpbuf, conns, pico, tap, done>>
    BY Zenon DEF OnPadding
  <1>3. ~IsRpc(r.got)
    BY <1>1, PaddingNoRpc, Zenon
  <1>4. tx' \in [Socks -> Seq(0 .. MaxData)]
    <2>1. tx[s] \in Seq(0 .. MaxData) /\ tx \in [Socks -> Seq(0 .. MaxData)]
      BY Zenon DEF IInv, TypeOK
    <2>2. Append(tx[s], 0) \in Seq(0 .. MaxData)
      BY <2>1, ConstantsAssumption
    <2> QED
      BY <1>1, <2>1, <2>2, Zenon
  <1> QED
    BY <1>1, <1>2, <1>3, <1>4, StreamOnly, Zenon

\* What the handlers do to the stack's sockets keeps their type.
LEMMA ExecutedType ==
  ASSUME TypeOK, NEW s \in Socks, NEW r \in Call
  PROVE  Executed(s, r) \subseteq [Socks -> [st : {"none", "open", "bound", "listen", "syn"},
                                             ports : SUBSET (Ports \cup {NoPort})]]
  <1> DEFINE P == [st : {"none", "open", "bound", "listen", "syn"},
                   ports : SUBSET (Ports \cup {NoPort})]
  <1>1. pico \in [Socks -> P]
    BY Zenon DEF TypeOK
  <1>2. r.arg \in Ports \cup {NoPort}
    BY Zenon DEF Call
  <1>3. PicoBind(s, r.arg) \in [Socks -> P]
    BY <1>1, <1>2, ZenonT(60) DEF PicoBind
  <1>4. PicoListen(s) \in [Socks -> P]
    BY <1>1, Zenon DEF PicoListen
  <1>5. PicoConnect(s) \subseteq [Socks -> P]
    BY <1>1, Zenon DEF PicoConnect
  <1> QED
    BY <1>1, <1>3, <1>4, <1>5, Zenon DEF Executed

\* What handleConnect leaves in txbuf has its type.
LEMMA KeptType ==
  ASSUME NEW s, NEW q \in Seq(0 .. MaxData), NEW o \in Kept(s, q)
  PROVE  o \in Seq(0 .. MaxData)
  <1>1. CASE o = q
    BY <1>1, Zenon
  <1>2. CASE o \in Overwritten(s, q)
    <2>1. PICK k : o = [i \in 1 .. Len(q) |-> IF i = k THEN 0 ELSE q[i]]
      BY <1>2, ZenonT(60) DEF Overwritten
    <2>2. 0 \in 0 .. MaxData /\ Len(q) \in Nat /\ \A i \in 1 .. Len(q) : q[i] \in 0 .. MaxData
      BY ConstantsAssumption
    <2>3. o \in [1 .. Len(q) -> 0 .. MaxData]
      BY <2>1, <2>2, ZenonT(60)
    <2>4. \A S : \A l \in Nat : \A f \in [1 .. l -> S] : f \in Seq(S)
      OBVIOUS
    <2> QED
      BY <2>2, <2>3, <2>4, Zenon
  <1> QED
    BY <1>1, <1>2, ZenonT(60) DEF Kept

\* A canary that was read whole is one of the items that were taken.
LEMMA CanaryTaken ==
  ASSUME NEW s, NEW r, NEW k, Taken(s, r, k), NEW p \in 1 .. Len(r.got), r.got[p].k = "canary"
  PROVE  p \in 1 .. k /\ p \in 1 .. Len(up[s]) /\ r.got[p] = up[s][p] /\ up[s][p].k = "canary"
  <1>1. /\ k \in 1 .. Len(up[s])
        /\ \A i \in 1 .. k : r.got[i] = up[s][i]
        /\ Len(r.got) = k \/ (Len(r.got) = k + 1 /\ r.got[k + 1] = Piece("data"))
    BY Zenon DEF Taken
  <1>2. r.got[p] # Piece("data")
    BY DEF Piece
  <1>3. p \in 1 .. k
    <2>1. p # k + 1 \/ Len(r.got) = k
      BY <1>1, <1>2, Zenon
    <2> QED
      BY <1>1, <2>1
  <1>4. p \in 1 .. Len(up[s])
    BY <1>1, <1>3
  <1> QED
    BY <1>1, <1>3, <1>4, Zenon

\* phyOnUnixData with a canary: the job is in the map, its return value goes
\* to the socket of its call, and no other canary names it.
LEMMA OnCanaryInv ==
  ASSUME IInv, NEW s \in Socks, OnCanary(s)
  PROVE  IInv'
  <1> USE ConstantsAssumption
  <1>0. PICK b \in Reads(s) : \E i \in 1 .. Len(b.got) :
          /\ FirstPadding(b.got, i)
          /\ b.got[i].k = "canary"
          /\ IF jobmap[b.got[i].n] = 0 \/ s \notin conns
               THEN UNCHANGED <<tx, down, jobmap, conns, phys, pico, done>>
               ELSE /\ \E q \in Kept(s, tx[s] \o Appended(b.got)) : tx' = [tx EXCEPT ![s] = q]
                    /\ RunJob(s, b.got[i].n)
          /\ up' = [up EXCEPT ![s] = b.left]
    BY ZenonT(60) DEF OnCanary
  <1>1. PICK k \in 1 .. Len(up[s]) : Taken(s, b, k) /\ Consumed(s, k)
    BY <1>0, ReadItems, Zenon DEF OnCanary, IInv
  <1>2. \A i \in 1 .. Len(up[s]) : up[s][i].k # "rpc"
    BY <1>0, <1>1, NoRpc, PaddingNoRpc, ZenonT(60)
  <1>3. PICK p \in 1 .. Len(b.got) :
          /\ FirstPadding(b.got, p)
          /\ b.got[p].k = "canary"
          /\ IF jobmap[b.got[p].n] = 0 \/ s \notin conns
               THEN UNCHANGED <<tx, down, jobmap, conns, phys, pico, done>>
               ELSE /\ \E q \in Kept(s, tx[s] \o Appended(b.got)) : tx' = [tx EXCEPT ![s] = q]
                    /\ RunJob(s, b.got[p].n)
    BY <1>0, ZenonT(60)
  <1>4. p \in 1 .. Len(up[s]) /\ b.got[p] = up[s][p] /\ up[s][p].k = "canary" /\ p \in 1 .. k
    <2>1. Taken(s, b, k) /\ b.got[p].k = "canary"
      BY <1>1, <1>3, Zenon
    <2> QED
      BY <2>1, CanaryTaken, SMTT(60)
  <1>5. PICK c \in Socks : up[s][p].n = c
    BY <1>4, ItemKinds, Zenon DEF IInv
  <1>6. Registered(c)
    BY <1>4, <1>5, ZenonT(60) DEF IInv, Canaries
  <1>7. jobmap[c] = c /\ c # 0
    BY <1>6 DEF Registered, Socks
  <1>8. UNCHANGED appvars /\ Pending'
    BY Zenon DEF OnCanary, IInv, Pending, appvars
  <1>9. /\ tx' \in [Socks -> Seq(0 .. MaxData)]
        /\ up' \in [Socks -> Seq(Item)]
        /\ ready' \subseteq 0 .. MaxSocks
        /\ nacc' = nacc /\ tmpbuf' = tmpbuf /\ tap' = tap
    <2>1. Appended(b.got) \in {<<>>, <<0>>}
      BY <1>3, PaddingNoRpc, ZenonT(60) DEF Appended
    <2>2. tx[s] \in Seq(0 .. MaxData) /\ tx \in [Socks -> Seq(0 .. MaxData)]
      BY Zenon DEF IInv, TypeOK
    <2>3. Appended(b.got) \in Seq(0 .. MaxData)
      <3>1. 0 \in 0 .. MaxData
        OBVIOUS
      <3>2. <<>> \in Seq(0 .. MaxData) /\ <<0>> \in Seq(0 .. MaxData)
        BY <3>1
      <3> QED
        BY <2>1, <3>2, Zenon
    <2>4. tx[s] \o Appended(b.got) \in Seq(0 .. MaxData)
      BY <2>2, <2>3
    <2>5. tx' \in [Socks -> Seq(0 .. MaxData)]
      <3>1. \A q \in Kept(s, tx[s] \o Appended(b.got)) : q \in Seq(0 .. MaxData)
        BY <2>4, KeptType, Zenon
      <3> QED
        BY <1>3, <2>2, <3>1, ZenonT(60)
    <2>6. up' \in [Socks -> Seq(Item)]
      BY <1>1, Zenon DEF Consumed
    <2>7. ready' \subseteq 0 .. MaxSocks
      BY Zenon DEF OnCanary, IInv, TypeOK
    <2>8. nacc' = nacc /\ tmpbuf' = tmpbuf /\ tap' = tap
      BY Zenon DEF OnCanary
    <2> QED
      BY <2>5, <2>6, <2>7, <2>8, Zenon
  <1>10. CASE UNCHANGED <<down, jobmap, conns, phys, pico, done>>
    <2>1. TypeOK'
      BY <1>8, <1>9, <1>10, Zenon DEF appvars, IInv, TypeOK
    <2>2. \A r \in Socks \ {} : jobmap'[r] = jobmap[r] /\ down'[r] = down[r]
      BY <1>10, Zenon
    <2>3. {} \in SUBSET Socks /\ k \in Nat \ {0} /\ conns' = conns
      BY <1>10
    <2> QED
      BY <1>1, <1>2, <1>8, <2>1, <2>2, <2>3, StreamInv, Zenon
  <1>11. CASE /\ tmpbuf # 0
              /\ RunJob(s, c)
    <2>1. PICK r \in Call : r = call[tmpbuf]
      BY <1>11, SMTT(90) DEF IInv, TypeOK, Socks
    <2>2. /\ pico' \in Executed(s, r)
          /\ down' = [down EXCEPT ![c] = @ \o Returned(r.cmd)]
          /\ jobmap' = [jobmap EXCEPT ![c] = 0]
          /\ done' = [done EXCEPT ![c] = r.cmd]
          /\ \/ conns' = conns /\ phys' = phys
             \/ CloseConnection(c)
      BY <1>7, <1>11, <2>1, Zenon DEF RunJob, ReplySock, Erased
    <2>3. c \notin conns
      BY <1>6, Zenon DEF IInv, Conns, Registered
    <2>4. conns' = conns /\ phys' = phys
      BY <2>2, <2>3, Zenon DEF CloseConnection
    <2>5. TypeOK'
      <3>1. down' \in [Socks -> Seq(Reply)]
        <4>1. Returned(r.cmd) \in Seq(Reply)
          <5>1. \/ Returned(r.cmd) = <<>>
                \/ Returned(r.cmd) = <<"ok">>
                \/ Returned(r.cmd) = <<"err">>
            BY Zenon DEF Returned
          <5>2. <<>> \in Seq(Reply) /\ <<"ok">> \in Seq(Reply) /\ <<"err">> \in Seq(Reply)
            BY DEF Reply
          <5> QED
            BY <5>1, <5>2, Zenon
        <4>2. down[c] \in Seq(Reply) /\ down \in [Socks -> Seq(Reply)]
          BY Zenon DEF IInv, TypeOK
        <4>3. down[c] \o Returned(r.cmd) \in Seq(Reply)
          BY <4>1, <4>2, SMTT(90)
        <4> QED
          BY <2>2, <4>2, <4>3, Zenon
      <3>2. /\ jobmap' \in [Socks -> 0 .. MaxSocks]
            /\ done' \in [Socks -> AllCmds \cup {"none"}]
        BY <2>2, SMTT(90) DEF IInv, TypeOK, Call
      <3>3. pico' \in [Socks -> [st : {"none", "open", "bound", "listen", "syn"},
                                 ports : SUBSET (Ports \cup {NoPort})]]
        BY <2>2, ExecutedType, Zenon DEF IInv
      <3> QED
        BY <1>8, <1>9, <2>4, <3>1, <3>2, <3>3, Zenon DEF appvars, IInv, TypeOK
    <2>6. ASSUME NEW r2 \in Socks, NEW i \in 1 .. Len(up'[r2]), up'[r2][i].k = "canary"
          PROVE  up'[r2][i].n # c
      <3>0. up'[r2][i].k \notin {"data", "pad"}
        BY <2>6
      <3>1. PICK j \in 1 .. Len(up[r2]) : /\ up'[r2][i] = up[r2][j]
                                          /\ j = IF r2 = s THEN i + k ELSE i
        BY <1>1, <3>0, Zenon DEF Consumed
      <3>2. SUFFICES ASSUME up[r2][j].n = c
                     PROVE  FALSE
        BY <3>1, Zenon
      <3>3. up[r2][j] \in Item /\ up[s][p] \in Item /\ up[r2][j].k = "canary"
        BY <2>6, <3>1, <1>4, ItemKinds, ZenonT(60) DEF IInv
      <3>4. up[r2][j] = up[s][p]
        BY <3>2, <3>3, <1>4, <1>5, SMTT(90) DEF Item
      <3>5. r2 = s /\ j = p
        BY <3>4, <1>4, ZenonT(60) DEF IInv, Unique
      <3> QED
        BY <1>4, <3>1, <3>5
    <2>7. \A q \in Socks \ {c} : jobmap'[q] = jobmap[q] /\ down'[q] = down[q]
      BY <2>2, Zenon DEF IInv, TypeOK
    <2>8. /\ {c} \in SUBSET Socks /\ k \in Nat \ {0}
          /\ \A d \in {c} : Registered(d)
          /\ \A q \in Socks : \A i \in 1 .. Len(up'[q]) :
               up'[q][i].k = "canary" => up'[q][i].n \notin {c}
      BY <1>6, <2>6
    <2> QED
      BY <1>1, <1>2, <1>8, <2>4, <2>5, <2>7, <2>8, StreamInv, ZenonT(60)
  <1> QED
    BY <1>3, <1>4, <1>5, <1>10, <1>11, Zenon DEF RunJob

\* Every step of the application and of the service keeps the invariant.
LEMMA NextInv ==
  ASSUME IInv, [Next]_vars
  PROVE  IInv'
  <1>1. CASE UNCHANGED vars
    <2>1. UNCHANGED <<appvars, up, down, jobmap, conns, nacc, ready>>
      BY <1>1, Zenon DEF vars, svcvars
    <2>2. TypeOK'
      BY <1>1, Zenon DEF vars, appvars, svcvars, IInv, TypeOK
    <2>3. Pending'
      BY <2>1, Zenon DEF appvars, IInv, Pending
    <2> QED
      BY <2>1, <2>2, <2>3, QuietInv, Zenon
  <1>2. ASSUME NEW t \in Threads, Begin(t) \/ WriteData(t) \/ Client(t)
        PROVE  IInv'
    BY <1>2, BeginInv, WriteDataInv, LockInv, JoinInv, TokenFailsInv, SendRpcInv,
       ReadAckInv, SendCanaryInv, GetRetvalInv, ReadAddrInv DEF Client
  <1>3. ASSUME AddIp \/ RemoveIp \/ Select \/ Accept \/ ReuseStack
        PROVE  IInv'
    BY <1>3, TapInv, SelectInv, AcceptInv, ReuseStackInv, Zenon
  <1>4. ASSUME NEW s \in Socks, Serve(s)
        PROVE  IInv'
    BY <1>4, EofInv, TapInv, OnRpcInv, OnDataInv, OnCanaryInv, OnPaddingInv, Zenon DEF Serve
  <1> QED
    BY <1>1, <1>2, <1>3, <1>4, Zenon DEF Next

============================================================================
