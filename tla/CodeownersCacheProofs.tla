------------------------- MODULE CodeownersCacheProofs -------------------------
(***************************************************************************)
(* What holds of the token manager and of the CODEOWNERS cache on top of   *)
(* it, for any number of callers, installations and repositories.          *)
(***************************************************************************)
EXTENDS CodeownersCache, SequenceTheorems, TLAPS

\* Initially nobody is in line.
LEMMA TokenInitInv == TokenInit => TokenInv
<1> SUFFICES ASSUME TokenInit PROVE TokenInv
  OBVIOUS
<1>1. TokenTypeOK
  BY TokenAssumption, EmptySeq DEF TokenInit, TokenTypeOK
<1>2. InLine
  BY DEF TokenInit, InLine
<1> QED BY <1>1, <1>2 DEF TokenInv

\* A call answered from the cache, or one that gets in line behind all others.
LEMMA GetTokenInv ==
    ASSUME TokenInv, NEW c \in Callers, NEW i \in Installations, GetToken(c, i)
    PROVE  TokenInv'
<1>1. TokenTypeOK'
  <2>1. Append(line[i], c) \in Seq(Callers)
    BY AppendProperties DEF TokenInv, TokenTypeOK
  <2>2. line' \in [Installations -> Seq(Callers)]
    BY <2>1 DEF TokenInv, TokenTypeOK, GetToken
  <2>3. got' \in [Callers -> Int \cup {NoToken}]
    BY DEF TokenInv, TokenTypeOK, GetToken
  <2>4. pc' \in [Callers -> {"idle", "waiting", "fetching", "returned"}]
    BY DEF TokenInv, TokenTypeOK, GetToken
  <2> QED BY <2>2, <2>3, <2>4 DEF TokenInv, TokenTypeOK, GetToken
<1>2. \A j \in Installations : \A k \in DOMAIN line[j] : line[j][k] # c /\ line[j][k] \in Callers
  BY DEF TokenInv, TokenTypeOK, InLine, GetToken
<1>3. CASE Fresh(i)
  <2>1. line' = line /\ pc'[c] = "returned"
    BY <1>3 DEF TokenInv, TokenTypeOK, GetToken
  <2>2. \A d \in Callers : d # c => pc'[d] = pc[d] /\ asked'[d] = asked[d]
    BY DEF TokenInv, TokenTypeOK, GetToken
  <2>3. InLine'
    BY <2>1, <2>2, <1>2 DEF TokenInv, InLine
  <2> QED BY <1>1, <2>3 DEF TokenInv
<1>4. CASE ~Fresh(i)
  <2>1. line' = [line EXCEPT ![i] = Append(line[i], c)]
    BY <1>4 DEF GetToken
  <2>2. \A d \in Callers : d # c => pc'[d] = pc[d] /\ asked'[d] = asked[d]
    BY DEF TokenInv, TokenTypeOK, GetToken
  <2>3. /\ pc'[c] \in {"waiting", "fetching"}
        /\ pc'[c] = "fetching" => line[i] = <<>>
        /\ asked'[c] = i
    BY <1>4 DEF TokenInv, TokenTypeOK, GetToken
  <2> DEFINE n == Len(line[i])
  <2>4. /\ n \in Nat
        /\ DOMAIN line[i] = 1 .. n
        /\ DOMAIN line'[i] = 1 .. (n + 1)
        /\ line'[i][n + 1] = c
        /\ \A k \in 1 .. n : line'[i][k] = line[i][k]
        /\ line[i] = <<>> => n = 0
    BY <2>1, AppendProperties, LenProperties DEF TokenInv, TokenTypeOK
  <2>5. \A j \in Installations : j # i => line'[j] = line[j]
    BY <2>1 DEF TokenInv, TokenTypeOK
  <2>6. \A d \in Callers :
            pc'[d] \in {"waiting", "fetching"} =>
                /\ asked'[d] \in Installations
                /\ \E k \in DOMAIN line'[asked'[d]] : line'[asked'[d]][k] = d
    <3> SUFFICES ASSUME NEW d \in Callers, pc'[d] \in {"waiting", "fetching"}
                 PROVE  /\ asked'[d] \in Installations
                        /\ \E k \in DOMAIN line'[asked'[d]] : line'[asked'[d]][k] = d
      OBVIOUS
    <3>1. CASE d = c
      <4>1. n + 1 \in DOMAIN line'[i] /\ line'[i][n + 1] = c
        BY <2>4
      <4> QED BY <3>1, <4>1, <2>3
    <3>2. CASE d # c
      <4>1. asked'[d] = asked[d] /\ asked[d] \in Installations
        BY <3>2, <2>2 DEF TokenInv, InLine
      <4>2. PICK k \in DOMAIN line[asked[d]] : line[asked[d]][k] = d
        BY <3>2, <2>2 DEF TokenInv, InLine
      <4>3. k \in DOMAIN line'[asked[d]] /\ line'[asked[d]][k] = d
        BY <4>1, <4>2, <2>4, <2>5
      <4> QED BY <4>1, <4>3
    <3> QED BY <3>1, <3>2
  <2>7. ASSUME NEW j \in Installations, NEW k \in DOMAIN line'[j]
        PROVE  /\ asked'[line'[j][k]] = j
               /\ pc'[line'[j][k]] \in {"waiting", "fetching"}
               /\ pc'[line'[j][k]] = "fetching" => k = 1
               /\ \A l \in DOMAIN line'[j] : line'[j][k] = line'[j][l] => k = l
    <3>1. CASE j # i
      BY <3>1, <2>2, <2>5, <1>2 DEF TokenInv, InLine
    <3>2. CASE j = i /\ k = n + 1
      <4>1. \A l \in 1 .. n : line'[i][l] # c
        BY <1>2, <2>4
      <4> QED BY <3>2, <4>1, <2>3, <2>4
    <3>3. CASE j = i /\ k # n + 1
      <4>1. k \in 1 .. n /\ line'[i][k] = line[i][k] /\ line[i][k] # c /\ line[i][k] \in Callers
        BY <3>3, <2>4, <1>2
      <4>2. /\ asked[line[i][k]] = i
            /\ pc[line[i][k]] \in {"waiting", "fetching"}
            /\ pc[line[i][k]] = "fetching" => k = 1
            /\ \A l \in DOMAIN line[i] : line[i][k] = line[i][l] => k = l
        BY <4>1, <2>4 DEF TokenInv, InLine
      <4>3. \A l \in DOMAIN line'[i] : line'[i][k] = line'[i][l] => k = l
        BY <4>1, <4>2, <2>4
      <4> QED BY <3>3, <4>1, <4>2, <4>3, <2>2
    <3> QED BY <3>1, <3>2, <3>3
  <2>8. InLine'
    BY <2>6, <2>7 DEF InLine
  <2> QED BY <1>1, <2>8 DEF TokenInv
<1> QED BY <1>3, <1>4

\* The one at the head of the line leaves it.
LEMMA LeaveInv ==
    ASSUME TokenInv, TokenTypeOK', NEW c \in Callers, NEW i \in Installations,
           NEW result \in Int \cup {NoToken},
           pc[c] \in {"waiting", "fetching"}, asked[c] = i, Head(line[i]) = c,
           Leave(c, i, result), asked' = asked
    PROVE  InLine'
<1> DEFINE n == Len(line[i])
<1>1. line[i] \in Seq(Callers) /\ line[i] # <<>>
  <2>1. PICK k \in DOMAIN line[i] : line[i][k] = c
    BY DEF TokenInv, InLine
  <2> QED BY <2>1 DEF TokenInv, TokenTypeOK
<1>2. line'[i] = Tail(line[i]) /\ \A j \in Installations : j # i => line'[j] = line[j]
  BY DEF TokenInv, TokenTypeOK, Leave
<1>3. /\ n \in Nat
      /\ DOMAIN line[i] = 1 .. n
      /\ DOMAIN line'[i] = 1 .. (n - 1)
      /\ line[i][1] = c
      /\ \A k \in 1 .. (n - 1) : line'[i][k] = line[i][k + 1]
  BY <1>1, <1>2, HeadTailProperties, LenProperties
<1>4. \A d \in Callers : d # c => pc'[d] = pc[d]
  BY DEF TokenInv, TokenTypeOK, Leave
<1>5. pc'[c] = "returned"
  BY DEF TokenInv, TokenTypeOK, Leave
<1>6. ASSUME NEW d \in Callers, pc'[d] \in {"waiting", "fetching"}
      PROVE  /\ asked'[d] \in Installations
             /\ \E k \in DOMAIN line'[asked'[d]] : line'[asked'[d]][k] = d
  <2>1. d # c /\ pc[d] = pc'[d]
    BY <1>4, <1>5, <1>6
  <2>2. asked[d] \in Installations
    BY <2>1, <1>6 DEF TokenInv, InLine
  <2>3. PICK k \in DOMAIN line[asked[d]] : line[asked[d]][k] = d
    BY <2>1, <1>6 DEF TokenInv, InLine
  <2>4. CASE asked[d] # i
    BY <2>2, <2>3, <2>4, <1>2
  <2>5. CASE asked[d] = i
    <3>1. k # 1 /\ k \in 1 .. n
      BY <2>1, <2>3, <2>5, <1>3
    <3>2. k - 1 \in 1 .. (n - 1) /\ line'[i][k - 1] = line[i][k]
      BY <3>1, <1>3
    <3> QED BY <3>2, <2>2, <2>3, <2>5, <1>3
  <2> QED BY <2>4, <2>5
<1>7. ASSUME NEW j \in Installations, NEW k \in DOMAIN line'[j]
      PROVE  /\ asked'[line'[j][k]] = j
             /\ pc'[line'[j][k]] \in {"waiting", "fetching"}
             /\ pc'[line'[j][k]] = "fetching" => k = 1
             /\ \A l \in DOMAIN line'[j] : line'[j][k] = line'[j][l] => k = l
  <2>1. CASE j # i
    <3>1. line'[j] = line[j] /\ k \in DOMAIN line[j] /\ line[j][k] \in Callers
      BY <2>1, <1>2 DEF TokenInv, TokenTypeOK
    <3>2. line[j][k] # c
      BY <2>1, <3>1 DEF TokenInv, InLine
    <3> QED BY <3>1, <3>2, <1>4 DEF TokenInv, InLine
  <2>2. CASE j = i
    <3>1. k \in 1 .. (n - 1) /\ k + 1 \in 1 .. n /\ line'[i][k] = line[i][k + 1]
      BY <2>2, <1>3
    <3>2. /\ line[i][k + 1] \in Callers
          /\ asked[line[i][k + 1]] = i
          /\ pc[line[i][k + 1]] \in {"waiting", "fetching"}
          /\ pc[line[i][k + 1]] = "fetching" => k + 1 = 1
          /\ \A l \in 1 .. n : line[i][k + 1] = line[i][l] => k + 1 = l
      BY <3>1, <1>1, <1>3 DEF TokenInv, InLine
    <3>3. line[i][k + 1] # c
      BY <3>1, <3>2, <1>3
    <3>4. \A l \in 1 .. (n - 1) : line'[i][k] = line'[i][l] => k = l
      BY <3>1, <3>2, <1>3
    <3> QED BY <2>2, <3>1, <3>2, <3>3, <3>4, <1>3, <1>4
  <2> QED BY <2>1, <2>2
<1> QED BY <1>6, <1>7 DEF InLine

\* The others: each leaves the line from its head, or does not touch it.
LEMMA ContinueInv ==
    ASSUME TokenInv, NEW c \in Callers, Continue(c)
    PROVE  TokenInv'
<1>1. CASE Resume(c)
  <2>1. CASE Fresh(asked[c])
    <3>1. asked[c] \in Installations /\ Leave(c, asked[c], token[asked[c]])
      BY <1>1, <2>1 DEF Resume, TokenInv, InLine
    <3>2. token[asked[c]] \in Int \cup {NoToken}
      BY <3>1 DEF TokenInv, TokenTypeOK
    <3>3. Head(line[asked[c]]) = c /\ pc[c] = "waiting" /\ UNCHANGED <<now, token, asked>>
      BY <1>1 DEF Resume
    <3>4. line[asked[c]] \in Seq(Callers) /\ line[asked[c]] # <<>>
      BY <3>1, <3>3 DEF TokenInv, TokenTypeOK, InLine
    <3>5. TokenTypeOK'
      BY <3>1, <3>2, <3>3, <3>4, HeadTailProperties DEF TokenInv, TokenTypeOK, Leave
    <3>6. InLine'
      BY <3>1, <3>2, <3>3, <3>5, LeaveInv
    <3> QED BY <3>5, <3>6 DEF TokenInv
  <2>2. CASE ~Fresh(asked[c])
    <3>1. /\ asked[c] \in Installations
          /\ Head(line[asked[c]]) = c /\ pc[c] = "waiting"
          /\ pc' = [pc EXCEPT ![c] = "fetching"]
          /\ UNCHANGED <<now, token, line, asked, got>>
      BY <1>1, <2>2 DEF Resume, TokenInv, InLine
    <3>2. TokenTypeOK'
      BY <3>1 DEF TokenInv, TokenTypeOK
    <3>3. \A d \in Callers : d # c => pc'[d] = pc[d]
      BY <3>1 DEF TokenInv, TokenTypeOK
    <3>4. pc'[c] = "fetching"
      BY <3>1 DEF TokenInv, TokenTypeOK
    <3>5. line[asked[c]][1] = c /\ 1 \in DOMAIN line[asked[c]]
      BY <3>1, HeadTailProperties, LenProperties DEF TokenInv, TokenTypeOK, InLine
    <3>6. \A j \in Installations : \A k \in DOMAIN line[j] :
            line[j][k] \in Callers /\ (line[j][k] = c => j = asked[c] /\ k = 1)
      BY <3>1, <3>5 DEF TokenInv, TokenTypeOK, InLine
    <3>7. InLine'
      BY <3>1, <3>3, <3>4, <3>6 DEF TokenInv, InLine
    <3> QED BY <3>2, <3>7 DEF TokenInv
  <2> QED BY <2>1, <2>2
<1>2. CASE FetchDone(c) \/ FetchFails(c)
  <2>1. pc[c] = "fetching" /\ asked' = asked /\ now' = now
    BY <1>2 DEF FetchDone, FetchFails
  <2>2. asked[c] \in Installations
    BY <2>1 DEF TokenInv, InLine
  <2>3. PICK result \in Int \cup {NoToken} :
            /\ Leave(c, asked[c], result)
            /\ token' \in [Installations -> Int \cup {NoToken}]
    <3>1. CASE FetchFails(c)
      BY <3>1 DEF FetchFails, TokenInv, TokenTypeOK
    <3>2. CASE FetchDone(c)
      <4>1. PICK lifetime \in Lifetimes :
                /\ token' = [token EXCEPT ![asked[c]] = now + lifetime]
                /\ Leave(c, asked[c], now + lifetime)
        BY <3>2 DEF FetchDone
      <4>2. now + lifetime \in Int
        BY TokenAssumption DEF TokenInv, TokenTypeOK
      <4> QED BY <4>1, <4>2 DEF TokenInv, TokenTypeOK
    <3> QED BY <1>2, <3>1, <3>2
  <2>4. line[asked[c]] \in Seq(Callers) /\ line[asked[c]] # <<>> /\ Head(line[asked[c]]) = c
    BY <2>1, <2>2, HeadTailProperties DEF TokenInv, TokenTypeOK, InLine
  <2>5. TokenTypeOK'
    BY <2>1, <2>3, <2>4, HeadTailProperties DEF TokenInv, TokenTypeOK, Leave
  <2>6. InLine'
    BY <2>1, <2>2, <2>3, <2>4, <2>5, LeaveInv
  <2> QED BY <2>5, <2>6 DEF TokenInv
<1> QED BY <1>1, <1>2 DEF Continue

\* The inductive step.
LEMMA TokenStepInv == TokenInv /\ [TokenNext]_tokenVars => TokenInv'
<1> SUFFICES ASSUME TokenInv, [TokenNext]_tokenVars PROVE TokenInv'
  OBVIOUS
<1>1. CASE \E c \in Callers, i \in Installations : GetToken(c, i)
  BY <1>1, GetTokenInv
<1>2. CASE \E c \in Callers : Continue(c)
  BY <1>2, ContinueInv
<1>3. ASSUME NEW c \in Callers, Forget(c) PROVE TokenInv'
  <2>1. TokenTypeOK'
    BY <1>3 DEF Forget, TokenInv, TokenTypeOK
  <2>2. /\ line' = line /\ pc[c] = "returned" /\ pc'[c] = "idle"
        /\ \A d \in Callers : d # c => pc'[d] = pc[d] /\ asked'[d] = asked[d]
    BY <1>3 DEF Forget, TokenInv, TokenTypeOK
  <2>3. \A i \in Installations : \A k \in DOMAIN line[i] : line[i][k] # c /\ line[i][k] \in Callers
    BY <2>2 DEF TokenInv, TokenTypeOK, InLine
  <2>4. InLine'
    BY <2>2, <2>3 DEF TokenInv, InLine
  <2> QED BY <2>1, <2>4 DEF TokenInv
<1>4. CASE Tick
  BY <1>4, TokenAssumption DEF Tick, TokenInv, TokenTypeOK, InLine
<1>5. CASE UNCHANGED tokenVars
  BY <1>5 DEF tokenVars, TokenInv, TokenTypeOK, InLine
<1> QED BY <1>1, <1>2, <1>3, <1>4, <1>5 DEF TokenNext

\* The lock works: the invariant of the token manager holds.
LEMMA TokenInvariant == TokenSpec => []TokenInv
<1> QED BY TokenInitInv, TokenStepInv, PTL DEF TokenSpec

-------------------------------------------------------------------------------

\* A step of the cache is a step of the token manager, or none.
LEMMA StepOfTokens ==
    ASSUME TypeOK, [Next]_vars
    PROVE  [TokenNext]_tokenVars
<1>1. ASSUME NEW c \in Callers, NEW r \in Repos, LookUp(c, r) PROVE TokenNext
  BY <1>1, CodeownersAssumption DEF LookUp, AskFor, TokenNext
<1>2. ASSUME NEW c \in Callers, NEW i \in Installations, OtherRequest(c, i) PROVE TokenNext
  BY <1>2 DEF OtherRequest, TokenNext
<1>3. ASSUME NEW c \in Callers, Proceed(c) PROVE TokenNext \/ UNCHANGED tokenVars
  <2>1. CASE Continue(c)
    BY <2>1 DEF TokenNext
  <2>2. CASE Return(c)
    BY <2>2 DEF Return, TokenNext
  <2>3. CASE Store(c)
    BY <2>3 DEF Store, TokenNext
  <2>4. CASE NextPath(c)
    <3> DEFINE next == [call[c] EXCEPT !.path = @ + 1, !.read = NotRead]
    <3>1. call[c] \in Call
      BY <2>4 DEF NextPath, TypeOK
    <3>2. next.repo = call[c].repo /\ call[c].repo \in Repos
      BY <3>1 DEF Call
    <3>3. InstallationOf[call[c].repo] \in Installations
      BY <3>2, CodeownersAssumption
    <3>4. GetToken(c, InstallationOf[next.repo])
      BY <2>4 DEF NextPath, AskFor
    <3> QED BY <3>2, <3>3, <3>4 DEF TokenNext
  <2>5. CASE ReadFile(c)
    BY <2>5 DEF ReadFile
  <2> QED BY <1>3, <2>1, <2>2, <2>3, <2>4, <2>5 DEF Proceed
<1>4. ASSUME NEW r \in Repos, NEW layout \in Layouts, Push(r, layout) PROVE UNCHANGED tokenVars
  BY <1>4 DEF Push
<1>5. CASE Tick
  BY <1>5 DEF TokenNext
<1>6. CASE UNCHANGED vars
  BY <1>6 DEF vars
<1> QED BY <1>1, <1>2, <1>3, <1>4, <1>5, <1>6 DEF Next

\* Of the places of a repository, the first that has a file is the one in effect.
LEMMA FirstFound ==
    ASSUME TypeOK, NEW r \in Repos, NEW p \in Paths,
           \A q \in Paths : q < p => files[r][q] = Absent,
           files[r][p] # Absent \/ p = 3
    PROVE  InEffect(r) = files[r][p]
<1> DEFINE found == {q \in Paths : files[r][q] # Absent}
<1>1. CASE files[r][p] # Absent
  <2>1. p \in found /\ \A q \in found : p <= q
    BY <1>1 DEF Paths
  <2>2. \A q \in found : (\A s \in found : q <= s) => q = p
    BY <2>1 DEF Paths
  <2>3. (CHOOSE q \in found : \A s \in found : q <= s) = p
    BY <2>1, <2>2
  <2> QED BY <2>1, <2>3 DEF InEffect
<1>2. CASE files[r][p] = Absent
  <2>1. \A q \in Paths : files[r][q] = Absent
    BY <1>2 DEF Paths
  <2> QED BY <1>2, <2>1 DEF InEffect
<1> QED BY <1>1, <1>2

\* Initially nothing is cached and nobody has read anything.
LEMMA CacheInit == Init => CacheInv
<1> SUFFICES ASSUME Init PROVE CacheInv
  OBVIOUS
<1>1. TokenInv
  BY TokenInitInv DEF Init
<1>2. TypeOK
  BY <1>1, CodeownersAssumption DEF Init, TypeOK, TokenInv, File
<1>3. FreshReads
  BY CodeownersAssumption DEF Init, TokenInit, FreshReads
<1> QED BY <1>1, <1>2, <1>3 DEF CacheInv, TokenInv

\* The variables of the cache keep their types.
LEMMA CacheTypes ==
    ASSUME CacheInv, [Next]_vars
    PROVE  TypeOK' /\ InLine'
<1>1. TokenInv'
  BY StepOfTokens, TokenStepInv DEF CacheInv, TypeOK, TokenInv
<1> DEFINE Others == /\ files' \in [Repos -> [Paths -> File]]
                     /\ pushes' \in 0..MaxPushes
                     /\ pushed' \in [Repos -> Int]
                     /\ rules' \in [Repos -> File \cup {NoRules}]
                     /\ until' \in [Repos -> Int]
                     /\ call' \in [Callers -> Call \cup {NoCall}]
<1> USE CodeownersAssumption
<1>2. now \in Int
  BY DEF CacheInv, TypeOK, TokenTypeOK
<1>3. ASSUME NEW c \in Callers, NEW r \in Repos, LookUp(c, r) PROVE Others
  <2>1. [repo |-> r, since |-> now, path |-> 1, read |-> NotRead] \in Call
    BY <1>2 DEF Call, Paths
  <2> QED BY <2>1, <1>3 DEF LookUp, AskFor, CacheInv, TypeOK, world, cacheVars
<1>4. ASSUME NEW c \in Callers, NEW i \in Installations, OtherRequest(c, i) PROVE Others
  BY <1>4 DEF OtherRequest, CacheInv, TypeOK, world, cacheVars
<1>5. ASSUME NEW c \in Callers, Proceed(c) PROVE Others
  <2>1. CASE Continue(c) /\ UNCHANGED <<world, cacheVars, call>>
    BY <2>1 DEF CacheInv, TypeOK, world, cacheVars
  <2>2. CASE Return(c)
    BY <2>2 DEF Return, CacheInv, TypeOK, world, cacheVars
  <2>3. CASE ReadFile(c)
    <3> DEFINE content == files[call[c].repo][call[c].path]
    <3>1. call[c] \in Call /\ UNCHANGED <<world, cacheVars>>
      BY <2>3 DEF ReadFile, CacheInv, TypeOK
    <3>2. content \in File
      BY <3>1 DEF Call, CacheInv, TypeOK
    <3>3. [call[c] EXCEPT !.read = content] \in Call
      BY <3>1, <3>2 DEF Call
    <3>4. call' = [call EXCEPT ![c] = [call[c] EXCEPT !.read = content]]
      BY <2>3 DEF ReadFile
    <3> QED BY <3>1, <3>3, <3>4 DEF CacheInv, TypeOK, world, cacheVars
  <2>4. CASE NextPath(c)
    <3> DEFINE next == [call[c] EXCEPT !.path = @ + 1, !.read = NotRead]
    <3>1. /\ call[c] \in Call /\ call[c].path + 1 \in Paths
          /\ call' = [call EXCEPT ![c] = next]
          /\ UNCHANGED <<world, cacheVars>>
      BY <2>4 DEF NextPath, AskFor, CacheInv, TypeOK
    <3>2. next \in Call
      BY <3>1 DEF Call
    <3> QED BY <3>1, <3>2 DEF CacheInv, TypeOK, world, cacheVars
  <2>5. CASE Store(c)
    <3> DEFINE r == call[c].repo
    <3>1. call[c] \in Call /\ call[c].read # NotRead /\ UNCHANGED world
      BY <2>5 DEF Store, CacheInv, TypeOK
    <3>2. r \in Repos /\ call[c].since \in Int /\ call[c].read \in File
      BY <3>1 DEF Call
    <3>3. /\ rules' = [rules EXCEPT ![r] = call[c].read]
          /\ until' = [until EXCEPT ![r] = call[c].since + TTL]
          /\ call' = [call EXCEPT ![c] = NoCall]
      BY <2>5 DEF Store
    <3> QED BY <3>1, <3>2, <3>3 DEF CacheInv, TypeOK, world
  <2> QED BY <1>5, <2>1, <2>2, <2>3, <2>4, <2>5 DEF Proceed
<1>6. ASSUME NEW r \in Repos, NEW layout \in Layouts, Push(r, layout) PROVE Others
  BY <1>6, <1>2 DEF Push, CacheInv, TypeOK, cacheVars
<1>7. ASSUME UNCHANGED <<world, cacheVars, call>> PROVE Others
  BY <1>7 DEF CacheInv, TypeOK, world, cacheVars
<1>8. ASSUME UNCHANGED vars PROVE Others
  BY <1>7, <1>8 DEF vars
<1> HIDE DEF Others
<1>9. Others
  BY <1>3, <1>4, <1>5, <1>6, <1>7, <1>8 DEF Next
<1> QED BY <1>1, <1>9 DEF TypeOK, TokenInv, Others

\* What is cached, and being read, stays as fresh as it was.
LEMMA CacheFresh ==
    ASSUME CacheInv, [Next]_vars, TypeOK'
    PROVE  FreshReads'
<1> USE CodeownersAssumption
<1>1. /\ now \in Int /\ TTL \in Nat
      /\ \A r \in Repos : pushed[r] \in Int /\ until[r] \in Int
      /\ \A c \in Callers : call[c] # NoCall =>
            /\ call[c].repo \in Repos /\ call[c].since \in Int /\ call[c].path \in Paths
            /\ call[c].read \in File \cup {NotRead}
  BY DEF CacheInv, TypeOK, TokenTypeOK, Call
<1> DEFINE Sees(c) ==
               /\ call'[c].since <= now'
               /\ call'[c].since > pushed'[call'[c].repo] =>
                    /\ \A p \in Paths : p < call'[c].path => files'[call'[c].repo][p] = Absent
                    /\ call'[c].read \in {NotRead, files'[call'[c].repo][call'[c].path]}
           Calls == \A c \in Callers : call'[c] # NoCall => Sees(c)
           Cached == \A r \in Repos : rules'[r] # NoRules =>
                        /\ until'[r] - TTL <= now'
                        /\ until'[r] - TTL > pushed'[r] => rules'[r] = InEffect(r)'
           Pushed == \A r \in Repos : pushed'[r] <= now'
<1>2. ASSUME UNCHANGED <<world, cacheVars>>, now' = now PROVE Cached /\ Pushed
  <2>1. UNCHANGED <<rules, until, pushed, files>>
    BY <1>2 DEF world, cacheVars
  <2>2. \A r \in Repos : InEffect(r)' = InEffect(r)
    BY <2>1 DEF InEffect
  <2>3. Pushed
    BY <1>2, <2>1 DEF CacheInv, FreshReads
  <2>4. Cached
    BY <1>2, <2>1, <2>2 DEF CacheInv, FreshReads
  <2> QED
    BY <2>3, <2>4
<1>3. ASSUME NEW c \in Callers, NEW r \in Repos, LookUp(c, r) PROVE Calls /\ Cached /\ Pushed
  <2>1. /\ call' = [call EXCEPT ![c] = [repo |-> r, since |-> now, path |-> 1, read |-> NotRead]]
        /\ UNCHANGED <<world, cacheVars>>
        /\ now' = now
    BY <1>3 DEF LookUp, AskFor, GetToken
  <2>2. ASSUME NEW d \in Callers, call'[d] # NoCall PROVE Sees(d)
    <3>1. CASE d = c
      <4>1. call'[d] = [repo |-> r, since |-> now, path |-> 1, read |-> NotRead]
        BY <2>1, <3>1 DEF CacheInv, TypeOK
      <4>2. \A p \in Paths : ~(p < 1)
        BY DEF Paths
      <4> QED BY <2>1, <4>1, <4>2, <1>1
    <3>2. CASE d # c
      <4>1. call'[d] = call[d] /\ files' = files /\ pushed' = pushed
        BY <2>1, <3>2 DEF CacheInv, TypeOK, world
      <4> QED BY <2>1, <2>2, <4>1 DEF CacheInv, FreshReads
    <3> QED BY <3>1, <3>2
  <2> QED BY <1>2, <2>1, <2>2
<1>4. ASSUME NEW c \in Callers, NEW i \in Installations, OtherRequest(c, i)
      PROVE  Calls /\ Cached /\ Pushed
  <2>1. UNCHANGED <<world, cacheVars, call>> /\ now' = now
    BY <1>4 DEF OtherRequest, GetToken
  <2>2. Calls
    BY <2>1 DEF CacheInv, FreshReads, world
  <2> QED BY <1>2, <2>1, <2>2
<1>5. ASSUME NEW c \in Callers, Proceed(c) PROVE Calls /\ Cached /\ Pushed
  <2>1. CASE Continue(c) /\ UNCHANGED <<world, cacheVars, call>>
    <3>1. now' = now
      BY <2>1 DEF Continue, Resume, FetchDone, FetchFails
    <3>2. Calls
      BY <2>1, <3>1 DEF CacheInv, FreshReads, world
    <3> QED BY <1>2, <2>1, <3>1, <3>2
  <2>2. CASE Return(c)
    <3>1. /\ call' = [call EXCEPT ![c] = NoCall]
          /\ UNCHANGED <<world, cacheVars>>
          /\ now' = now
      BY <2>2 DEF Return, Forget
    <3>2. \A d \in Callers : call'[d] # NoCall => call'[d] = call[d]
      BY <3>1 DEF CacheInv, TypeOK
    <3>3. Calls
      BY <3>1, <3>2 DEF CacheInv, FreshReads, world
    <3> QED BY <1>2, <3>1, <3>3
  <2>3. ASSUME NEW locals \in Call, call' = [call EXCEPT ![c] = locals], call[c] # NoCall,
               UNCHANGED <<world, cacheVars>>, now' = now,
               locals.repo = call[c].repo, locals.since = call[c].since,
               call[c].since > pushed[call[c].repo] =>
                   /\ \A p \in Paths : p < locals.path => files[call[c].repo][p] = Absent
                   /\ locals.read \in {NotRead, files[call[c].repo][locals.path]}
        PROVE  Calls
    <3> SUFFICES ASSUME NEW d \in Callers, call'[d] # NoCall PROVE Sees(d)
      OBVIOUS
    <3>1. CASE d = c
      <4>1. call'[c] = locals
        BY <2>3 DEF CacheInv, TypeOK
      <4>2. call[c].since <= now
        BY <2>3 DEF CacheInv, FreshReads
      <4> QED BY <3>1, <4>1, <4>2, <2>3 DEF world
    <3>2. CASE d # c
      <4>1. call'[d] = call[d] /\ files' = files /\ pushed' = pushed
        BY <2>3, <3>2 DEF CacheInv, TypeOK, world
      <4> QED BY <2>3, <4>1 DEF CacheInv, FreshReads
    <3> QED BY <3>1, <3>2
  <2>4. CASE ReadFile(c)
    <3> DEFINE locals == [call[c] EXCEPT !.read = files[call[c].repo][call[c].path]]
    <3>1. /\ call[c] # NoCall /\ call[c] \in Call
          /\ call' = [call EXCEPT ![c] = locals]
          /\ UNCHANGED <<world, cacheVars>> /\ now' = now
      BY <2>4 DEF ReadFile, CacheInv, TypeOK, tokenVars
    <3>2. /\ locals \in Call /\ locals.repo = call[c].repo /\ locals.since = call[c].since
          /\ locals.path = call[c].path /\ locals.read = files[call[c].repo][call[c].path]
      <4>1. files[call[c].repo][call[c].path] \in File
        BY <3>1, <1>1 DEF CacheInv, TypeOK
      <4> QED BY <3>1, <4>1 DEF Call
    <3>3. call[c].since > pushed[call[c].repo] =>
            \A p \in Paths : p < call[c].path => files[call[c].repo][p] = Absent
      BY <3>1 DEF CacheInv, FreshReads
    <3> HIDE DEF locals
    <3>4. Calls
      BY <3>1, <3>2, <3>3, <2>3
    <3> QED BY <1>2, <3>1, <3>4
  <2>5. CASE NextPath(c)
    <3> DEFINE locals == [call[c] EXCEPT !.path = @ + 1, !.read = NotRead]
    <3>1. /\ call[c] # NoCall /\ call[c] \in Call /\ call[c].read = Absent
          /\ call[c].path \in Paths /\ call[c].path + 1 \in Paths
          /\ call' = [call EXCEPT ![c] = locals]
          /\ UNCHANGED <<world, cacheVars>> /\ now' = now
      BY <2>5, <1>1 DEF NextPath, AskFor, GetToken, CacheInv, TypeOK
    <3>2. /\ locals \in Call /\ locals.repo = call[c].repo /\ locals.since = call[c].since
          /\ locals.path = call[c].path + 1 /\ locals.read = NotRead
      BY <3>1 DEF Call
    <3>3. call[c].since > pushed[call[c].repo] =>
            \A p \in Paths : p < call[c].path + 1 => files[call[c].repo][p] = Absent
      <4>1. \A p \in Paths : p < call[c].path + 1 => p < call[c].path \/ p = call[c].path
        BY <3>1 DEF Paths
      <4>2. Absent # NotRead
        BY DEF File
      <4> QED BY <3>1, <4>1, <4>2 DEF CacheInv, FreshReads
    <3> HIDE DEF locals
    <3>4. Calls
      BY <3>1, <3>2, <3>3, <2>3
    <3> QED BY <1>2, <3>1, <3>4
  <2>6. CASE Store(c)
    <3> DEFINE r == call[c].repo
               path == call[c].path
               content == call[c].read
    <3>1. /\ call[c] # NoCall /\ content # NotRead
          /\ content # Absent \/ path + 1 \notin Paths
          /\ UNCHANGED world /\ now' = now
      BY <2>6 DEF Store, Forget
    <3>2. r \in Repos /\ call[c].since \in Int /\ path \in Paths /\ content \in File
      BY <3>1, <1>1
    <3>3. /\ call[c].since <= now
          /\ call[c].since > pushed[r] =>
                /\ \A p \in Paths : p < path => files[r][p] = Absent
                /\ content = files[r][path]
      BY <3>1 DEF CacheInv, FreshReads
    <3>4. /\ rules' = [rules EXCEPT ![r] = content]
          /\ until' = [until EXCEPT ![r] = call[c].since + TTL]
          /\ call' = [call EXCEPT ![c] = NoCall]
      BY <2>6 DEF Store
    <3>5. \A d \in Callers : call'[d] # NoCall => call'[d] = call[d]
      BY <3>4 DEF CacheInv, TypeOK
    <3>6. Calls
      BY <3>1, <3>5 DEF CacheInv, FreshReads, world
    <3>7. ASSUME NEW q \in Repos, rules'[q] # NoRules
          PROVE  /\ until'[q] - TTL <= now'
                 /\ until'[q] - TTL > pushed'[q] => rules'[q] = InEffect(q)'
      <4>1. InEffect(q)' = InEffect(q) /\ pushed' = pushed
        BY <3>1 DEF InEffect, world
      <4>2. CASE q = r
        <5>1. until'[r] = call[c].since + TTL /\ rules'[r] = content
          BY <3>4, <3>2 DEF CacheInv, TypeOK
        <5>2. until'[r] - TTL = call[c].since
          BY <5>1, <3>2, <1>1
        <5>3. content # Absent \/ path = 3
          BY <3>1, <3>2 DEF Paths
        <5>4. call[c].since > pushed[r] => InEffect(r) = content
          BY <3>2, <3>3, <5>3, FirstFound DEF CacheInv
        <5> QED BY <4>1, <4>2, <5>1, <5>2, <5>4, <3>1, <3>3
      <4>3. CASE q # r
        <5>1. until'[q] = until[q] /\ rules'[q] = rules[q]
          BY <3>4, <4>3 DEF CacheInv, TypeOK
        <5> QED BY <4>1, <5>1, <3>1, <3>7 DEF CacheInv, FreshReads
      <4> QED BY <4>2, <4>3
    <3>8. Pushed
      BY <3>1 DEF CacheInv, FreshReads, world
    <3> QED BY <3>6, <3>7, <3>8
  <2> QED BY <1>5, <2>1, <2>2, <2>4, <2>5, <2>6 DEF Proceed
<1>6. ASSUME NEW r \in Repos, NEW layout \in Layouts, Push(r, layout)
      PROVE  Calls /\ Cached /\ Pushed
  <2>1. /\ pushed'[r] = now
        /\ \A q \in Repos : q # r => pushed'[q] = pushed[q] /\ files'[q] = files[q]
        /\ now' = now /\ call' = call /\ rules' = rules /\ until' = until
    BY <1>6 DEF Push, CacheInv, TypeOK, tokenVars, cacheVars
  <2>2. Pushed
    BY <2>1, <1>1 DEF CacheInv, FreshReads
  <2>3. ASSUME NEW d \in Callers, call'[d] # NoCall PROVE Sees(d)
    <3>1. /\ call'[d] = call[d] /\ call[d].repo \in Repos /\ call[d].since \in Int
          /\ call[d].since <= now
      BY <2>1, <2>3, <1>1 DEF CacheInv, FreshReads
    <3>2. CASE call[d].repo = r
      BY <2>1, <3>1, <3>2, <1>1
    <3>3. CASE call[d].repo # r
      BY <2>1, <2>3, <3>1, <3>3 DEF CacheInv, FreshReads
    <3> QED BY <3>2, <3>3
  <2>4. ASSUME NEW q \in Repos, q # r PROVE InEffect(q)' = InEffect(q)
    <3> DEFINE found == {p \in Paths : files[q][p] # Absent}
               first == CHOOSE p \in found : \A s \in found : p <= s
    <3>1. files'[q] = files[q]
      BY <2>1, <2>4
    <3>2. found' = found
      BY <3>1
    <3> HIDE DEF found
    <3>3. first' = first
      BY <3>2
    <3> QED BY <3>1, <3>2, <3>3 DEF InEffect, found
  <2>5. Cached
    BY <2>1, <2>4, <1>1 DEF CacheInv, FreshReads
  <2> QED BY <2>2, <2>3, <2>5
<1>7. CASE Tick /\ UNCHANGED <<world, cacheVars, call>>
  <2>1. now' = now + 1
    BY <1>7 DEF Tick
  <2>2. \A r \in Repos : InEffect(r)' = InEffect(r)
    BY <1>7 DEF InEffect, world
  <2> QED BY <1>7, <2>1, <2>2, <1>1 DEF CacheInv, FreshReads, world, cacheVars
<1>8. CASE UNCHANGED vars
  <2>1. \A r \in Repos : InEffect(r)' = InEffect(r)
    BY <1>8 DEF InEffect, vars, world
  <2> QED BY <1>8, <2>1 DEF CacheInv, FreshReads, vars, tokenVars, world, cacheVars
<1>9. Calls /\ Cached /\ Pushed
  BY <1>3, <1>4, <1>5, <1>6, <1>7, <1>8 DEF Next, CacheInv, FreshReads
<1> QED BY <1>9 DEF FreshReads

\* The invariant of the cache holds.
LEMMA CacheInvariant == Spec => []CacheInv
<1>1. CacheInv /\ [Next]_vars => CacheInv'
  BY CacheTypes, CacheFresh DEF CacheInv
<1> QED BY CacheInit, <1>1, PTL DEF Spec

-------------------------------------------------------------------------------

\* All variables of the two caches keep their types, for any number of callers,
\* repositories and pushes.
THEOREM CacheTypeCorrect == Spec => []TypeOK
<1>1. CacheInv => TypeOK
  BY DEF CacheInv
<1> QED BY CacheInvariant, <1>1, PTL

\* The cache calls get_token as the token manager expects, whatever it does between
\* two calls (codeowners_provider.py on top of token_manager.py).
THEOREM CacheUsesTokenManager == Spec => UsesTokenManager
<1>1. Init => TokenInit
  BY DEF Init
<1>2. TypeOK /\ [Next]_vars => [TokenNext]_tokenVars
  BY StepOfTokens
<1> QED BY CacheTypeCorrect, <1>1, <1>2, PTL DEF Spec, UsesTokenManager, TokenSpec

\* token_manager.py never has two requests for the token of one installation under
\* way, however many coroutines want it and however requests fail.
THEOREM FetchesOneToken == Spec => []OneFetch
<1>1. TokenInv => OneFetch
  <2> SUFFICES ASSUME TokenInv, NEW i \in Installations,
                      NEW c \in Fetching(i), NEW d \in Fetching(i)
               PROVE  c = d
    BY DEF OneFetch
  <2>1. PICK k \in DOMAIN line[i] : line[i][k] = c
    BY DEF Fetching, TokenInv, InLine
  <2>2. PICK l \in DOMAIN line[i] : line[i][l] = d
    BY DEF Fetching, TokenInv, InLine
  <2>3. k = 1 /\ l = 1
    BY <2>1, <2>2 DEF Fetching, TokenInv, InLine
  <2> QED BY <2>1, <2>2, <2>3
<1> QED BY CacheUsesTokenManager, TokenInvariant, <1>1, PTL DEF UsesTokenManager

\* A request for a token is made only when no usable one is cached.
THEOREM FetchesWhenStale == Spec => FetchOnlyWhenStale
<1>1. TokenInv /\ [TokenNext]_tokenVars =>
        (\A c \in Callers : pc[c] # "fetching" /\ pc'[c] = "fetching" => ~Fresh(asked'[c]))
  <2> SUFFICES ASSUME TokenInv, TokenNext, NEW c \in Callers,
                      pc[c] # "fetching", pc'[c] = "fetching"
               PROVE  ~Fresh(asked'[c])
    BY DEF tokenVars
  <2>1. ASSUME NEW d \in Callers, NEW i \in Installations, GetToken(d, i)
        PROVE  ~Fresh(asked'[c])
    BY <2>1 DEF GetToken, TokenInv, TokenTypeOK
  <2>2. ASSUME NEW d \in Callers, Continue(d) PROVE ~Fresh(asked'[c])
    BY <2>2 DEF Continue, Resume, FetchDone, FetchFails, Leave, TokenInv, TokenTypeOK
  <2>3. ASSUME NEW d \in Callers, Forget(d) PROVE ~Fresh(asked'[c])
    BY <2>3 DEF Forget, TokenInv, TokenTypeOK
  <2>4. CASE Tick
    BY <2>4 DEF Tick
  <2> QED BY <2>1, <2>2, <2>3, <2>4 DEF TokenNext
<1> QED BY CacheUsesTokenManager, TokenInvariant, <1>1, PTL
        DEF UsesTokenManager, TokenSpec, FetchOnlyWhenStale

\* A token from the cache lives for longer than the skew when it is handed out.
THEOREM HandsOutLastingTokens == Spec => CachedTokensLast
<1>1. TokenInv /\ [TokenNext]_tokenVars =>
        (\A c \in Callers :
            pc[c] # "fetching" /\ got'[c] \notin {got[c], NoToken} => got'[c] > now + Skew)
  <2> SUFFICES ASSUME TokenInv, TokenNext, NEW c \in Callers,
                      pc[c] # "fetching", got'[c] \notin {got[c], NoToken}
               PROVE  got'[c] > now + Skew
    BY DEF tokenVars
  <2>1. ASSUME NEW d \in Callers, NEW i \in Installations, GetToken(d, i)
        PROVE  got'[c] > now + Skew
    BY <2>1 DEF GetToken, Fresh, TokenInv, TokenTypeOK
  <2>2. ASSUME NEW d \in Callers, Continue(d) PROVE got'[c] > now + Skew
    BY <2>2 DEF Continue, Resume, FetchDone, FetchFails, Leave, Fresh, TokenInv, TokenTypeOK
  <2>3. ASSUME NEW d \in Callers, Forget(d) PROVE got'[c] > now + Skew
    BY <2>3 DEF Forget, TokenInv, TokenTypeOK
  <2>4. CASE Tick
    BY <2>4 DEF Tick
  <2> QED BY <2>1, <2>2, <2>3, <2>4 DEF TokenNext
<1> QED BY CacheUsesTokenManager, TokenInvariant, <1>1, PTL
        DEF UsesTokenManager, TokenSpec, CachedTokensLast

\* The cached owners of a repository are never more than TTL behind the repository,
\* for any TTL, any schedule of slow and overlapping fetches, and any pushes.
THEOREM NeverStalerThanTTL == Spec => []StaleNoLongerThanTTL
<1>1. CacheInv => StaleNoLongerThanTTL
  <2> SUFFICES ASSUME CacheInv, NEW r \in Repos, Valid(r), pushed[r] + TTL <= now
               PROVE  rules[r] = InEffect(r)
    BY DEF StaleNoLongerThanTTL
  <2>1. now \in Int /\ TTL \in Int /\ pushed[r] \in Int /\ until[r] \in Int
    BY CodeownersAssumption DEF CacheInv, TypeOK, TokenTypeOK
  <2>2. rules[r] # NoRules /\ until[r] - TTL > pushed[r]
    BY <2>1 DEF Valid
  <2> QED BY <2>2 DEF CacheInv, FreshReads
<1> QED BY CacheInvariant, <1>1, PTL

===============================================================================
