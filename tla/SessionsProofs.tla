--------------------------- MODULE SessionsProofs ---------------------------
(***************************************************************************)
(* For every number of users, addresses and requests served at a time, all *)
(* limits of codes, sessions and tokens, and any number of codes, sessions *)
(* and edits: the second factor, the passwords, and the uses of a code and *)
(* the wrong answers to it.                                                *)
(***************************************************************************)
EXTENDS Sessions, SequenceTheorems, FiniteSetTheorems, NaturalsInduction,
        WellFoundedInduction, TLAPS

-----------------------------------------------------------------------------
(* Types. *)

CodeRow == [user : Users, purpose : Purposes, age : 0 .. CodeLife + 1,
            attempts : 0 .. MaxAttempts, consumed : BOOLEAN, wrong : Nat, uses : Nat]

SessionRow(n) == [user : Users, sub : Emails, by : 0 .. n,
                  idle : 0 .. IdleLimit + 1, age : 0 .. TokenLife + 1]

AccountRow(n) == [email : Emails, phone : BOOLEAN, two_factor : BOOLEAN,
                  active : BOOLEAN, password : 0 .. n]

RequestRow(n) == [code : 1 .. n, purpose : Purposes, user : Users \union {Nobody},
                  right : BOOLEAN, attempts : 0 .. MaxAttempts - 1]

(* With n codes: the types of the accounts, of the sessions and of the      *)
(* requests that are being served.                                          *)
AccountOK(n) == account \in [Users -> AccountRow(n)]
SessionsOK(n) == sessions \in Seq(SessionRow(n))
RequestOK(n) == request \in [Threads -> {Idle} \union RequestRow(n)]
CodesOK == codes \in Seq(CodeRow)
OneOwner == \A u, v \in Users : account[u].email = account[v].email => u = v

(* The type invariant in its parts. *)
LEMMA TypeParts ==
    TypeOK <=> /\ AccountOK(Len(codes)) /\ CodesOK /\ SessionsOK(Len(codes))
               /\ RequestOK(Len(codes)) /\ OneOwner
<1>1. ASSUME CodesOK
      PROVE  DOMAIN codes = 1 .. Len(codes)
    BY <1>1, LenProperties DEF CodesOK
<1>2. CodesOK <=> codes \in Seq([user : Users, purpose : Purposes, age : 0 .. CodeLife + 1,
                      attempts : 0 .. MaxAttempts, consumed : BOOLEAN,
                      wrong : Nat, uses : Nat])
    BY DEF CodesOK, CodeRow
<1> QED
    BY <1>1, <1>2 DEF TypeOK, AccountOK, AccountRow, SessionsOK, SessionRow, RequestOK,
       RequestRow, OneOwner

(* A greater number of codes admits all that a smaller one did. *)
LEMMA MoreCodes ==
    ASSUME NEW m \in Nat, NEW n \in Nat, m <= n
    PROVE  /\ AccountRow(m) \subseteq AccountRow(n)
           /\ RequestRow(m) \subseteq RequestRow(n)
           /\ \A q \in Seq(SessionRow(m)) : q \in Seq(SessionRow(n))
<1>1. 0 .. m \subseteq 0 .. n /\ 1 .. m \subseteq 1 .. n
    OBVIOUS
<1>2. AccountRow(m) \subseteq AccountRow(n) /\ RequestRow(m) \subseteq RequestRow(n)
    BY <1>1 DEF AccountRow, RequestRow
<1>3. SessionRow(m) \subseteq SessionRow(n)
    BY <1>1 DEF SessionRow
<1> QED
    BY <1>2, <1>3, SeqMonotonic

(* The code a request has read is a code. *)
LEMMA ReadRow ==
    ASSUME TypeOK, NEW t \in Threads, request[t] # Idle
    PROVE  /\ request[t] \in RequestRow(Len(codes))
           /\ Len(codes) \in Nat /\ request[t].code \in 1 .. Len(codes)
           /\ codes[request[t].code] \in CodeRow
           /\ Owner(t) \in Users
<1>1. request[t] \in RequestRow(Len(codes)) /\ codes \in Seq(CodeRow)
    BY TypeParts DEF RequestOK, CodesOK
<1>2. request[t].code \in 1 .. Len(codes)
    BY <1>1 DEF RequestRow
<1>3. codes[request[t].code] \in CodeRow
    BY <1>1, <1>2, ElementOfSeq
<1> QED
    BY <1>1, <1>2, <1>3, LenProperties DEF Owner, CodeRow

(* What verifying a code writes: one row, in which the attempt is counted.  *)
LEMMA WrittenRow ==
    ASSUME TypeOK, NEW t \in Threads, request[t] # Idle
    PROVE  LET c == request[t].code
               counted == [codes[c] EXCEPT !.attempts = request[t].attempts + 1]
               wrong == [counted EXCEPT !.wrong = @ + 1]
               consumed == [counted EXCEPT !.consumed = TRUE]
               used == [consumed EXCEPT !.uses = @ + 1]
           IN  /\ wrong \in CodeRow /\ consumed \in CodeRow /\ used \in CodeRow
               /\ CountedWrong(t) = [codes EXCEPT ![c] = wrong]
               /\ Consumed(t) = [codes EXCEPT ![c] = consumed]
               /\ Used(t) = [codes EXCEPT ![c] = used]
<1> DEFINE c == request[t].code
           counted == [codes[c] EXCEPT !.attempts = request[t].attempts + 1]
           wrong == [counted EXCEPT !.wrong = @ + 1]
           consumed == [counted EXCEPT !.consumed = TRUE]
           used == [consumed EXCEPT !.uses = @ + 1]
<1>1. /\ codes \in Seq(CodeRow) /\ c \in 1 .. Len(codes) /\ codes[c] \in CodeRow
      /\ DOMAIN codes = 1 .. Len(codes)
    BY TypeParts, ReadRow, LenProperties DEF CodesOK
<1>2. request[t].attempts + 1 \in 0 .. MaxAttempts
    <2>1. request[t].attempts \in 0 .. MaxAttempts - 1 /\ MaxAttempts \in Nat
        BY ReadRow, SessionsAssumption DEF RequestRow
    <2> QED
        BY <2>1
<1>3. counted \in CodeRow
    BY <1>1, <1>2 DEF CodeRow
<1>4. Counted(t) = [codes EXCEPT ![c] = counted]
    BY <1>1 DEF Counted
<1> HIDE DEF counted
<1>5. wrong \in CodeRow
    BY <1>3 DEF CodeRow
<1>6. consumed \in CodeRow
    BY <1>3 DEF CodeRow
<1>7. CountedWrong(t) = [codes EXCEPT ![c] = wrong]
    BY <1>1, <1>4 DEF CountedWrong
<1>8. Consumed(t) = [codes EXCEPT ![c] = consumed]
    BY <1>1, <1>4 DEF Consumed
<1> HIDE DEF consumed
<1>9. used \in CodeRow
    BY <1>6 DEF CodeRow
<1>10. Used(t) = [codes EXCEPT ![c] = used]
    BY <1>1, <1>8 DEF Used
<1> USE DEF counted, consumed
<1> QED
    BY <1>5, <1>6, <1>7, <1>8, <1>9, <1>10

(* So it keeps the codes: whom they are for, what for, and that they are    *)
(* used up.                                                                 *)
LEMMA WrittenCodes ==
    ASSUME TypeOK, NEW t \in Threads, request[t] # Idle,
           NEW X \in {CountedWrong(t), Consumed(t), Used(t)}
    PROVE  /\ X \in Seq(CodeRow) /\ Len(X) = Len(codes)
           /\ \A c \in 1 .. Len(codes) :
                 /\ X[c].user = codes[c].user /\ X[c].purpose = codes[c].purpose
                 /\ codes[c].consumed => X[c].consumed
                 /\ c # request[t].code => X[c] = codes[c]
           /\ X \in {Consumed(t), Used(t)} => X[request[t].code].consumed
           /\ X[request[t].code].uses =
                 codes[request[t].code].uses + (IF X = Used(t) THEN 1 ELSE 0)
<1> DEFINE c == request[t].code
           counted == [codes[c] EXCEPT !.attempts = request[t].attempts + 1]
           wrong == [counted EXCEPT !.wrong = @ + 1]
           consumed == [counted EXCEPT !.consumed = TRUE]
           used == [consumed EXCEPT !.uses = @ + 1]
<1>1. /\ wrong \in CodeRow /\ consumed \in CodeRow /\ used \in CodeRow
      /\ CountedWrong(t) = [codes EXCEPT ![c] = wrong]
      /\ Consumed(t) = [codes EXCEPT ![c] = consumed]
      /\ Used(t) = [codes EXCEPT ![c] = used]
    BY WrittenRow
<1>2. codes \in Seq(CodeRow) /\ c \in 1 .. Len(codes) /\ codes[c] \in CodeRow
    BY TypeParts, ReadRow DEF CodesOK
<1>3. \A row \in {wrong, consumed, used} :
          row.user = codes[c].user /\ row.purpose = codes[c].purpose
    BY <1>2 DEF CodeRow
<1>4. /\ wrong.consumed = codes[c].consumed /\ consumed.consumed = TRUE /\ used.consumed = TRUE
      /\ wrong.uses = codes[c].uses /\ consumed.uses = codes[c].uses
      /\ used.uses = codes[c].uses + 1 /\ codes[c].uses \in Nat
    BY <1>2 DEF CodeRow
<1> HIDE DEF c, counted, wrong, consumed, used
<1>5. ASSUME NEW row \in {wrong, consumed, used}, X = [codes EXCEPT ![c] = row]
      PROVE  /\ X \in Seq(CodeRow) /\ Len(X) = Len(codes)
             /\ \A d \in 1 .. Len(codes) :
                   /\ X[d].user = codes[d].user /\ X[d].purpose = codes[d].purpose
                   /\ d # c => X[d] = codes[d]
             /\ X[c] = row
    <2>1. row \in CodeRow
        BY <1>1
    <2>2. /\ X \in Seq(CodeRow) /\ Len(X) = Len(codes)
          /\ \A d \in 1 .. Len(codes) : X[d] = IF d = c THEN row ELSE codes[d]
        BY <1>2, <1>5, <2>1, ExceptSeq
    <2> QED
        BY <1>2, <1>3, <2>2
<1>6. CASE X = Used(t)
    <2>1. X[c] = used
        BY <1>1, <1>5, <1>6
    <2> QED
        BY <1>1, <1>2, <1>4, <1>5, <1>6, <2>1 DEF c
<1>7. CASE X = Consumed(t) /\ X # Used(t)
    <2>1. X[c] = consumed
        BY <1>1, <1>5, <1>7
    <2> QED
        BY SMTT(30), <1>1, <1>2, <1>4, <1>5, <1>7, <2>1 DEF c
<1>8. CASE X = CountedWrong(t) /\ X # Used(t) /\ X # Consumed(t)
    <2>1. X[c] = wrong
        BY <1>1, <1>5, <1>8
    <2> QED
        BY SMTT(30), <1>1, <1>2, <1>4, <1>5, <1>8, <2>1 DEF c
<1> QED
    BY <1>6, <1>7, <1>8

(* A code that is requested comes after all others. *)
LEMMA RequestedCode ==
    ASSUME TypeOK, NEW u \in Users, NEW purpose \in Purposes, RequestOtp(u, purpose)
    PROVE  /\ codes' \in Seq(CodeRow) /\ Len(codes') = Len(codes) + 1 /\ Len(codes) \in Nat
           /\ \A c \in 1 .. Len(codes) : codes'[c] = codes[c]
           /\ codes'[Len(codes) + 1].uses = 0 /\ ~codes'[Len(codes) + 1].consumed
<1> DEFINE row == [user |-> u, purpose |-> purpose, age |-> 0, attempts |-> 0,
                   consumed |-> FALSE, wrong |-> 0, uses |-> 0]
<1>1. codes \in Seq(CodeRow) /\ codes' = Append(codes, row)
    BY TypeParts DEF CodesOK, RequestOtp
<1>2. row \in CodeRow
    BY SessionsAssumption DEF CodeRow
<1> HIDE DEF row
<1>3. /\ codes' \in Seq(CodeRow) /\ Len(codes') = Len(codes) + 1
      /\ \A c \in 1 .. Len(codes) : codes'[c] = codes[c]
      /\ codes'[Len(codes) + 1] = row
    BY <1>1, <1>2, AppendProperties
<1> QED
    BY <1>1, <1>3, LenProperties DEF row

(* A session that is opened comes after all others. *)
LEMMA OpenedSession ==
    ASSUME TypeOK, NEW u \in Users, NEW code \in 0 .. Len(codes), OpenSession(u, code)
    PROVE  /\ sessions' \in Seq(SessionRow(Len(codes)))
           /\ Len(sessions') = Len(sessions) + 1 /\ Len(sessions) \in Nat
           /\ \A s \in 1 .. Len(sessions) : sessions'[s] = sessions[s]
           /\ sessions'[Len(sessions) + 1].user = u
           /\ sessions'[Len(sessions) + 1].sub = account[u].email
           /\ sessions'[Len(sessions) + 1].by = code
<1> DEFINE row == [user |-> u, sub |-> account[u].email, by |-> code, idle |-> 0, age |-> 0]
<1>1. sessions \in Seq(SessionRow(Len(codes))) /\ sessions' = Append(sessions, row)
    BY TypeParts DEF SessionsOK, OpenSession
<1>2. row \in SessionRow(Len(codes))
    BY TypeParts, SessionsAssumption DEF SessionRow, AccountOK, AccountRow
<1> HIDE DEF row
<1>3. /\ sessions' \in Seq(SessionRow(Len(codes))) /\ Len(sessions') = Len(sessions) + 1
      /\ \A s \in 1 .. Len(sessions) : sessions'[s] = sessions[s]
      /\ sessions'[Len(sessions) + 1] = row
    BY <1>1, <1>2, AppendProperties
<1> QED
    BY <1>1, <1>3, LenProperties DEF row

(* A touch changes nothing but when the session was last seen. *)
LEMMA TouchedSession ==
    ASSUME TypeOK, NEW s \in DOMAIN sessions, TouchSession(s)
    PROVE  /\ sessions' \in Seq(SessionRow(Len(codes))) /\ Len(sessions') = Len(sessions)
           /\ Len(sessions) \in Nat
           /\ \A r \in 1 .. Len(sessions) :
                 /\ sessions'[r].user = sessions[r].user /\ sessions'[r].sub = sessions[r].sub
                 /\ sessions'[r].by = sessions[r].by
<1> DEFINE n == Len(codes)
           row == [sessions[s] EXCEPT !.idle = 0]
<1>1. sessions \in Seq(SessionRow(n)) /\ DOMAIN sessions = 1 .. Len(sessions)
      /\ Len(sessions) \in Nat
    BY TypeParts, LenProperties DEF SessionsOK
<1>2. sessions[s] \in SessionRow(n) /\ s \in 1 .. Len(sessions)
    BY <1>1, ElementOfSeq
<1>3. /\ row \in SessionRow(n)
      /\ row.user = sessions[s].user /\ row.sub = sessions[s].sub /\ row.by = sessions[s].by
    <2>1. 0 \in 0 .. IdleLimit + 1
        BY SessionsAssumption
    <2>2. row = [user |-> sessions[s].user, sub |-> sessions[s].sub, by |-> sessions[s].by,
                 idle |-> 0, age |-> sessions[s].age]
        BY <1>2 DEF SessionRow
    <2> HIDE DEF row
    <2> QED
        BY <1>2, <2>1, <2>2 DEF SessionRow
<1>4. sessions' = [sessions EXCEPT ![s] = row]
    BY <1>1 DEF TouchSession
<1> HIDE DEF row, n
<1>5. /\ sessions' \in Seq(SessionRow(n)) /\ Len(sessions') = Len(sessions)
      /\ \A r \in 1 .. Len(sessions) : sessions'[r] = IF r = s THEN row ELSE sessions[r]
    BY <1>1, <1>2, <1>3, <1>4, ExceptSeq
<1> QED
    BY <1>1, <1>3, <1>5 DEF n

(* Intervals from one that are equal end alike. *)
LEMMA SameInterval ==
    ASSUME NEW m \in Nat, NEW n \in Nat, 1 .. m = 1 .. n
    PROVE  m = n
<1>1. ASSUME m < n PROVE FALSE
    <2>1. n \in 1 .. n /\ n \notin 1 .. m
        BY <1>1
    <2> QED
        BY <2>1
<1>2. ASSUME n < m PROVE FALSE
    <2>1. m \in 1 .. m /\ m \notin 1 .. n
        BY <1>2
    <2> QED
        BY <2>1
<1> QED
    BY <1>1, <1>2

(* When time passes, rows grow older and nothing else. *)
LEMMA OlderRows ==
    ASSUME TypeOK, Tick
    PROVE  /\ codes' \in Seq(CodeRow) /\ Len(codes') = Len(codes) /\ Len(codes) \in Nat
           /\ sessions' \in Seq(SessionRow(Len(codes))) /\ Len(sessions') = Len(sessions)
           /\ Len(sessions) \in Nat
           /\ \A c \in 1 .. Len(codes) :
                 /\ codes'[c].user = codes[c].user /\ codes'[c].purpose = codes[c].purpose
                 /\ codes'[c].consumed = codes[c].consumed
                 /\ codes'[c].uses = codes[c].uses
           /\ \A r \in 1 .. Len(sessions) :
                 /\ sessions'[r].user = sessions[r].user /\ sessions'[r].sub = sessions[r].sub
                 /\ sessions'[r].by = sessions[r].by
<1> DEFINE n == Len(codes)
           m == Len(sessions)
           code(c) == [codes[c] EXCEPT !.age = Older(@, CodeLife)]
           session(s) == [sessions[s] EXCEPT !.idle = Older(@, IdleLimit),
                                             !.age = Older(@, TokenLife)]
<1>1. /\ codes \in Seq(CodeRow) /\ DOMAIN codes = 1 .. n /\ n \in Nat
      /\ sessions \in Seq(SessionRow(n)) /\ DOMAIN sessions = 1 .. m /\ m \in Nat
    BY TypeParts, LenProperties DEF CodesOK, SessionsOK
<1>2. CodeLife \in Nat /\ IdleLimit \in Nat /\ TokenLife \in Nat
    BY SessionsAssumption
<1>3. ASSUME NEW limit \in Nat, NEW age \in 0 .. limit + 1
      PROVE  Older(age, limit) \in 0 .. limit + 1
    BY DEF Older
<1>4. ASSUME NEW c \in 1 .. n
      PROVE  /\ code(c) \in CodeRow
             /\ code(c).user = codes[c].user /\ code(c).purpose = codes[c].purpose
             /\ code(c).consumed = codes[c].consumed /\ code(c).uses = codes[c].uses
    <2>1. codes[c] \in CodeRow
        BY <1>1, ElementOfSeq
    <2>2. Older(codes[c].age, CodeLife) \in 0 .. CodeLife + 1
        BY <1>2, <1>3, <2>1 DEF CodeRow
    <2> QED
        BY <2>1, <2>2 DEF CodeRow
<1>5. ASSUME NEW s \in 1 .. m
      PROVE  /\ session(s) \in SessionRow(n)
             /\ session(s).user = sessions[s].user /\ session(s).sub = sessions[s].sub
             /\ session(s).by = sessions[s].by
    <2>1. sessions[s] \in SessionRow(n)
        BY <1>1, ElementOfSeq
    <2>2. /\ Older(sessions[s].idle, IdleLimit) \in 0 .. IdleLimit + 1
          /\ Older(sessions[s].age, TokenLife) \in 0 .. TokenLife + 1
        BY <1>2, <1>3, <2>1 DEF SessionRow
    <2>3. session(s) = [user |-> sessions[s].user, sub |-> sessions[s].sub,
                        by |-> sessions[s].by, idle |-> Older(sessions[s].idle, IdleLimit),
                        age |-> Older(sessions[s].age, TokenLife)]
        <3> DEFINE seen == [sessions[s] EXCEPT !.idle = Older(@, IdleLimit)]
        <3>1. seen = [user |-> sessions[s].user, sub |-> sessions[s].sub,
                      by |-> sessions[s].by, idle |-> Older(sessions[s].idle, IdleLimit),
                      age |-> sessions[s].age]
            BY <2>1 DEF SessionRow
        <3>2. session(s) = [seen EXCEPT !.age = Older(sessions[s].age, TokenLife)]
            BY <2>1 DEF SessionRow
        <3> HIDE DEF seen
        <3> QED
            BY <3>1, <3>2
    <2> HIDE DEF session, n
    <2> QED
        BY <2>1, <2>2, <2>3 DEF SessionRow
<1>6. /\ codes' = [c \in 1 .. n |-> code(c)]
      /\ sessions' = [s \in 1 .. m |-> session(s)]
    BY <1>1 DEF Tick
<1> HIDE DEF code, session, n, m
<1>7. codes' \in [1 .. n -> CodeRow] /\ sessions' \in [1 .. m -> SessionRow(n)]
    BY <1>4, <1>5, <1>6
<1>8. codes' \in Seq(CodeRow) /\ sessions' \in Seq(SessionRow(n))
    BY <1>1, <1>7, SeqDef
<1>9. Len(codes') = n /\ Len(sessions') = m
    <2>1. DOMAIN codes' = 1 .. n /\ DOMAIN sessions' = 1 .. m
        BY <1>7
    <2>2. /\ DOMAIN codes' = 1 .. Len(codes') /\ Len(codes') \in Nat
          /\ DOMAIN sessions' = 1 .. Len(sessions') /\ Len(sessions') \in Nat
        BY <1>8, LenProperties
    <2>3. 1 .. n = 1 .. Len(codes') /\ 1 .. m = 1 .. Len(sessions')
        BY <2>1, <2>2
    <2> QED
        BY <1>1, <2>2, <2>3, SameInterval
<1> QED
    BY <1>1, <1>4, <1>5, <1>6, <1>8, <1>9 DEF n, m

-----------------------------------------------------------------------------
(* What a step may do to each of the tables.                                *)

CodesMove ==
    \/ codes' = codes
    \/ \E u \in Users, purpose \in Purposes : RequestOtp(u, purpose)
    \/ \E t \in Threads :
          request[t] # Idle /\ codes' \in {CountedWrong(t), Consumed(t), Used(t)}
    \/ Tick

SessionsMove ==
    \/ sessions' = sessions
    \/ \E s \in DOMAIN sessions : TouchSession(s)
    \/ \E u \in Users : OpenSession(u, 0) /\ ~(account[u].two_factor /\ account[u].phone)
    \/ \E t \in Threads : LoggedIn(t)
    \/ Tick

ReadsCode(t) ==
    \E purpose \in Purposes, u \in Users \union {Nobody} :
        ReadCode(t, purpose, u) /\ codes' = codes

RequestMove ==
    \/ request' = request
    \/ \E t \in Threads : ReadsCode(t)
    \/ \E t \in Threads : request[t] # Idle /\ Answered(t)

TakesAddress(u) ==
    \E e \in Emails :
        /\ \A v \in Users \ {u} : account[v].email # e
        /\ account' = [account EXCEPT ![u].email = e]

AccountMove ==
    \/ account' = account
    \/ \E s \in DOMAIN sessions : \E u \in CurrentUser(s) : TakesAddress(u)
    \/ \E u \in Users : account' = [account EXCEPT ![u].phone = TRUE]
    \/ \E s \in DOMAIN sessions : \E u \in CurrentUser(s), enabled \in BOOLEAN :
          account' = [account EXCEPT ![u].two_factor = enabled]
    \/ \E u \in Users, b \in BOOLEAN : account' = [account EXCEPT ![u].active = b]
    \/ \E u \in Users : account' = [account EXCEPT ![u].password = 0]
    \/ \E t \in Threads : PasswordChanged(t) \/ PasswordReset(t)

(* Every step is one of these for each table. *)
LEMMA Moves ==
    [Next]_vars => CodesMove /\ SessionsMove /\ RequestMove /\ AccountMove
<1> SUFFICES ASSUME [Next]_vars PROVE CodesMove /\ SessionsMove /\ RequestMove /\ AccountMove
    OBVIOUS
<1>1. ASSUME NEW u \in Users, Login(u) \/ ForgotPassword(u)
      PROVE  CodesMove /\ SessionsMove /\ RequestMove /\ AccountMove
    BY <1>1 DEF Login, ForgotPassword, Purposes, CodesMove, SessionsMove, RequestMove, AccountMove
<1>2. ASSUME NEW t \in Threads, VerifyLoginOtp(t) \/ ResetPassword(t)
      PROVE  CodesMove /\ SessionsMove /\ RequestMove /\ AccountMove
    BY <1>2 DEF VerifyLoginOtp, ResetPassword, ReadsCode, Purposes, CodesMove, SessionsMove,
       RequestMove, AccountMove
<1>3. ASSUME NEW t \in Threads, Finish(t)
      PROVE  CodesMove /\ SessionsMove /\ RequestMove /\ AccountMove
    <2>1. request[t] # Idle /\ Answered(t)
        BY <1>3 DEF Finish, WrongCode, AccountGone, LoggedIn, PasswordChanged, CodeOfAnother,
           PasswordReset, RightCode
    <2>2. codes' = codes \/ codes' \in {CountedWrong(t), Consumed(t), Used(t)}
        BY <1>3 DEF Finish, WrongCode, AccountGone, LoggedIn, PasswordChanged, CodeOfAnother,
           PasswordReset
    <2>3. sessions' = sessions \/ LoggedIn(t)
        BY <1>3 DEF Finish, WrongCode, AccountGone, PasswordChanged, CodeOfAnother, PasswordReset
    <2>4. account' = account \/ PasswordChanged(t) \/ PasswordReset(t)
        BY <1>3 DEF Finish, WrongCode, AccountGone, LoggedIn, CodeOfAnother
    <2> QED
        BY <2>1, <2>2, <2>3, <2>4 DEF CodesMove, SessionsMove, RequestMove, AccountMove
<1>4. ASSUME NEW s \in DOMAIN sessions, ReadCurrentUser(s) \/ RequestPasswordChange(s)
      PROVE  CodesMove /\ SessionsMove /\ RequestMove /\ AccountMove
    BY <1>4 DEF ReadCurrentUser, RequestPasswordChange, CurrentUser, Purposes, CodesMove,
       SessionsMove, RequestMove, AccountMove
<1>5. ASSUME NEW s \in DOMAIN sessions, NEW t \in Threads, ConfirmPasswordChange(t, s)
      PROVE  CodesMove /\ SessionsMove /\ RequestMove /\ AccountMove
    BY <1>5 DEF ConfirmPasswordChange, CurrentUser, ReadsCode, Purposes, CodesMove,
       SessionsMove, RequestMove, AccountMove
<1>6. ASSUME NEW u \in Users, UpdateUser(u) \/ ResetUserPassword(u)
      PROVE  CodesMove /\ SessionsMove /\ RequestMove /\ AccountMove
    BY <1>6 DEF UpdateUser, ResetUserPassword, CodesMove, SessionsMove, RequestMove, AccountMove
<1>7. ASSUME NEW s \in DOMAIN sessions, UpdateProfile(s)
      PROVE  CodesMove /\ SessionsMove /\ RequestMove /\ AccountMove
    BY <1>7 DEF UpdateProfile, CurrentUser, TakesAddress, CodesMove, SessionsMove, RequestMove,
       AccountMove
<1>8. ASSUME NEW s \in DOMAIN sessions, UpdateTwoFactor(s)
      PROVE  CodesMove /\ SessionsMove /\ RequestMove /\ AccountMove
    BY <1>8 DEF UpdateTwoFactor, CodesMove, SessionsMove, RequestMove, AccountMove
<1>9. CASE Tick
    BY <1>9 DEF Tick, CodesMove, SessionsMove, RequestMove, AccountMove
<1>10. CASE UNCHANGED vars
    BY <1>10 DEF vars, CodesMove, SessionsMove, RequestMove, AccountMove
<1> QED
    BY <1>1, <1>2, <1>3, <1>4, <1>5, <1>6, <1>7, <1>8, <1>9, <1>10 DEF Next

(* Codes are never taken back: whom one is for, what for, that it is used   *)
(* up.                                                                      *)
LEMMA CodesStay ==
    ASSUME TypeOK, [Next]_vars
    PROVE  /\ codes' \in Seq(CodeRow) /\ Len(codes) \in Nat /\ Len(codes') \in Nat
           /\ Len(codes) <= Len(codes')
           /\ \A c \in 1 .. Len(codes) :
                 /\ codes'[c].user = codes[c].user /\ codes'[c].purpose = codes[c].purpose
                 /\ codes[c].consumed => codes'[c].consumed
<1>1. codes \in Seq(CodeRow) /\ Len(codes) \in Nat
    BY TypeParts, LenProperties DEF CodesOK
<1>2. CASE codes' = codes
    BY <1>1, <1>2
<1>3. ASSUME NEW u \in Users, NEW purpose \in Purposes, RequestOtp(u, purpose)
      PROVE  /\ codes' \in Seq(CodeRow) /\ Len(codes') = Len(codes) + 1
             /\ \A c \in 1 .. Len(codes) : codes'[c] = codes[c]
    BY <1>3, RequestedCode
<1>4. ASSUME NEW t \in Threads, request[t] # Idle,
             codes' \in {CountedWrong(t), Consumed(t), Used(t)}
      PROVE  /\ codes' \in Seq(CodeRow) /\ Len(codes') = Len(codes)
             /\ \A c \in 1 .. Len(codes) :
                   /\ codes'[c].user = codes[c].user /\ codes'[c].purpose = codes[c].purpose
                   /\ codes[c].consumed => codes'[c].consumed
    BY <1>4, WrittenCodes
<1>5. CASE Tick
    BY <1>5, OlderRows
<1>6. CodesMove
    BY Moves
<1> QED
    BY <1>1, <1>2, <1>3, <1>4, <1>5, <1>6 DEF CodesMove

(* Who is logged in by a code is its owner, and the code is a login code    *)
(* if requests answer for what they have read.                              *)
LEMMA LoggedInSession ==
    ASSUME TypeOK, NEW t \in Threads, LoggedIn(t)
    PROVE  /\ request[t] # Idle /\ request[t].purpose = "LOGIN_2FA" /\ codes' = Used(t)
           /\ request[t].code \in 1 .. Len(codes) /\ Owner(t) \in Users
           /\ OpenSession(Owner(t), request[t].code)
BY ReadRow DEF LoggedIn, RightCode

(* Sessions are never taken back, nor whose they are and how they were      *)
(* opened.                                                                  *)
LEMMA SessionsStay ==
    ASSUME TypeOK, [Next]_vars
    PROVE  /\ sessions' \in Seq(SessionRow(Len(codes)))
           /\ Len(sessions) \in Nat /\ Len(sessions') \in Nat
           /\ Len(sessions) <= Len(sessions')
           /\ \A s \in 1 .. Len(sessions) :
                 /\ sessions'[s].user = sessions[s].user /\ sessions'[s].sub = sessions[s].sub
                 /\ sessions'[s].by = sessions[s].by
<1>1. sessions \in Seq(SessionRow(Len(codes))) /\ Len(sessions) \in Nat
    BY TypeParts, LenProperties DEF SessionsOK
<1>2. CASE sessions' = sessions
    BY <1>1, <1>2
<1>3. ASSUME NEW s \in DOMAIN sessions, TouchSession(s)
      PROVE  /\ sessions' \in Seq(SessionRow(Len(codes))) /\ Len(sessions') = Len(sessions)
             /\ \A r \in 1 .. Len(sessions) :
                   /\ sessions'[r].user = sessions[r].user /\ sessions'[r].sub = sessions[r].sub
                   /\ sessions'[r].by = sessions[r].by
    BY <1>3, TouchedSession
<1>4. ASSUME NEW u \in Users, OpenSession(u, 0)
      PROVE  /\ sessions' \in Seq(SessionRow(Len(codes))) /\ Len(sessions') = Len(sessions) + 1
             /\ \A s \in 1 .. Len(sessions) : sessions'[s] = sessions[s]
    <2>1. 0 \in 0 .. Len(codes)
        BY TypeParts, LenProperties DEF CodesOK
    <2> QED
        BY <1>4, <2>1, OpenedSession
<1>5. ASSUME NEW t \in Threads, LoggedIn(t)
      PROVE  /\ sessions' \in Seq(SessionRow(Len(codes))) /\ Len(sessions') = Len(sessions) + 1
             /\ \A s \in 1 .. Len(sessions) : sessions'[s] = sessions[s]
    <2>1. /\ Owner(t) \in Users /\ OpenSession(Owner(t), request[t].code)
          /\ request[t].code \in 1 .. Len(codes)
        BY <1>5, LoggedInSession
    <2>2. request[t].code \in 0 .. Len(codes)
        BY <2>1
    <2> QED
        BY <2>1, <2>2, OpenedSession
<1>6. CASE Tick
    BY <1>6, OlderRows
<1>7. SessionsMove
    BY Moves
<1> QED
    BY <1>1, <1>2, <1>3, <1>4, <1>5, <1>6, <1>7 DEF SessionsMove

(* What a request reads is a code, and its attempts are not yet used up.    *)
LEMMA RequestsStay ==
    ASSUME TypeOK, [Next]_vars
    PROVE  request' \in [Threads -> {Idle} \union RequestRow(Len(codes))]
<1>1. request \in [Threads -> {Idle} \union RequestRow(Len(codes))]
    BY TypeParts DEF RequestOK
<1>2. CASE request' = request
    BY <1>1, <1>2
<1>3. ASSUME NEW t \in Threads, ReadsCode(t)
      PROVE  request' \in [Threads -> {Idle} \union RequestRow(Len(codes))]
    <2>1. PICK purpose \in Purposes, u \in Users \union {Nobody} : ReadCode(t, purpose, u)
        BY <1>3 DEF ReadsCode
    <2>2. PICK c \in DOMAIN codes, right \in BOOLEAN :
              /\ Verifiable(c, purpose)
              /\ request' = [request EXCEPT ![t] =
                    [code |-> c, purpose |-> purpose, user |-> u, right |-> right,
                     attempts |-> codes[c].attempts]]
        BY <2>1 DEF ReadCode
    <2>3. codes \in Seq(CodeRow) /\ c \in 1 .. Len(codes)
        BY <2>2, TypeParts, LenProperties DEF CodesOK
    <2>4. codes[c].attempts \in 0 .. MaxAttempts
        <3>1. codes[c] \in CodeRow
            BY <2>3, ElementOfSeq
        <3> QED
            BY <3>1 DEF CodeRow
    <2>5. codes[c].attempts \in 0 .. MaxAttempts - 1
        BY <2>2, <2>4, SessionsAssumption DEF Verifiable
    <2>6. [code |-> c, purpose |-> purpose, user |-> u, right |-> right,
           attempts |-> codes[c].attempts] \in RequestRow(Len(codes))
        BY <2>3, <2>5 DEF RequestRow
    <2> QED
        BY <1>1, <2>2, <2>6
<1>4. ASSUME NEW t \in Threads, Answered(t)
      PROVE  request' \in [Threads -> {Idle} \union RequestRow(Len(codes))]
    BY <1>1, <1>4 DEF Answered
<1> QED
    BY <1>2, <1>3, <1>4, Moves DEF RequestMove

(* A password is changed to the code of somebody that was read for it.      *)
LEMMA NewPassword ==
    ASSUME TypeOK, NEW t \in Threads, PasswordChanged(t) \/ PasswordReset(t)
    PROVE  /\ request[t] # Idle /\ codes' = Used(t) /\ sessions' = sessions
           /\ request[t].purpose \in {"PASSWORD_CHANGE", "PASSWORD_RESET"}
           /\ request[t].code \in 1 .. Len(codes) /\ Owner(t) \in Users
           /\ account' = [account EXCEPT ![Owner(t)].password = request[t].code]
BY ReadRow DEF PasswordChanged, PasswordReset, RightCode

(* The accounts keep their types, and an address its one owner.             *)
LEMMA AccountsStay ==
    ASSUME TypeOK, [Next]_vars
    PROVE  account' \in [Users -> AccountRow(Len(codes))] /\ OneOwner'
<1> DEFINE n == Len(codes)
<1>1. account \in [Users -> AccountRow(n)] /\ OneOwner /\ n \in Nat
    BY TypeParts, LenProperties DEF AccountOK, CodesOK
<1> HIDE DEF n
<1>2. ASSUME account' = account
      PROVE  account' \in [Users -> AccountRow(n)] /\ OneOwner'
    BY <1>1, <1>2 DEF OneOwner
<1>3. ASSUME NEW s \in DOMAIN sessions, NEW u \in CurrentUser(s), TakesAddress(u)
      PROVE  account' \in [Users -> AccountRow(n)] /\ OneOwner'
    BY <1>1, <1>3 DEF CurrentUser, TakesAddress, AccountRow, OneOwner
<1>4. ASSUME NEW u \in Users, account' = [account EXCEPT ![u].phone = TRUE]
      PROVE  account' \in [Users -> AccountRow(n)] /\ OneOwner'
    BY <1>1, <1>4 DEF AccountRow, OneOwner
<1>5. ASSUME NEW s \in DOMAIN sessions, NEW u \in CurrentUser(s), NEW enabled \in BOOLEAN,
             account' = [account EXCEPT ![u].two_factor = enabled]
      PROVE  account' \in [Users -> AccountRow(n)] /\ OneOwner'
    BY <1>1, <1>5 DEF CurrentUser, AccountRow, OneOwner
<1>6. ASSUME NEW u \in Users, NEW b \in BOOLEAN, account' = [account EXCEPT ![u].active = b]
      PROVE  account' \in [Users -> AccountRow(n)] /\ OneOwner'
    BY <1>1, <1>6 DEF AccountRow, OneOwner
<1>7. ASSUME NEW u \in Users, NEW c \in 0 .. n, account' = [account EXCEPT ![u].password = c]
      PROVE  account' \in [Users -> AccountRow(n)] /\ OneOwner'
    BY <1>1, <1>7 DEF AccountRow, OneOwner
<1>8. ASSUME NEW u \in Users, account' = [account EXCEPT ![u].password = 0]
      PROVE  account' \in [Users -> AccountRow(n)] /\ OneOwner'
    <2>1. 0 \in 0 .. n
        BY <1>1
    <2> QED
        BY <1>7, <1>8, <2>1
<1>9. ASSUME NEW t \in Threads, PasswordChanged(t) \/ PasswordReset(t)
      PROVE  account' \in [Users -> AccountRow(n)] /\ OneOwner'
    <2>1. /\ Owner(t) \in Users /\ request[t].code \in 1 .. Len(codes)
          /\ account' = [account EXCEPT ![Owner(t)].password = request[t].code]
        BY <1>9, NewPassword
    <2>2. request[t].code \in 0 .. n
        BY <2>1 DEF n
    <2> QED
        BY <1>7, <2>1, <2>2
<1>10. AccountMove
    BY Moves
<1> QED
    BY <1>2, <1>3, <1>4, <1>5, <1>6, <1>8, <1>9, <1>10 DEF AccountMove, n

(* The types hold at the start. *)
LEMMA InitType == Init => TypeOK
<1> SUFFICES ASSUME Init PROVE TypeOK
    OBVIOUS
<1>1. codes = <<>> /\ Len(codes) = 0 /\ CodesOK
    BY EmptySeq DEF Init, CodesOK
<1>2. SessionsOK(Len(codes))
    BY EmptySeq DEF Init, SessionsOK
<1>3. AccountOK(Len(codes))
    <2>1. 0 \in 0 .. Len(codes)
        BY <1>1
    <2> QED
        BY <2>1, SessionsAssumption DEF Init, AccountOK, AccountRow
<1>4. RequestOK(Len(codes))
    BY DEF Init, RequestOK
<1>5. OneOwner
    BY SessionsAssumption DEF Init, OneOwner
<1> QED
    BY <1>1, <1>2, <1>3, <1>4, <1>5, TypeParts

(* Every step keeps the types. *)
LEMMA StepType == TypeOK /\ [Next]_vars => TypeOK'
<1> SUFFICES ASSUME TypeOK, [Next]_vars PROVE TypeOK'
    OBVIOUS
<1>1. /\ codes' \in Seq(CodeRow) /\ Len(codes) \in Nat /\ Len(codes') \in Nat
      /\ Len(codes) <= Len(codes')
    BY CodesStay
<1>2. SessionsOK(Len(codes))'
    BY <1>1, SessionsStay, MoreCodes DEF SessionsOK
<1>3. RequestOK(Len(codes))'
    BY <1>1, RequestsStay, MoreCodes DEF RequestOK
<1>4. AccountOK(Len(codes))' /\ OneOwner'
    BY <1>1, AccountsStay, MoreCodes DEF AccountOK
<1>5. CodesOK'
    BY <1>1 DEF CodesOK
<1>6. TypeOK' <=> /\ AccountOK(Len(codes))' /\ CodesOK' /\ SessionsOK(Len(codes))'
                  /\ RequestOK(Len(codes))' /\ OneOwner'
    BY TypeParts, PTL
<1> QED
    BY <1>2, <1>3, <1>4, <1>5, <1>6

(* The tables keep their types, an attempt in hand counts below the limit,  *)
(* and no two users ever have one address (app/models/auth.py).             *)
THEOREM TypeCorrect == Spec => []TypeOK
BY InitType, StepType, PTL DEF Spec

-----------------------------------------------------------------------------
(* The second factor and the passwords.                                     *)

(* A request has read a code for the purpose it serves.                     *)
ReadForItsPurpose ==
    \A t \in Threads :
        request[t] # Idle => codes[request[t].code].purpose = request[t].purpose

(* Until somebody has signed in with the second factor of a user, it is on, *)
(* and no token is made out to the address the user has.                    *)
FactorStaysOn ==
    \A u \in Reachable :
        \/ \E s \in DOMAIN sessions : sessions[s].user = u /\ OpenedByCode(s)
        \/ /\ account[u].two_factor /\ account[u].phone
           /\ \A s \in DOMAIN sessions : sessions[s].sub # account[u].email

SignInInv == ReadForItsPurpose /\ FactorStaysOn /\ SecondFactor /\ PasswordByOwnCode

(* At the start nobody is signed in and no password was chosen. *)
LEMMA InitSignIn == Init => SignInInv
<1> SUFFICES ASSUME Init PROVE SignInInv
    OBVIOUS
<1>1. DOMAIN sessions = {}
    BY DEF Init
<1>2. \A u \in Reachable : account[u].two_factor /\ account[u].phone
    BY SessionsAssumption DEF Init
<1>3. \A u \in Users : account[u].password = 0
    BY DEF Init
<1>4. \A t \in Threads : request[t] = Idle
    BY DEF Init
<1> QED
    BY <1>1, <1>2, <1>3, <1>4 DEF SignInInv, ReadForItsPurpose, FactorStaysOn, SecondFactor,
       PasswordByOwnCode

(* A code never changes its purpose under a request that has read it. *)
LEMMA StepRead ==
    ASSUME TypeOK, ReadForItsPurpose, [Next]_vars
    PROVE  ReadForItsPurpose'
<1> SUFFICES ASSUME NEW v \in Threads, request'[v] # Idle
             PROVE  codes'[request'[v].code].purpose = request'[v].purpose
    BY DEF ReadForItsPurpose
<1>1. ASSUME request'[v] = request[v]
      PROVE  codes'[request'[v].code].purpose = request'[v].purpose
    <2>1. /\ request[v].code \in 1 .. Len(codes)
          /\ codes[request[v].code].purpose = request[v].purpose
        BY <1>1, ReadRow DEF ReadForItsPurpose
    <2> QED
        BY <1>1, <2>1, CodesStay
<1>2. ASSUME NEW t \in Threads, ReadsCode(t)
      PROVE  codes'[request'[v].code].purpose = request'[v].purpose
    <2>1. request \in [Threads -> {Idle} \union RequestRow(Len(codes))]
        BY TypeParts DEF RequestOK
    <2>2. CASE v = t
        BY <1>2, <2>1, <2>2 DEF ReadsCode, ReadCode, Verifiable
    <2>3. CASE v # t
        BY <1>1, <1>2, <2>1, <2>3 DEF ReadsCode, ReadCode
    <2> QED
        BY <2>2, <2>3
<1>3. ASSUME NEW t \in Threads, Answered(t)
      PROVE  codes'[request'[v].code].purpose = request'[v].purpose
    <2>1. request \in [Threads -> {Idle} \union RequestRow(Len(codes))]
        BY TypeParts DEF RequestOK
    <2>2. request'[v] = request[v]
        BY <1>3, <2>1 DEF Answered
    <2> QED
        BY <1>1, <2>2
<1> QED
    BY <1>1, <1>2, <1>3, Moves DEF RequestMove

(* A session that was opened by a code stays one.                           *)
LEMMA OpenedStays ==
    ASSUME TypeOK, [Next]_vars, NEW s \in DOMAIN sessions, OpenedByCode(s)
    PROVE  /\ s \in DOMAIN sessions' /\ OpenedByCode(s)'
           /\ sessions'[s].user = sessions[s].user
<1>1. sessions \in Seq(SessionRow(Len(codes))) /\ DOMAIN sessions = 1 .. Len(sessions)
    BY TypeParts, LenProperties DEF SessionsOK
<1>2. sessions[s] \in SessionRow(Len(codes)) /\ Len(codes) \in Nat
    BY <1>1, ElementOfSeq, TypeParts, LenProperties DEF CodesOK
<1>3. sessions[s].by \in 1 .. Len(codes)
    BY <1>2 DEF OpenedByCode, SessionRow
<1>4. /\ DOMAIN sessions' = 1 .. Len(sessions') /\ s \in 1 .. Len(sessions')
      /\ sessions'[s].user = sessions[s].user /\ sessions'[s].by = sessions[s].by
    BY <1>1, SessionsStay, LenProperties
<1> QED
    BY <1>3, <1>4, CodesStay DEF OpenedByCode

(* Who is logged in by a code has a session opened by it.                   *)
LEMMA LoggedInOpens ==
    ASSUME TypeOK, ReadForItsPurpose, [Next]_vars, NEW t \in Threads, LoggedIn(t)
    PROVE  \E s \in DOMAIN sessions' :
              /\ s = Len(sessions) + 1 /\ OpenedByCode(s)'
              /\ sessions'[s].user = Owner(t) /\ sessions'[s].sub = account[Owner(t)].email
<1>1. PICK s \in Nat : s = Len(sessions) + 1
    BY SessionsStay
<1>2. PICK c \in 1 .. Len(codes) : c = request[t].code
    BY LoggedInSession
<1>3. /\ request[t] # Idle /\ request[t].purpose = "LOGIN_2FA" /\ codes' = Used(t)
      /\ Owner(t) \in Users /\ OpenSession(Owner(t), c)
    BY <1>2, LoggedInSession
<1>4. c \in 0 .. Len(codes) /\ c # 0
    BY <1>2
<1>5. /\ Len(sessions') = s /\ sessions'[s].user = Owner(t) /\ sessions'[s].by = c
      /\ sessions'[s].sub = account[Owner(t)].email
    BY <1>1, <1>3, <1>4, OpenedSession
<1>6. s \in DOMAIN sessions'
    <2>1. DOMAIN sessions' = 1 .. Len(sessions') /\ Len(sessions) \in Nat
        BY SessionsStay, LenProperties
    <2> QED
        BY <1>1, <1>5, <2>1
<1>7. codes'[c].user = codes[c].user /\ codes'[c].purpose = codes[c].purpose
    BY CodesStay
<1>8. codes'[c].consumed
    BY <1>2, <1>3, WrittenCodes
<1>9. codes[c].purpose = "LOGIN_2FA" /\ codes[c].user = Owner(t)
    BY <1>2, <1>3 DEF ReadForItsPurpose, Owner
<1>10. OpenedByCode(s)'
    BY <1>4, <1>5, <1>7, <1>8, <1>9 DEF OpenedByCode
<1> QED
    BY <1>1, <1>5, <1>6, <1>10

(* Every step leaves the second factor on until it was used.                *)
LEMMA StepFactor ==
    ASSUME TypeOK, ReadForItsPurpose, FactorStaysOn, [Next]_vars
    PROVE  FactorStaysOn'
<1> SUFFICES ASSUME NEW u \in Reachable,
                    ~\E s \in DOMAIN sessions' : sessions'[s].user = u /\ OpenedByCode(s)'
             PROVE  /\ account'[u].two_factor /\ account'[u].phone
                    /\ \A s \in DOMAIN sessions' : sessions'[s].sub # account'[u].email
    BY DEF FactorStaysOn
<1>1. /\ u \in Users /\ account[u].two_factor /\ account[u].phone
      /\ \A s \in DOMAIN sessions : sessions[s].sub # account[u].email
    BY OpenedStays, SessionsAssumption DEF FactorStaysOn
<1>2. account \in [Users -> AccountRow(Len(codes))] /\ OneOwner
    BY TypeParts DEF AccountOK
<1>3. \A s \in DOMAIN sessions : u \notin CurrentUser(s)
    BY <1>1 DEF CurrentUser
<1>4. /\ account'[u].two_factor /\ account'[u].phone
      /\ account'[u].email = account[u].email
    <2> DEFINE Same == /\ account'[u].two_factor /\ account'[u].phone
                       /\ account'[u].email = account[u].email
    <2>1. ASSUME NEW s \in DOMAIN sessions, NEW v \in CurrentUser(s), TakesAddress(v)
          PROVE  Same
        BY <1>1, <1>2, <1>3, <2>1 DEF CurrentUser, TakesAddress
    <2>2. ASSUME NEW s \in DOMAIN sessions, NEW v \in CurrentUser(s), NEW enabled \in BOOLEAN,
                 account' = [account EXCEPT ![v].two_factor = enabled]
          PROVE  Same
        BY <1>1, <1>2, <1>3, <2>2 DEF CurrentUser
    <2>3. ASSUME NEW v \in Users, account' = [account EXCEPT ![v].phone = TRUE]
          PROVE  Same
        BY <1>1, <1>2, <2>3 DEF AccountRow
    <2>4. ASSUME NEW v \in Users, NEW b \in BOOLEAN, account' = [account EXCEPT ![v].active = b]
          PROVE  Same
        BY <1>1, <1>2, <2>4 DEF AccountRow
    <2>5. ASSUME NEW v \in Users, NEW c, account' = [account EXCEPT ![v].password = c]
          PROVE  Same
        BY <1>1, <1>2, <2>5 DEF AccountRow
    <2>6. ASSUME NEW t \in Threads, PasswordChanged(t) \/ PasswordReset(t)
          PROVE  Same
        BY <2>5, <2>6, NewPassword
    <2>7. CASE account' = account
        BY <1>1, <2>7
    <2> QED
        BY <2>1, <2>2, <2>3, <2>4, <2>5, <2>6, <2>7, Moves DEF AccountMove
<1>5. ASSUME NEW v \in Users, v # u
      PROVE  account[v].email # account[u].email
    BY <1>1, <1>5, <1>2 DEF OneOwner
<1>6. /\ DOMAIN sessions = 1 .. Len(sessions) /\ DOMAIN sessions' = 1 .. Len(sessions')
      /\ Len(sessions) \in Nat
    BY SessionsStay, LenProperties, TypeParts DEF SessionsOK
<1>7. ASSUME NEW s \in DOMAIN sessions', s <= Len(sessions)
      PROVE  sessions'[s].sub # account[u].email
    BY <1>1, <1>6, <1>7, SessionsStay
<1>8. ASSUME NEW s \in DOMAIN sessions', ~(s <= Len(sessions))
      PROVE  sessions'[s].sub # account[u].email
    <2>1. CASE Len(sessions') = Len(sessions)
        BY <1>6, <1>8, <2>1
    <2>2. ASSUME NEW v \in Users, OpenSession(v, 0),
                 ~(account[v].two_factor /\ account[v].phone)
          PROVE  sessions'[s].sub # account[u].email
        <3>1. /\ Len(sessions') = Len(sessions) + 1
              /\ sessions'[Len(sessions) + 1].sub = account[v].email
            BY <2>2, CodesStay, OpenedSession
        <3>2. s = Len(sessions) + 1
            BY <1>6, <1>8, <3>1
        <3> QED
            BY <1>1, <1>5, <2>2, <3>1, <3>2
    <2>3. ASSUME NEW t \in Threads, LoggedIn(t)
          PROVE  sessions'[s].sub # account[u].email
        <3>1. PICK r \in DOMAIN sessions' :
                  /\ r = Len(sessions) + 1 /\ OpenedByCode(r)'
                  /\ sessions'[r].user = Owner(t) /\ sessions'[r].sub = account[Owner(t)].email
            BY <2>3, LoggedInOpens
        <3>2. Owner(t) \in Users /\ Owner(t) # u
            BY <2>3, <3>1, LoggedInSession
        <3>3. /\ OpenSession(Owner(t), request[t].code) /\ request[t].code \in 0 .. Len(codes)
            BY <2>3, LoggedInSession
        <3>4. Len(sessions') = Len(sessions) + 1
            BY <3>2, <3>3, OpenedSession
        <3>5. s = r
            BY <1>6, <1>8, <3>1, <3>4
        <3> QED
            BY <1>5, <3>1, <3>2, <3>5
    <2>4. ASSUME NEW r \in DOMAIN sessions, TouchSession(r)
          PROVE  Len(sessions') = Len(sessions)
        BY <2>4, TouchedSession
    <2>5. CASE Tick
        BY <2>1, <2>5, OlderRows
    <2> QED
        BY <2>1, <2>2, <2>3, <2>4, <2>5, Moves DEF SessionsMove
<1> QED
    BY <1>4, <1>7, <1>8

(* A session that is added was opened by a code, or with a password alone   *)
(* by somebody whose second factor is off.                                  *)
LEMMA AddedSession ==
    ASSUME TypeOK, ReadForItsPurpose, [Next]_vars,
           NEW s \in DOMAIN sessions', ~(s <= Len(sessions))
    PROVE  /\ s = Len(sessions) + 1
           /\ \/ OpenedByCode(s)'
              \/ /\ sessions'[s].by = 0 /\ sessions'[s].user \in Users
                 /\ ~(account[sessions'[s].user].two_factor /\ account[sessions'[s].user].phone)
<1>1. /\ DOMAIN sessions' = 1 .. Len(sessions') /\ Len(sessions) \in Nat
      /\ Len(sessions') \in Nat /\ Len(codes) \in Nat
    BY SessionsStay, CodesStay, LenProperties
<1>2. CASE Len(sessions') = Len(sessions)
    BY <1>1, <1>2
<1>3. ASSUME NEW v \in Users, OpenSession(v, 0),
             ~(account[v].two_factor /\ account[v].phone)
      PROVE  /\ s = Len(sessions) + 1
             /\ sessions'[s].by = 0 /\ sessions'[s].user = v
    <2>1. /\ Len(sessions') = Len(sessions) + 1
          /\ sessions'[Len(sessions) + 1].user = v /\ sessions'[Len(sessions) + 1].by = 0
        <3>1. 0 \in 0 .. Len(codes)
            BY <1>1
        <3> QED
            BY <1>3, <3>1, OpenedSession
    <2> QED
        BY <1>1, <1>3, <2>1
<1>4. ASSUME NEW t \in Threads, LoggedIn(t)
      PROVE  s = Len(sessions) + 1 /\ OpenedByCode(s)'
    <2>1. PICK r \in DOMAIN sessions' : r = Len(sessions) + 1 /\ OpenedByCode(r)'
        BY <1>4, LoggedInOpens
    <2>2. /\ Owner(t) \in Users /\ OpenSession(Owner(t), request[t].code)
          /\ request[t].code \in 0 .. Len(codes)
        BY <1>4, LoggedInSession
    <2>3. Len(sessions') = Len(sessions) + 1
        BY <2>2, OpenedSession
    <2>4. s = r
        BY <1>1, <2>1, <2>3
    <2> QED
        BY <2>1, <2>4
<1>5. ASSUME NEW r \in DOMAIN sessions, TouchSession(r)
      PROVE  Len(sessions') = Len(sessions)
    BY <1>5, TouchedSession
<1>6. CASE Tick
    BY <1>2, <1>6, OlderRows
<1> QED
    BY <1>2, <1>3, <1>4, <1>5, <1>6, Moves DEF SessionsMove

(* Every step keeps the second factor of those signed in. *)
LEMMA StepSecondFactor ==
    ASSUME TypeOK, SignInInv, [Next]_vars
    PROVE  SecondFactor'
<1> SUFFICES ASSUME NEW s \in DOMAIN sessions'
             PROVE  \/ OpenedByCode(s)'
                    \/ /\ sessions'[s].by = 0
                       /\ \/ sessions'[s].user \notin Reachable
                          \/ \E r \in 1 .. s - 1 :
                                sessions'[r].user = sessions'[s].user /\ OpenedByCode(r)'
    BY DEF SecondFactor
<1>1. /\ DOMAIN sessions = 1 .. Len(sessions) /\ DOMAIN sessions' = 1 .. Len(sessions')
      /\ Len(sessions) \in Nat /\ Len(sessions') \in Nat
    BY SessionsStay, LenProperties, TypeParts DEF SessionsOK
<1>2. CASE s <= Len(sessions)
    <2>1. s \in DOMAIN sessions
        BY <1>1, <1>2
    <2>2. sessions'[s].by = sessions[s].by /\ sessions'[s].user = sessions[s].user
        BY <1>1, <2>1, SessionsStay
    <2>3. CASE OpenedByCode(s)
        BY <2>1, <2>3, OpenedStays
    <2>4. ASSUME NEW r \in 1 .. s - 1, sessions[r].user = sessions[s].user, OpenedByCode(r)
          PROVE  sessions'[r].user = sessions'[s].user /\ OpenedByCode(r)'
        <3>1. r \in DOMAIN sessions
            BY <1>1, <2>1
        <3> QED
            BY <2>2, <2>4, <3>1, OpenedStays
    <2> QED
        BY <2>1, <2>2, <2>3, <2>4 DEF SignInInv, SecondFactor
<1>3. CASE ~(s <= Len(sessions))
    <2>1. /\ s = Len(sessions) + 1
          /\ \/ OpenedByCode(s)'
             \/ /\ sessions'[s].by = 0 /\ sessions'[s].user \in Users
                /\ ~(account[sessions'[s].user].two_factor /\ account[sessions'[s].user].phone)
        BY <1>3, AddedSession DEF SignInInv
    <2>2. ASSUME sessions'[s].user \in Reachable,
                 ~(account[sessions'[s].user].two_factor /\ account[sessions'[s].user].phone)
          PROVE  \E r \in 1 .. s - 1 : sessions'[r].user = sessions'[s].user /\ OpenedByCode(r)'
        <3>1. PICK r \in DOMAIN sessions :
                  sessions[r].user = sessions'[s].user /\ OpenedByCode(r)
            BY <2>2 DEF SignInInv, FactorStaysOn
        <3>2. r \in 1 .. s - 1
            BY <1>1, <2>1
        <3>3. OpenedByCode(r)' /\ sessions'[r].user = sessions[r].user
            BY <3>1, OpenedStays
        <3> QED
            BY <3>1, <3>2, <3>3
    <2> QED
        BY <2>1, <2>2
<1> QED
    BY <1>1, <1>2, <1>3

(* Every step keeps passwords to the codes of their owners. *)
LEMMA StepPassword ==
    ASSUME TypeOK, SignInInv, [Next]_vars
    PROVE  PasswordByOwnCode'
<1> SUFFICES ASSUME NEW u \in Users, account'[u].password # 0
             PROVE  LET c == account'[u].password
                    IN  /\ codes'[c].user = u
                        /\ codes'[c].purpose \in {"PASSWORD_CHANGE", "PASSWORD_RESET"}
                        /\ codes'[c].consumed
    BY DEF PasswordByOwnCode
<1>1. account \in [Users -> AccountRow(Len(codes))] /\ Len(codes) \in Nat
    BY TypeParts, CodesStay DEF AccountOK
<1>2. ASSUME account'[u].password = account[u].password
      PROVE  LET c == account'[u].password
             IN  /\ codes'[c].user = u
                 /\ codes'[c].purpose \in {"PASSWORD_CHANGE", "PASSWORD_RESET"}
                 /\ codes'[c].consumed
    <2>1. PICK c \in 1 .. Len(codes) : c = account[u].password
        BY <1>1, <1>2 DEF AccountRow
    <2>2. /\ codes[c].user = u /\ codes[c].consumed
          /\ codes[c].purpose \in {"PASSWORD_CHANGE", "PASSWORD_RESET"}
        BY <1>2, <2>1 DEF SignInInv, PasswordByOwnCode
    <2> QED
        BY <1>2, <2>1, <2>2, CodesStay
<1>3. ASSUME NEW t \in Threads, PasswordChanged(t) \/ PasswordReset(t)
      PROVE  LET c == account'[u].password
             IN  /\ codes'[c].user = u
                 /\ codes'[c].purpose \in {"PASSWORD_CHANGE", "PASSWORD_RESET"}
                 /\ codes'[c].consumed
    <2>1. /\ request[t] # Idle /\ codes' = Used(t)
          /\ request[t].purpose \in {"PASSWORD_CHANGE", "PASSWORD_RESET"}
          /\ request[t].code \in 1 .. Len(codes) /\ Owner(t) \in Users
          /\ account' = [account EXCEPT ![Owner(t)].password = request[t].code]
        BY <1>3, NewPassword
    <2>2. PICK c \in 1 .. Len(codes) : c = request[t].code
        BY <2>1
    <2>3. CASE u = Owner(t)
        <3>1. account'[u].password = c
            BY <1>1, <2>1, <2>2, <2>3 DEF AccountRow
        <3>2. codes[c].user = u /\ codes[c].purpose \in {"PASSWORD_CHANGE", "PASSWORD_RESET"}
            BY <2>1, <2>2, <2>3 DEF Owner, SignInInv, ReadForItsPurpose
        <3>3. codes'[c].consumed
            BY <2>1, <2>2, WrittenCodes
        <3> QED
            BY <3>1, <3>2, <3>3, CodesStay
    <2>4. CASE u # Owner(t)
        BY <1>1, <1>2, <2>1, <2>4
    <2> QED
        BY <2>3, <2>4
<1>4. ASSUME NEW v \in Users, account' = [account EXCEPT ![v].password = 0]
      PROVE  account'[u].password = account[u].password
    BY <1>1, <1>4 DEF AccountRow
<1>5. ASSUME NEW s \in DOMAIN sessions, NEW v \in CurrentUser(s), TakesAddress(v)
      PROVE  account'[u].password = account[u].password
    BY <1>1, <1>5 DEF AccountRow, TakesAddress, CurrentUser
<1>6. ASSUME NEW v \in Users, NEW b,
             \/ account' = [account EXCEPT ![v].phone = b]
             \/ account' = [account EXCEPT ![v].active = b]
             \/ account' = [account EXCEPT ![v].two_factor = b]
      PROVE  account'[u].password = account[u].password
    BY <1>1, <1>6 DEF AccountRow
<1> QED
    BY <1>2, <1>3, <1>4, <1>5, <1>6, Moves DEF AccountMove, CurrentUser

(* What signing in keeps true together.                                     *)
LEMMA SignInInvariant == Spec => [](TypeOK /\ SignInInv)
<1>1. Init => TypeOK /\ SignInInv
    BY InitType, InitSignIn
<1>2. TypeOK /\ SignInInv /\ [Next]_vars => TypeOK' /\ SignInInv'
    BY StepType, StepRead, StepFactor, StepSecondFactor, StepPassword DEF SignInInv
<1> QED
    BY <1>1, <1>2, PTL DEF Spec

(* Nobody who began with the second factor on is ever signed in without it  *)
(* having been used, whatever addresses change hands (auth.py: login,       *)
(* verify_login_otp, update_two_factor).                                    *)
THEOREM SecondFactorUsed == Spec => []SecondFactor
<1>1. TypeOK /\ SignInInv => SecondFactor
    BY DEF SignInInv
<1> QED
    BY <1>1, SignInInvariant, PTL

(* A password is one that was sent by SMS, or chosen with a code that went  *)
(* to its owner for that purpose (auth.py: confirm_password_change,         *)
(* reset_password).                                                         *)
THEOREM PasswordsByOwnCode == Spec => []PasswordByOwnCode
<1>1. TypeOK /\ SignInInv => PasswordByOwnCode
    BY DEF SignInInv
<1> QED
    BY <1>1, SignInInvariant, PTL

-----------------------------------------------------------------------------
(* Uses and attempts of a code.                                             *)

(* The requests that have read a code and not yet answered.                 *)
Readers(c) == {t \in Threads : request[t] # Idle /\ request[t].code = c}

(* Each of them may still use the code; none can be added once it is used.  *)
UsesLeft ==
    \A c \in DOMAIN codes :
        /\ ~codes[c].consumed => codes[c].uses = 0
        /\ codes[c].uses + Cardinality(Readers(c)) <= Cardinality(Threads)

(* Those who read a code are at most all requests that are served. *)
LEMMA ReadersFinite ==
    ASSUME NEW c
    PROVE  /\ IsFiniteSet(Readers(c)) /\ Cardinality(Readers(c)) \in Nat
           /\ Cardinality(Readers(c)) <= Cardinality(Threads)
           /\ Cardinality(Threads) \in Nat
<1>1. Readers(c) \in SUBSET Threads
    BY DEF Readers
<1> QED
    BY <1>1, SessionsAssumption, FS_Subset, FS_CardinalityType

(* An answer takes one from the readers of its code and adds at most one    *)
(* use to it.                                                               *)
LEMMA AnswerUses ==
    ASSUME TypeOK, UsesLeft, [Next]_vars, NEW t \in Threads, request[t] # Idle, Answered(t),
           codes' = codes \/ codes' \in {CountedWrong(t), Consumed(t), Used(t)},
           NEW c \in DOMAIN codes
    PROVE  /\ ~codes'[c].consumed => codes'[c].uses = 0
           /\ codes'[c].uses + Cardinality(Readers(c)') <= Cardinality(Threads)
<1>1. /\ codes \in Seq(CodeRow) /\ DOMAIN codes = 1 .. Len(codes)
      /\ request \in [Threads -> {Idle} \union RequestRow(Len(codes))]
    BY TypeParts, LenProperties DEF CodesOK, RequestOK
<1>2. codes[c] \in CodeRow /\ codes[c].uses \in Nat
    <2>1. codes[c] \in CodeRow
        BY <1>1, ElementOfSeq
    <2> QED
        BY <2>1 DEF CodeRow
<1>3. /\ ~codes[c].consumed => codes[c].uses = 0
      /\ codes[c].uses + Cardinality(Readers(c)) <= Cardinality(Threads)
    BY DEF UsesLeft
<1>4. \A v \in Threads : request'[v] = IF v = t THEN Idle ELSE request[v]
    BY <1>1 DEF Answered
<1>5. Readers(c)' = Readers(c) \ {t}
    BY <1>4 DEF Readers
<1>6. /\ IsFiniteSet(Readers(c)) /\ Cardinality(Readers(c)) \in Nat
      /\ Cardinality(Threads) \in Nat
    BY ReadersFinite
<1>7. Cardinality(Readers(c)') = IF t \in Readers(c) THEN Cardinality(Readers(c)) - 1
                                                     ELSE Cardinality(Readers(c))
    BY <1>5, <1>6, FS_RemoveElement
<1>8. t \in Readers(c) <=> c = request[t].code
    BY DEF Readers
<1>9. CASE codes' = codes
    BY <1>2, <1>3, <1>6, <1>7, <1>9
<1>10. CASE codes' \in {CountedWrong(t), Consumed(t), Used(t)}
    <2>1. /\ codes[c].consumed => codes'[c].consumed
          /\ c # request[t].code => codes'[c] = codes[c]
          /\ codes' \in {Consumed(t), Used(t)} => codes'[request[t].code].consumed
          /\ codes'[request[t].code].uses =
                codes[request[t].code].uses + (IF codes' = Used(t) THEN 1 ELSE 0)
        BY <1>1, <1>10, WrittenCodes
    <2>2. CASE c # request[t].code
        BY <1>2, <1>3, <1>6, <1>7, <1>8, <2>1, <2>2
    <2>3. CASE c = request[t].code /\ codes' = Used(t)
        BY <1>2, <1>3, <1>6, <1>7, <1>8, <2>1, <2>3
    <2>4. CASE c = request[t].code /\ codes' # Used(t)
        <3>1. codes'[c].uses = codes[c].uses
            BY <1>2, <2>1, <2>4
        <3>2. Cardinality(Readers(c)') <= Cardinality(Readers(c))
            BY <1>6, <1>7
        <3>3. ~codes'[c].consumed => ~codes[c].consumed
            BY <2>1
        <3>4. Cardinality(Readers(c)') \in Int
            BY <1>6, <1>7
        <3> QED
            BY <1>2, <1>3, <1>6, <3>1, <3>2, <3>3, <3>4
    <2> QED
        BY <2>2, <2>3, <2>4
<1> QED
    BY <1>9, <1>10

(* A request that reads a code finds it not used up.                        *)
LEMMA ReadUses ==
    ASSUME TypeOK, UsesLeft, NEW t \in Threads, ReadsCode(t), NEW c \in DOMAIN codes
    PROVE  codes[c].uses + Cardinality(Readers(c)') <= Cardinality(Threads)
<1>1. request \in [Threads -> {Idle} \union RequestRow(Len(codes))]
    BY TypeParts DEF RequestOK
<1>2. PICK purpose \in Purposes, u \in Users \union {Nobody} : ReadCode(t, purpose, u)
    BY DEF ReadsCode
<1>3. PICK d \in DOMAIN codes :
          /\ ~codes[d].consumed /\ request[t] = Idle
          /\ request'[t].code = d
          /\ \A v \in Threads \ {t} : request'[v] = request[v]
    BY <1>1, <1>2 DEF ReadCode, Verifiable
<1>4. CASE c # d
    <2>1. Readers(c)' \subseteq Readers(c)
        BY <1>3, <1>4 DEF Readers
    <2>2. Readers(c)' = Readers(c)
        BY <1>3, <1>4, <2>1 DEF Readers
    <2> QED
        BY <2>2 DEF UsesLeft
<1>5. CASE c = d
    <2>1. codes[c].uses = 0
        BY <1>3, <1>5 DEF UsesLeft
    <2>2. Readers(c)' \in SUBSET Threads
        BY DEF Readers
    <2>3. Cardinality(Readers(c)') <= Cardinality(Threads) /\ Cardinality(Readers(c)') \in Nat
        BY <2>2, SessionsAssumption, FS_Subset, FS_CardinalityType
    <2> QED
        BY <2>1, <2>3
<1> QED
    BY <1>4, <1>5

(* Every step keeps the uses of a code and its readers within the requests. *)
LEMMA StepUses ==
    ASSUME TypeOK, UsesLeft, [Next]_vars
    PROVE  UsesLeft'
<1>1. /\ codes \in Seq(CodeRow) /\ DOMAIN codes = 1 .. Len(codes) /\ Len(codes) \in Nat
      /\ DOMAIN codes' = 1 .. Len(codes')
      /\ request \in [Threads -> {Idle} \union RequestRow(Len(codes))]
    BY TypeParts, CodesStay, LenProperties DEF CodesOK, RequestOK
<1>2. CASE codes' = codes /\ request' = request
    BY <1>2 DEF UsesLeft, Readers
<1>3. ASSUME NEW t \in Threads, ReadsCode(t)
      PROVE  UsesLeft'
    <2>1. codes' = codes
        BY <1>3 DEF ReadsCode
    <2>2. \A c \in DOMAIN codes : codes[c].uses + Cardinality(Readers(c)') <= Cardinality(Threads)
        BY <1>3, ReadUses
    <2>3. \A c \in DOMAIN codes : ~codes[c].consumed => codes[c].uses = 0
        BY DEF UsesLeft
    <2> QED
        BY <2>1, <2>2, <2>3 DEF UsesLeft
<1>4. ASSUME NEW t \in Threads, request[t] # Idle, Answered(t),
             codes' = codes \/ codes' \in {CountedWrong(t), Consumed(t), Used(t)}
      PROVE  UsesLeft'
    <2>1. DOMAIN codes' = DOMAIN codes
        BY <1>1, <1>4, WrittenCodes
    <2> QED
        BY <1>4, <2>1, AnswerUses DEF UsesLeft
<1>5. ASSUME NEW u \in Users, NEW purpose \in Purposes, RequestOtp(u, purpose),
             request' = request
      PROVE  UsesLeft'
    <2> DEFINE n == Len(codes)
    <2>1. /\ Len(codes') = n + 1
          /\ \A c \in 1 .. n : codes'[c] = codes[c]
          /\ codes'[n + 1].uses = 0 /\ ~codes'[n + 1].consumed
        BY <1>5, RequestedCode
    <2>2. ASSUME NEW c \in DOMAIN codes'
          PROVE  /\ ~codes'[c].consumed => codes'[c].uses = 0
                 /\ codes'[c].uses + Cardinality(Readers(c)') <= Cardinality(Threads)
        <3>1. Readers(c)' = Readers(c)
            BY <1>5 DEF Readers
        <3>2. CASE c \in 1 .. n
            BY <1>1, <2>1, <3>1, <3>2 DEF UsesLeft
        <3>3. CASE c = n + 1
            BY <2>1, <3>1, <3>3, ReadersFinite
        <3>4. c \in 1 .. n \/ c = n + 1
            BY <1>1, <2>1
        <3> QED
            BY <3>2, <3>3, <3>4
    <2> QED
        BY <2>2 DEF UsesLeft
<1>6. CASE Tick
    <2>1. request' = request /\ DOMAIN codes' = DOMAIN codes
        BY <1>1, <1>6, OlderRows DEF Tick
    <2>2. \A c \in DOMAIN codes : /\ codes'[c].consumed = codes[c].consumed
                                   /\ codes'[c].uses = codes[c].uses
        BY <1>1, <1>6, OlderRows
    <2>3. \A c \in DOMAIN codes : Readers(c)' = Readers(c)
        BY <2>1 DEF Readers
    <2> QED
        BY <2>1, <2>2, <2>3 DEF UsesLeft
<1>7. \/ codes' = codes /\ request' = request
      \/ \E t \in Threads : ReadsCode(t)
      \/ \E t \in Threads : /\ request[t] # Idle /\ Answered(t)
                            /\ codes' = codes \/ codes' \in {CountedWrong(t), Consumed(t), Used(t)}
      \/ \E u \in Users, purpose \in Purposes : RequestOtp(u, purpose) /\ request' = request
      \/ Tick
    BY DEF Next, vars, Login, ForgotPassword, VerifyLoginOtp, ResetPassword, ReadCurrentUser,
       RequestPasswordChange, ConfirmPasswordChange, UpdateUser, ResetUserPassword,
       UpdateProfile, UpdateTwoFactor, Finish, WrongCode, AccountGone, LoggedIn,
       PasswordChanged, CodeOfAnother, PasswordReset, RightCode, ReadsCode, CurrentUser, Purposes
<1> QED
    BY <1>2, <1>3, <1>4, <1>5, <1>6, <1>7

(* However many requests overlap, a code works at most once for each of     *)
(* those the API serves at the same time (otp_service.py: verify_otp).      *)
THEOREM UsesAreBounded == Spec => []UsesBounded
<1>1. Init => UsesLeft
    BY DEF Init, UsesLeft
<1>2. TypeOK /\ UsesLeft /\ [Next]_vars => UsesLeft'
    BY StepUses
<1>3. TypeOK /\ UsesLeft => UsesBounded
    <2> SUFFICES ASSUME TypeOK, UsesLeft, NEW c \in DOMAIN codes
                 PROVE  codes[c].uses <= Cardinality(Threads)
        BY DEF UsesBounded
    <2>1. codes[c] \in CodeRow
        BY TypeParts, LenProperties, ElementOfSeq DEF CodesOK
    <2>2. codes[c].uses \in Nat
        BY <2>1 DEF CodeRow
    <2> QED
        BY <2>2, ReadersFinite DEF UsesLeft
<1> QED
    BY <1>1, <1>2, <1>3, TypeCorrect, PTL DEF Spec

-----------------------------------------------------------------------------
(* How many wrong answers a code takes.  First the arithmetic of Answers,   *)
(* by induction: the least number outside a set would have a predecessor.   *)
LEMMA SetInduction ==
    ASSUME NEW S, 0 \in S, \A n \in Nat : n \in S => n + 1 \in S
    PROVE  \A n \in Nat : n \in S
<1> DEFINE T == {n \in Nat : n \notin S}
           R == OpToRel(<, Nat)
<1>1. SUFFICES ASSUME T # {} PROVE FALSE
    OBVIOUS
<1>2. \E x \in T : \A y \in T : ~ (<<y, x>> \in R)
    <2> HIDE DEF R
    <2>1. IsWellFoundedOn(R, Nat)
        BY NatLessThanWellFounded DEF R
    <2> QED
        BY <1>1, <2>1, WFMin
<1>3. PICK x \in T : \A y \in T : ~ (<<y, x>> \in R)
    BY <1>2
<1>4. x \in Nat /\ x # 0 /\ x - 1 \in Nat /\ x - 1 < x
    OBVIOUS
<1>5. x - 1 \in T
    BY <1>4
<1>6. <<x - 1, x>> \in R
    BY <1>4 DEF OpToRel
<1> QED
    BY <1>3, <1>5, <1>6

(* What Answers computes at one place from its values at others.            *)
Rule(f, n, m) == IF n = 0 \/ m = 0 THEN 0 ELSE f[<<n - 1, m>>] + 1 + f[<<n, m - 1>>]

(* A table that follows the rule as far as n + m is at most k.              *)
Tables == [Nat \X Nat -> Nat]
UpTo(f, k) ==
    /\ f \in Tables
    /\ \A n, m \in Nat : n + m <= k => f[<<n, m>>] = Rule(f, n, m)

(* Two such tables agree so far.                                            *)
LEMMA TablesAgree ==
    ASSUME NEW k \in Nat, NEW f, NEW g, UpTo(f, k), UpTo(g, k)
    PROVE  \A n, m \in Nat : n + m <= k => f[<<n, m>>] = g[<<n, m>>]
<1> DEFINE S == {j \in Nat : \A n, m \in Nat : n + m <= j /\ n + m <= k => f[<<n, m>>] = g[<<n, m>>]}
<1>1. 0 \in S
    <2>1. \A n, m \in Nat : n + m <= 0 => n = 0 /\ n + m <= k
        OBVIOUS
    <2>2. \A n, m \in Nat : n = 0 /\ n + m <= k => f[<<n, m>>] = 0 /\ g[<<n, m>>] = 0
        BY DEF UpTo, Rule
    <2> QED
        BY <2>1, <2>2
<1>2. ASSUME NEW j \in Nat, j \in S
      PROVE  j + 1 \in S
    <2>1. ASSUME NEW n \in Nat, NEW m \in Nat, n + m <= j + 1, n + m <= k
          PROVE  f[<<n, m>>] = g[<<n, m>>]
        <3>1. f[<<n, m>>] = Rule(f, n, m) /\ g[<<n, m>>] = Rule(g, n, m)
            BY <2>1 DEF UpTo
        <3>2. CASE n = 0 \/ m = 0
            BY <3>1, <3>2 DEF Rule
        <3>3. CASE n # 0 /\ m # 0
            <4>1. /\ n - 1 \in Nat /\ m - 1 \in Nat
                  /\ n - 1 + m <= j /\ n - 1 + m <= k /\ n + (m - 1) <= j /\ n + (m - 1) <= k
                BY <2>1, <3>3
            <4>2. f[<<n - 1, m>>] = g[<<n - 1, m>>] /\ f[<<n, m - 1>>] = g[<<n, m - 1>>]
                BY <1>2, <4>1
            <4> QED
                BY <3>1, <3>3, <4>2 DEF Rule
        <3> QED
            BY <3>2, <3>3
    <2> QED
        BY <2>1
<1> HIDE DEF S
<1>3. k \in S
    BY <1>1, <1>2, SetInduction
<1> QED
    BY <1>3 DEF S

(* There are tables that go as far as one wants.                            *)
LEMMA TablesExist ==
    ASSUME NEW k \in Nat
    PROVE  \E f : UpTo(f, k)
<1> DEFINE S == {j \in Nat : \E f : UpTo(f, j)}
<1>1. 0 \in S
    <2> DEFINE f == [p \in Nat \X Nat |-> 0]
    <2>1. f \in Tables
        BY DEF Tables
    <2>2. \A n, m \in Nat : n + m <= 0 => n = 0
        OBVIOUS
    <2>3. \A n, m \in Nat : f[<<n, m>>] = 0
        OBVIOUS
    <2> HIDE DEF f
    <2>4. UpTo(f, 0)
        BY <2>1, <2>2, <2>3 DEF UpTo, Rule
    <2> QED
        BY <2>4
<1>2. ASSUME NEW j \in Nat, j \in S
      PROVE  j + 1 \in S
    <2>1. PICK f : UpTo(f, j)
        BY <1>2
    <2> DEFINE g == [p \in Nat \X Nat |-> IF p[1] + p[2] <= j THEN f[p] ELSE Rule(f, p[1], p[2])]
    <2>2. \A n, m \in Nat : g[<<n, m>>] = IF n + m <= j THEN f[<<n, m>>] ELSE Rule(f, n, m)
        OBVIOUS
    <2>3. \A n, m \in Nat : f[<<n, m>>] \in Nat
        BY <2>1 DEF UpTo, Tables
    <2>4. \A n, m \in Nat : Rule(f, n, m) \in Nat
        BY <2>3 DEF Rule
    <2>5. g \in Tables
        BY <2>3, <2>4 DEF Tables
    <2> HIDE DEF g
    <2>6. ASSUME NEW n \in Nat, NEW m \in Nat, n + m <= j + 1
          PROVE  g[<<n, m>>] = Rule(g, n, m)
        <3>1. g[<<n, m>>] = Rule(f, n, m)
            BY <2>1, <2>2 DEF UpTo
        <3>2. CASE n = 0 \/ m = 0
            BY <3>1, <3>2 DEF Rule
        <3>3. CASE n # 0 /\ m # 0
            <4>1. /\ n - 1 \in Nat /\ m - 1 \in Nat
                  /\ n - 1 + m <= j /\ n + (m - 1) <= j
                BY <2>6, <3>3
            <4>2. f[<<n - 1, m>>] = g[<<n - 1, m>>] /\ f[<<n, m - 1>>] = g[<<n, m - 1>>]
                BY <2>2, <4>1
            <4> QED
                BY <3>1, <3>3, <4>2 DEF Rule
        <3> QED
            BY <3>2, <3>3
    <2>7. UpTo(g, j + 1)
        BY <2>5, <2>6 DEF UpTo
    <2> QED
        BY <2>7
<1> HIDE DEF S
<1>3. k \in S
    BY <1>1, <1>2, SetInduction
<1> QED
    BY <1>3 DEF S

Table(k) == CHOOSE f : UpTo(f, k)

(* So there is one that follows it everywhere, which is what Answers is.    *)
LEMMA AnswersRule ==
    \A n, m \in Nat :
        /\ Answers[<<n, m>>] \in Nat
        /\ Answers[<<n, m>>] = Rule(Answers, n, m)
<1> DEFINE g == [p \in Nat \X Nat |-> Table(p[1] + p[2])[p]]
           Follows(f) == f = [p \in Nat \X Nat |->
               LET n == p[1]
                   m == p[2]
               IN  IF n = 0 \/ m = 0 THEN 0 ELSE f[<<n - 1, m>>] + 1 + f[<<n, m - 1>>]]
<1>1. \A k \in Nat : UpTo(Table(k), k)
    BY TablesExist DEF Table
<1>2. ASSUME NEW n \in Nat, NEW m \in Nat
      PROVE  g[<<n, m>>] = Table(n + m)[<<n, m>>]
    OBVIOUS
<1>3. ASSUME NEW n \in Nat, NEW m \in Nat
      PROVE  g[<<n, m>>] \in Nat /\ g[<<n, m>>] = Rule(g, n, m)
    <2> HIDE DEF g
    <2>1. n + m \in Nat /\ n + m <= n + m
        OBVIOUS
    <2>2. UpTo(Table(n + m), n + m)
        BY <1>1, <2>1
    <2>3. Table(n + m)[<<n, m>>] \in Nat /\ Table(n + m)[<<n, m>>] = Rule(Table(n + m), n, m)
        BY <2>1, <2>2 DEF UpTo, Tables
    <2>4. CASE n = 0 \/ m = 0
        BY <1>2, <2>3, <2>4 DEF Rule
    <2>5. CASE n # 0 /\ m # 0
        <3> DEFINE k == n + m - 1
        <3>1. /\ n - 1 \in Nat /\ m - 1 \in Nat /\ k \in Nat
              /\ n - 1 + m = k /\ n + (m - 1) = k /\ n + m = k + 1
            BY <2>5
        <3> HIDE DEF k
        <3>2. UpTo(Table(n + m), k) /\ UpTo(Table(k), k)
            BY <1>1, <2>2, <3>1 DEF UpTo
        <3>3. \A i, j \in Nat : i + j <= k => Table(k)[<<i, j>>] = Table(n + m)[<<i, j>>]
            BY <3>1, <3>2, TablesAgree
        <3>4. /\ Table(k)[<<n - 1, m>>] = Table(n + m)[<<n - 1, m>>]
              /\ Table(k)[<<n, m - 1>>] = Table(n + m)[<<n, m - 1>>]
            BY <3>1, <3>3
        <3>5. g[<<n - 1, m>>] = Table(k)[<<n - 1, m>>] /\ g[<<n, m - 1>>] = Table(k)[<<n, m - 1>>]
            BY <1>2, <3>1
        <3> QED
            BY <1>2, <2>3, <2>5, <3>4, <3>5 DEF Rule
    <2> QED
        BY <2>4, <2>5
<1>4. Follows(g)
    <2>1. \A n, m \in Nat : g[<<n, m>>] = Rule(g, n, m)
        BY <1>3
    <2>2. g = [p \in Nat \X Nat |-> g[p]]
        OBVIOUS
    <2> HIDE DEF g
    <2>3. \A p \in Nat \X Nat : p[1] \in Nat /\ p[2] \in Nat /\ p = <<p[1], p[2]>>
        OBVIOUS
    <2>4. \A p \in Nat \X Nat : g[p] = Rule(g, p[1], p[2])
        BY <2>1, <2>3
    <2> QED
        BY <2>2, <2>4 DEF Rule
<1>5. Follows(Answers)
    <2> HIDE DEF g
    <2> QED
        BY <1>4 DEF Answers
<1> HIDE DEF g
<1>6. \A n, m \in Nat : Answers[<<n, m>>] = Rule(Answers, n, m)
    BY <1>5 DEF Rule
<1>7. ASSUME NEW k \in Nat
      PROVE  \A n, m \in Nat : n + m <= k => Answers[<<n, m>>] \in Nat
    <2> DEFINE S == {j \in Nat : \A n, m \in Nat : n + m <= j => Answers[<<n, m>>] \in Nat}
    <2>1. 0 \in S
        <3>1. \A n, m \in Nat : n + m <= 0 => n = 0
            OBVIOUS
        <3> QED
            BY <1>6, <3>1 DEF Rule
    <2>2. ASSUME NEW j \in Nat, j \in S
          PROVE  j + 1 \in S
        <3>1. ASSUME NEW n \in Nat, NEW m \in Nat, n + m <= j + 1
              PROVE  Answers[<<n, m>>] \in Nat
            <4>1. CASE n = 0 \/ m = 0
                BY <1>6, <4>1 DEF Rule
            <4>2. CASE n # 0 /\ m # 0
                <5>1. /\ n - 1 \in Nat /\ m - 1 \in Nat
                      /\ n - 1 + m <= j /\ n + (m - 1) <= j
                    BY <3>1, <4>2
                <5>2. Answers[<<n - 1, m>>] \in Nat /\ Answers[<<n, m - 1>>] \in Nat
                    BY <2>2, <5>1
                <5> QED
                    BY <1>6, <4>2, <5>2 DEF Rule
            <4> QED
                BY <4>1, <4>2
        <3> QED
            BY <3>1
    <2> HIDE DEF S
    <2>3. k \in S
        BY <2>1, <2>2, SetInduction
    <2> QED
        BY <2>3 DEF S
<1>8. \A n, m \in Nat : Answers[<<n, m>>] \in Nat
    <2> SUFFICES ASSUME NEW n \in Nat, NEW m \in Nat PROVE Answers[<<n, m>>] \in Nat
        OBVIOUS
    <2>1. n + m \in Nat /\ n + m <= n + m
        OBVIOUS
    <2> QED
        BY <1>7, <2>1
<1> QED
    BY <1>6, <1>8

(* What the n-th of the requests adds that has m attempts left: if it holds *)
(* the count it has read while the others use up theirs, it gives them      *)
(* m - 1 again.                                                             *)
Added(n, m) == IF m = 0 THEN 0 ELSE 1 + Answers[<<n, m - 1>>]

(* Answers is the sum of what each adds.                                    *)
LEMMA AnswersAdd ==
    ASSUME NEW n \in Nat, NEW m \in Nat
    PROVE  /\ Answers[<<n, m>>] \in Nat /\ Answers[<<0, m>>] = 0
           /\ Added(n, m) \in Nat /\ Added(n, m + 1) = 1 + Answers[<<n, m>>]
           /\ Answers[<<n + 1, m>>] = Answers[<<n, m>>] + Added(n + 1, m)
<1>1. Answers[<<n, m>>] \in Nat /\ Answers[<<0, m>>] = 0
    BY AnswersRule DEF Rule
<1>2. Added(n, m) \in Nat
    <2>1. m # 0 => m - 1 \in Nat
        OBVIOUS
    <2> QED
        BY <2>1, AnswersRule DEF Added
<1>3. Added(n, m + 1) = 1 + Answers[<<n, m>>]
    <2>1. m + 1 # 0 /\ m + 1 - 1 = m
        OBVIOUS
    <2> QED
        BY <2>1 DEF Added
<1>4. Answers[<<n + 1, m>>] = Answers[<<n, m>>] + Added(n + 1, m)
    <2> DEFINE k == n + 1
    <2>1. k \in Nat /\ k # 0 /\ k - 1 = n
        OBVIOUS
    <2> HIDE DEF k
    <2>2. Answers[<<k, m>>] = Rule(Answers, k, m)
        BY <2>1, AnswersRule
    <2>3. CASE m = 0
        <3>1. Answers[<<n, m>>] = 0 /\ Answers[<<k, m>>] = 0 /\ Added(k, m) = 0
            BY <2>1, <2>3, AnswersRule DEF Rule, Added
        <3> QED
            BY <3>1 DEF k
    <2>4. CASE m # 0
        <3>1. m - 1 \in Nat
            BY <2>4
        <3>2. Answers[<<k, m - 1>>] \in Nat
            BY <2>1, <3>1, AnswersRule
        <3>3. Answers[<<k, m>>] = Answers[<<k - 1, m>>] + 1 + Answers[<<k, m - 1>>]
            BY <2>1, <2>2, <2>4 DEF Rule
        <3>4. Added(k, m) = 1 + Answers[<<k, m - 1>>]
            BY <2>4 DEF Added
        <3>5. Answers[<<k, m>>] = Answers[<<n, m>>] + Added(k, m)
            BY <1>1, <2>1, <3>2, <3>3, <3>4
        <3> QED
            BY <3>5 DEF k
    <2> QED
        BY <2>3, <2>4
<1> QED
    BY <1>1, <1>2, <1>3, <1>4

(* s adds up what h has at the places up to k.                              *)
Running(s, h, k) ==
    /\ s \in [Nat -> Nat] /\ s[0] = 0
    /\ \A i \in 1 .. k : s[i] = s[i - 1] + h[i]

(* Everything can be added up.                                              *)
LEMMA RunningExists ==
    ASSUME NEW k \in Nat, NEW h, \A i \in 1 .. k : h[i] \in Nat
    PROVE  \E s : Running(s, h, k)
<1> DEFINE S == {j \in Nat : j <= k => \E s : Running(s, h, j)}
<1>1. 0 \in S
    <2> DEFINE s == [i \in Nat |-> 0]
    <2>1. Running(s, h, 0)
        BY DEF Running
    <2> QED
        BY <2>1
<1>2. ASSUME NEW j \in Nat, j \in S
      PROVE  j + 1 \in S
    <2>1. SUFFICES ASSUME j + 1 <= k
                   PROVE  \E s : Running(s, h, j + 1)
        OBVIOUS
    <2>2. j <= k /\ j + 1 \in 1 .. k
        BY <2>1
    <2>3. PICK s : Running(s, h, j)
        BY <1>2, <2>2
    <2> DEFINE r == [s EXCEPT ![j + 1] = s[j] + h[j + 1]]
    <2>4. s \in [Nat -> Nat] /\ s[j] \in Nat /\ h[j + 1] \in Nat
        BY <2>2, <2>3 DEF Running
    <2>5. r \in [Nat -> Nat] /\ \A i \in Nat : r[i] = IF i = j + 1 THEN s[j] + h[j + 1] ELSE s[i]
        BY <2>4
    <2> HIDE DEF r
    <2>6. \A i \in 1 .. j + 1 : /\ i \in Nat /\ i - 1 \in Nat /\ i - 1 # j + 1
                                /\ i = j + 1 => i - 1 = j
                                /\ i # j + 1 => i \in 1 .. j
        OBVIOUS
    <2>7. r[0] = 0 /\ r[j] = s[j]
        BY <2>3, <2>5 DEF Running
    <2>8. ASSUME NEW i \in 1 .. j + 1
          PROVE  r[i] = r[i - 1] + h[i]
        <3>1. CASE i = j + 1
            BY <2>5, <2>6, <2>7, <3>1
        <3>2. CASE i # j + 1
            <4>1. s[i] = s[i - 1] + h[i]
                BY <2>3, <2>6, <3>2 DEF Running
            <4> QED
                BY <2>5, <2>6, <3>2, <4>1
        <3> QED
            BY <3>1, <3>2
    <2> QED
        BY <2>5, <2>7, <2>8 DEF Running
<1> HIDE DEF S
<1>3. k \in S
    BY <1>1, <1>2, SetInduction
<1> QED
    BY <1>3 DEF S

(* What all add who have the same number of attempts left.                  *)
LEMMA RunningAnswers ==
    ASSUME NEW k \in Nat, NEW m \in Nat, NEW h, NEW s, Running(s, h, k),
           \A i \in 1 .. k : h[i] = Added(i, m)
    PROVE  s[k] = Answers[<<k, m>>]
<1> DEFINE S == {j \in Nat : j <= k => s[j] = Answers[<<j, m>>]}
<1>1. 0 \in S
    BY AnswersAdd DEF Running
<1>2. ASSUME NEW j \in Nat, j \in S
      PROVE  j + 1 \in S
    <2>1. SUFFICES ASSUME j + 1 <= k
                   PROVE  s[j + 1] = Answers[<<j + 1, m>>]
        OBVIOUS
    <2>2. j + 1 \in 1 .. k /\ j <= k /\ j + 1 > 0 /\ j + 1 - 1 = j /\ j + 1 \in Nat
        BY <2>1
    <2>3. s[j + 1] = s[j] + Added(j + 1, m) /\ s[j] = Answers[<<j, m>>]
        BY <1>2, <2>2 DEF Running
    <2>4. Answers[<<j + 1, m>>] = Answers[<<j, m>>] + Added(j + 1, m)
        BY <2>2, AnswersAdd
    <2> QED
        BY <2>2, <2>3, <2>4
<1> HIDE DEF S
<1>3. k \in S
    BY <1>1, <1>2, SetInduction
<1> QED
    BY <1>3 DEF S

(* Of no more at every place the sum is no more.                            *)
LEMMA RunningLess ==
    ASSUME NEW k \in Nat, NEW h, NEW g, NEW s, NEW r, Running(s, h, k), Running(r, g, k),
           \A i \in 1 .. k : h[i] \in Nat /\ g[i] \in Nat /\ g[i] <= h[i]
    PROVE  r[k] <= s[k] /\ r[k] \in Nat /\ s[k] \in Nat
<1> DEFINE S == {j \in Nat : j <= k => r[j] <= s[j]}
<1>1. 0 \in S
    BY DEF Running
<1>2. ASSUME NEW j \in Nat, j \in S
      PROVE  j + 1 \in S
    <2>1. SUFFICES ASSUME j + 1 <= k
                   PROVE  r[j + 1] <= s[j + 1]
        OBVIOUS
    <2>2. j + 1 \in 1 .. k /\ j <= k /\ j + 1 - 1 = j
        BY <2>1
    <2>3. s[j + 1] = s[j] + h[j + 1] /\ r[j + 1] = r[j] + g[j + 1] /\ r[j] <= s[j]
        BY <1>2, <2>2 DEF Running
    <2>4. /\ s[j] \in Nat /\ r[j] \in Nat /\ h[j + 1] \in Nat /\ g[j + 1] \in Nat
          /\ g[j + 1] <= h[j + 1]
        BY <2>2 DEF Running
    <2> QED
        BY <2>3, <2>4
<1> HIDE DEF S
<1>3. k \in S
    BY <1>1, <1>2, SetInduction
<1> QED
    BY <1>3 DEF S, Running

(* One who answers gives those before it in the row m attempts again, and   *)
(* loses more than that itself.                                             *)
LEMMA RunningAnswered ==
    ASSUME NEW k \in Nat, NEW h, NEW g, NEW s, NEW r, Running(s, h, k), Running(r, g, k),
           NEW top \in 1 .. k, NEW m \in Nat,
           \A i \in 1 .. k : h[i] \in Nat /\ g[i] \in Nat,
           \A i \in 1 .. k : i < top => g[i] <= h[i] + Added(i, m),
           \A i \in 1 .. k : i > top => g[i] <= h[i],
           g[top] <= Added(top, m), h[top] = Added(top, m + 1)
    PROVE  r[k] + 1 <= s[k] /\ r[k] \in Nat /\ s[k] \in Nat
<1> DEFINE Ahead(j) == IF j < top THEN r[j] <= s[j] + Answers[<<j, m>>] ELSE r[j] + 1 <= s[j]
           S == {j \in Nat : j <= k => Ahead(j)}
<1>1. 0 \in S
    <2>1. 0 < top /\ r[0] = 0 /\ s[0] = 0
        BY DEF Running
    <2>2. Answers[<<0, m>>] = 0
        BY AnswersAdd
    <2> QED
        BY <2>1, <2>2
<1>2. ASSUME NEW j \in Nat, j \in S
      PROVE  j + 1 \in S
    <2>1. SUFFICES ASSUME j + 1 <= k
                   PROVE  Ahead(j + 1)
        OBVIOUS
    <2>2. /\ j + 1 \in 1 .. k /\ j <= k /\ j + 1 - 1 = j /\ j + 1 > 0 /\ j + 1 \in Nat
          /\ top \in Nat
        BY <2>1
    <2>3. s[j + 1] = s[j] + h[j + 1] /\ r[j + 1] = r[j] + g[j + 1] /\ Ahead(j)
        BY <1>2, <2>2 DEF Running
    <2>4. s[j] \in Nat /\ r[j] \in Nat /\ h[j + 1] \in Nat /\ g[j + 1] \in Nat
        BY <2>2 DEF Running
    <2>5. /\ Answers[<<j + 1, m>>] = Answers[<<j, m>>] + Added(j + 1, m)
          /\ Answers[<<j, m>>] \in Nat /\ Added(j + 1, m) \in Nat
          /\ Added(j + 1, m + 1) = 1 + Answers[<<j + 1, m>>]
        <3>1. /\ Answers[<<j + 1, m>>] = Answers[<<j, m>>] + Added(j + 1, m)
              /\ Added(j + 1, m) \in Nat /\ Added(j + 1, m + 1) = 1 + Answers[<<j + 1, m>>]
            BY <2>2, AnswersAdd
        <3>2. Answers[<<j, m>>] \in Nat
            BY AnswersAdd
        <3> QED
            BY <2>2, <3>1, <3>2
    <2>6. CASE j + 1 < top
        <3>1. j < top /\ g[j + 1] <= h[j + 1] + Added(j + 1, m)
            BY <2>2, <2>6
        <3> QED
            BY <2>3, <2>4, <2>5, <2>6, <3>1
    <2>7. CASE j + 1 = top
        <3>1. j < top /\ g[j + 1] <= Added(j + 1, m) /\ h[j + 1] = Added(j + 1, m + 1)
            BY <2>7
        <3> QED
            BY <2>3, <2>4, <2>5, <2>7, <3>1
    <2>8. CASE j + 1 > top
        <3>1. ~(j < top) /\ g[j + 1] <= h[j + 1]
            BY <2>2, <2>8
        <3> QED
            BY <2>3, <2>4, <2>8, <3>1
    <2> QED
        BY <2>2, <2>6, <2>7, <2>8
<1> HIDE DEF S
<1>3. k \in S
    BY <1>1, <1>2, SetInduction
<1>4. Ahead(k)
    BY <1>3 DEF S
<1> QED
    BY <1>4 DEF Running

-----------------------------------------------------------------------------
(* The attempts a request may yet make: those left when it read the code,   *)
(* while it has a wrong answer to it, or else those that are left now.      *)
Waits(c, t) == request[t].code = c /\ ~request[t].right
LeftNow(c) == IF codes[c].consumed THEN 0 ELSE MaxAttempts - codes[c].attempts
Left(c, t) == IF Waits(c, t) THEN MaxAttempts - request[t].attempts ELSE LeftNow(c)

(* However the requests are put in a row, what they may yet add to the      *)
(* wrong answers of a code does not pass the bound.                         *)
Served == Cardinality(Threads)
Rows == {row \in [1 .. Served -> Threads] :
            /\ \A i, j \in 1 .. Served : row[i] = row[j] => i = j
            /\ \A t \in Threads : \E i \in 1 .. Served : row[i] = t}
Share(c, row) == [i \in 1 .. Served |-> Added(i, Left(c, row[i]))]
Limit == Answers[<<Served, MaxAttempts>>]
WithinLimit(c) ==
    \A row \in Rows, s \in [Nat -> Nat] :
        Running(s, Share(c, row), Served) => codes[c].wrong + s[Served] <= Limit
AnswersLeft == \A c \in DOMAIN codes : WithinLimit(c)

(* The numbers in this.                                                     *)
LEMMA ServedNumbers ==
    /\ Served \in Nat /\ MaxAttempts \in Nat \ {0} /\ Limit \in Nat
    /\ Rows # {}
<1>1. Served \in Nat /\ ExistsBijection(1 .. Served, Threads) /\ MaxAttempts \in Nat \ {0}
    BY SessionsAssumption, FS_CardinalityType DEF Served
<1>2. PICK row : row \in Bijection(1 .. Served, Threads)
    BY <1>1 DEF ExistsBijection
<1>3. row \in Rows
    BY <1>2 DEF Rows, Bijection, Injection, Surjection, IsInjective
<1>4. Limit \in Nat
    BY <1>1, AnswersRule DEF Limit
<1> QED
    BY <1>1, <1>3, <1>4

(* The types of a code and of a request that has a wrong answer to it.      *)
LEMMA LeftNumbers ==
    ASSUME TypeOK, NEW c \in DOMAIN codes, NEW t \in Threads
    PROVE  /\ Left(c, t) \in Nat /\ LeftNow(c) \in Nat
           /\ codes[c] \in CodeRow /\ codes[c].wrong \in Nat
           /\ Waits(c, t) => request[t] # Idle /\ request[t].attempts \in 0 .. MaxAttempts - 1
<1>1. /\ codes[c] \in CodeRow /\ c \in 1 .. Len(codes) /\ MaxAttempts \in Nat
      /\ request[t] \in {Idle} \union RequestRow(Len(codes))
    BY TypeParts, LenProperties, ElementOfSeq, ServedNumbers DEF CodesOK, RequestOK
<1>2. LeftNow(c) \in Nat /\ codes[c].wrong \in Nat
    BY <1>1 DEF LeftNow, CodeRow
<1>3. ASSUME Waits(c, t)
      PROVE  request[t] # Idle /\ request[t].attempts \in 0 .. MaxAttempts - 1
    <2>1. request[t] # Idle
        BY <1>1, <1>3 DEF Waits, Idle
    <2> QED
        BY <1>1, <2>1 DEF RequestRow
<1> QED
    BY <1>1, <1>2, <1>3 DEF Left

(* So what a request adds is a number as well.                              *)
LEMMA ShareNumbers ==
    ASSUME TypeOK, NEW c \in DOMAIN codes, NEW row \in Rows, NEW i \in 1 .. Served
    PROVE  Share(c, row)[i] \in Nat /\ Share(c, row)[i] = Added(i, Left(c, row[i]))
<1>1. row[i] \in Threads /\ i \in Nat
    BY DEF Rows
<1>2. Added(i, Left(c, row[i])) \in Nat
    BY <1>1, LeftNumbers, AnswersAdd
<1> QED
    BY <1>2 DEF Share

(* When no request has more attempts left than before there are no more     *)
(* answers to come.                                                         *)
LEMMA NoMoreLeft ==
    ASSUME TypeOK, TypeOK', NEW c \in DOMAIN codes, c \in DOMAIN codes', WithinLimit(c),
           codes'[c].wrong = codes[c].wrong,
           \A t \in Threads : Left(c, t)' = Left(c, t) \/ Left(c, t)' = 0
    PROVE  WithinLimit(c)'
<1> SUFFICES ASSUME NEW row \in Rows, NEW r \in [Nat -> Nat],
                    Running(r, Share(c, row)', Served)
             PROVE  codes'[c].wrong + r[Served] <= Limit
    BY DEF WithinLimit, Rows, Served, Limit, Running
<1> DEFINE h == Share(c, row)
           g == Share(c, row)'
<1>1. \A i \in 1 .. Served : h[i] \in Nat /\ h[i] = Added(i, Left(c, row[i]))
    BY ShareNumbers
<1>2. \A i \in 1 .. Served : g[i] = Added(i, Left(c, row[i])')
    BY DEF Share, Served
<1>3. \A i \in 1 .. Served : row[i] \in Threads
    BY DEF Rows
<1> HIDE DEF h, g
<1>4. \A i \in 1 .. Served : h[i] \in Nat /\ g[i] \in Nat /\ g[i] <= h[i]
    <2> SUFFICES ASSUME NEW i \in 1 .. Served PROVE g[i] \in Nat /\ g[i] <= h[i]
        BY <1>1
    <2>1. CASE Left(c, row[i])' = Left(c, row[i])
        <3>1. g[i] = h[i]
            BY <1>1, <1>2, <2>1
        <3> QED
            BY <1>1, <3>1
    <2>2. CASE Left(c, row[i])' = 0
        <3>1. g[i] = 0
            BY <1>2, <2>2 DEF Added
        <3> QED
            BY <1>1, <3>1
    <2> QED
        BY <1>3, <2>1, <2>2
<1>5. PICK s : Running(s, h, Served)
    BY <1>1, ServedNumbers, RunningExists
<1>6. codes[c].wrong + s[Served] <= Limit
    BY <1>5 DEF WithinLimit, Running, h
<1>7. Running(r, g, Served)
    BY DEF g
<1>8. r[Served] <= s[Served] /\ r[Served] \in Nat /\ s[Served] \in Nat
    BY <1>4, <1>5, <1>7, ServedNumbers, RunningLess
<1>9. codes[c].wrong \in Nat /\ Limit \in Nat
    <2>1. codes[c] \in CodeRow
        BY TypeParts, LenProperties, ElementOfSeq DEF CodesOK
    <2> QED
        BY <2>1, ServedNumbers DEF CodeRow
<1> QED
    BY <1>6, <1>8, <1>9

(* Among finitely many places there is a last.                              *)
LEMMA LastPlace ==
    ASSUME NEW k \in Nat, NEW J, J \subseteq 1 .. k, J # {}
    PROVE  \E top \in J : \A i \in J : i <= top
<1> DEFINE Last(T) == T # {} => \E top \in T : \A i \in T : i <= top
           S == {j \in Nat : \A T \in SUBSET (1 .. j) : Last(T)}
<1>1. 0 \in S
    <2>1. \A T \in SUBSET (1 .. 0) : T = {}
        OBVIOUS
    <2> QED
        BY <2>1
<1>2. ASSUME NEW j \in Nat, j \in S
      PROVE  j + 1 \in S
    <2> SUFFICES ASSUME NEW T \in SUBSET (1 .. j + 1), T # {}
                 PROVE  \E top \in T : \A i \in T : i <= top
        OBVIOUS
    <2>1. CASE j + 1 \in T
        BY <2>1
    <2>2. CASE j + 1 \notin T
        <3>1. T \in SUBSET (1 .. j)
            BY <2>2
        <3> QED
            BY <1>2, <3>1
    <2> QED
        BY <2>1, <2>2
<1> HIDE DEF S
<1>3. k \in S
    BY <1>1, <1>2, SetInduction
<1> QED
    BY <1>3 DEF S

(* One request changes places with another.                                 *)
LEMMA ChangePlaces ==
    ASSUME NEW row \in Rows, NEW i \in 1 .. Served, NEW j \in 1 .. Served
    PROVE  LET new == [k \in 1 .. Served |->
                          IF k = i THEN row[j] ELSE IF k = j THEN row[i] ELSE row[k]]
           IN  new \in Rows
<1> DEFINE new == [k \in 1 .. Served |->
                      IF k = i THEN row[j] ELSE IF k = j THEN row[i] ELSE row[k]]
<1>1. /\ row \in [1 .. Served -> Threads]
      /\ \A k, l \in 1 .. Served : row[k] = row[l] => k = l
      /\ \A t \in Threads : \E k \in 1 .. Served : row[k] = t
    BY DEF Rows
<1>2. new \in [1 .. Served -> Threads]
    BY <1>1
<1>3. \A k, l \in 1 .. Served : new[k] = new[l] => k = l
    BY <1>1
<1>4. ASSUME NEW t \in Threads
      PROVE  \E k \in 1 .. Served : new[k] = t
    <2>1. PICK k \in 1 .. Served : row[k] = t
        BY <1>1
    <2> QED
        BY <2>1
<1> QED
    BY <1>2, <1>3, <1>4 DEF Rows

(* What an answer leaves of the code it is for: one that is wrong is        *)
(* counted, and the count is what the request has read and one.             *)
LEMMA AnsweredCode ==
    ASSUME TypeOK, NEW t \in Threads, request[t] # Idle, Answered(t)
    PROVE  LET c == request[t].code
           IN  /\ c \in DOMAIN codes
               /\ request'[t] = Idle /\ \A u \in Threads \ {t} : request'[u] = request[u]
               /\ codes' = CountedWrong(t) =>
                     /\ codes'[c].wrong = codes[c].wrong + 1
                     /\ codes'[c].attempts = request[t].attempts + 1
                     /\ codes'[c].consumed = codes[c].consumed
               /\ codes' \in {Consumed(t), Used(t)} =>
                     codes'[c].wrong = codes[c].wrong /\ codes'[c].consumed
<1> DEFINE c == request[t].code
           counted == [codes[c] EXCEPT !.attempts = request[t].attempts + 1]
           wrong == [counted EXCEPT !.wrong = @ + 1]
           consumed == [counted EXCEPT !.consumed = TRUE]
           used == [consumed EXCEPT !.uses = @ + 1]
<1>1. /\ codes \in Seq(CodeRow) /\ c \in 1 .. Len(codes) /\ codes[c] \in CodeRow
      /\ c \in DOMAIN codes
    BY TypeParts, ReadRow, LenProperties DEF CodesOK
<1>2. /\ CountedWrong(t) = [codes EXCEPT ![c] = wrong]
      /\ Consumed(t) = [codes EXCEPT ![c] = consumed]
      /\ Used(t) = [codes EXCEPT ![c] = used]
    BY WrittenRow
<1>3. /\ wrong.wrong = codes[c].wrong + 1 /\ wrong.attempts = request[t].attempts + 1
      /\ wrong.consumed = codes[c].consumed
      /\ consumed.wrong = codes[c].wrong /\ consumed.consumed
      /\ used.wrong = codes[c].wrong /\ used.consumed
    BY <1>1 DEF CodeRow
<1>4. request'[t] = Idle /\ \A u \in Threads \ {t} : request'[u] = request[u]
    BY TypeParts DEF Answered, RequestOK
<1> HIDE DEF wrong, consumed, used
<1>5. /\ CountedWrong(t)[c] = wrong /\ Consumed(t)[c] = consumed /\ Used(t)[c] = used
    BY <1>1, <1>2
<1> QED
    BY <1>1, <1>3, <1>4, <1>5

(* A wrong answer costs more than it gives back.                            *)
LEMMA WrongAnswer ==
    ASSUME TypeOK, TypeOK', NEW t \in Threads, request[t] # Idle, ~request[t].right,
           Answered(t), codes' = CountedWrong(t), NEW c, c = request[t].code, WithinLimit(c)
    PROVE  WithinLimit(c)'
<1>0. PICK m : m = MaxAttempts - request[t].attempts - 1
    OBVIOUS
<1>1. /\ c \in DOMAIN codes
      /\ request'[t] = Idle /\ \A u \in Threads \ {t} : request'[u] = request[u]
      /\ codes'[c].wrong = codes[c].wrong + 1
      /\ codes'[c].attempts = request[t].attempts + 1
      /\ codes'[c].consumed = codes[c].consumed
    BY AnsweredCode
<1>3. c \in DOMAIN codes' /\ codes[c].wrong \in Nat /\ c # 0
    <2>1. DOMAIN codes = 1 .. Len(codes) /\ DOMAIN codes' = 1 .. Len(codes')
        BY TypeParts, LenProperties DEF CodesOK
    <2>2. Len(codes') = Len(codes)
        BY WrittenCodes
    <2> QED
        BY <1>1, <2>1, <2>2, LeftNumbers
<1>4. Waits(c, t) /\ Left(c, t) = m + 1 /\ m \in Nat
    <2>1. Waits(c, t)
        BY DEF Waits
    <2>2. request[t].attempts \in 0 .. MaxAttempts - 1
        BY <1>1, <2>1, LeftNumbers
    <2> QED
        BY <1>0, <2>1, <2>2, ServedNumbers DEF Left
<1>5. PICK k \in {0, m} : LeftNow(c)' = k
    <2>1. request[t].attempts \in 0 .. MaxAttempts - 1 /\ MaxAttempts \in Nat
        BY <1>1, <1>4, LeftNumbers, ServedNumbers
    <2>2. MaxAttempts - codes'[c].attempts = m
        BY <1>0, <1>1, <2>1
    <2>3. LeftNow(c)' = IF codes'[c].consumed THEN 0 ELSE m
        BY <2>2 DEF LeftNow
    <2> QED
        BY <2>3
<1>6. ASSUME NEW u \in Threads, u = t \/ ~Waits(c, u)
      PROVE  Left(c, u)' = k
    <2>1. ~(request'[u].code = c /\ ~request'[u].right)
        BY <1>1, <1>3, <1>6 DEF Waits, Idle
    <2> QED
        BY <1>5, <2>1 DEF Left, Waits
<1>7. ASSUME NEW u \in Threads, u # t, Waits(c, u)
      PROVE  Left(c, u)' = Left(c, u)
    BY <1>1, <1>7 DEF Left, Waits
<1> SUFFICES ASSUME NEW row \in Rows, NEW r \in [Nat -> Nat],
                    Running(r, Share(c, row)', Served)
             PROVE  codes'[c].wrong + r[Served] <= Limit
    BY <1>1 DEF WithinLimit, Rows, Served, Limit, Running
<1> DEFINE J == {i \in 1 .. Served : row[i] = t \/ ~Waits(c, row[i])}
<1>8. /\ row \in [1 .. Served -> Threads]
      /\ \A i, j \in 1 .. Served : row[i] = row[j] => i = j
      /\ \E i \in 1 .. Served : row[i] = t
    BY DEF Rows
<1>9. PICK at \in 1 .. Served : row[at] = t
    BY <1>8
<1>10. PICK top \in J : \A i \in J : i <= top
    <2>1. at \in J
        BY <1>9
    <2> HIDE DEF J
    <2>2. J \subseteq 1 .. Served
        BY DEF J
    <2> QED
        BY <2>1, <2>2, ServedNumbers, LastPlace
<1> DEFINE new == [i \in 1 .. Served |->
                      IF i = top THEN row[at] ELSE IF i = at THEN row[top] ELSE row[i]]
           h == Share(c, new)
           g == Share(c, row)'
<1>11. new \in Rows
    BY <1>10, ChangePlaces
<1>12. /\ new[top] = t /\ top \in 1 .. Served
       /\ \A i \in 1 .. Served : i \notin J => new[i] = row[i]
    BY <1>9, <1>10
<1> HIDE DEF new
<1>13. \A i \in 1 .. Served : h[i] \in Nat /\ h[i] = Added(i, Left(c, new[i]))
    BY <1>1, <1>11, ShareNumbers
<1>14. \A i \in 1 .. Served : g[i] = Added(i, Left(c, row[i])')
    BY DEF Share, Served
<1> HIDE DEF h, g
<1>15. ASSUME NEW i \in 1 .. Served
       PROVE  Added(i, k) \in Nat /\ Added(i, m) \in Nat /\ Added(i, k) <= Added(i, m)
    <2>1. Added(i, m) \in Nat
        <3>1. i \in Nat /\ m \in Nat
            BY <1>4
        <3> QED
            BY <3>1, AnswersAdd
    <2>2. k = m \/ Added(i, k) = 0
        BY <1>5 DEF Added
    <2> QED
        BY <2>1, <2>2
<1>16. ASSUME NEW i \in J
       PROVE  g[i] = Added(i, k)
    <2>1. i \in 1 .. Served /\ row[i] \in Threads
        BY <1>8
    <2>2. Left(c, row[i])' = k
        BY <1>6, <2>1
    <2> QED
        BY <1>14, <2>1, <2>2
<1>17. ASSUME NEW i \in 1 .. Served, i \notin J
       PROVE  g[i] = h[i]
    <2>1. row[i] \in Threads /\ row[i] # t /\ Waits(c, row[i])
        BY <1>8, <1>17
    <2>2. Left(c, row[i])' = Left(c, new[i])
        BY <1>7, <1>12, <1>17, <2>1
    <2> QED
        BY <1>13, <1>14, <2>2
<1>18. h[top] = Added(top, m + 1)
    BY <1>4, <1>12, <1>13
<1> HIDE DEF J
<1>19. \A i \in 1 .. Served : g[i] \in Nat
    BY <1>13, <1>15, <1>16, <1>17
<1>20. ASSUME NEW i \in 1 .. Served, i < top
       PROVE  g[i] <= h[i] + Added(i, m)
    <2>1. h[i] \in Nat /\ Added(i, m) \in Nat /\ Added(i, k) <= Added(i, m) /\ Added(i, k) \in Nat
        BY <1>13, <1>15
    <2>2. g[i] = Added(i, k) \/ g[i] = h[i]
        BY <1>16, <1>17
    <2> QED
        BY <2>1, <2>2
<1>21. ASSUME NEW i \in 1 .. Served, i > top
       PROVE  g[i] <= h[i]
    <2>1. i \notin J
        BY <1>10, <1>12, <1>21
    <2> QED
        BY <1>13, <1>17, <2>1
<1>22. g[top] <= Added(top, m)
    BY <1>10, <1>12, <1>15, <1>16
<1>23. PICK s : Running(s, h, Served)
    BY <1>13, ServedNumbers, RunningExists
<1>24. codes[c].wrong + s[Served] <= Limit
    BY <1>11, <1>23 DEF WithinLimit, Running, h
<1>25. Running(r, g, Served)
    BY DEF g
<1>26. r[Served] + 1 <= s[Served] /\ r[Served] \in Nat /\ s[Served] \in Nat
    BY <1>4, <1>12, <1>13, <1>18, <1>19, <1>20, <1>21, <1>22, <1>23, <1>25, ServedNumbers,
       RunningAnswered
<1> QED
    BY <1>1, <1>3, <1>24, <1>26, ServedNumbers

(* An answer leaves what a code may take within the bound.                  *)
LEMMA AnswerLeft ==
    ASSUME TypeOK, TypeOK', NEW t \in Threads, request[t] # Idle, Answered(t),
           \/ codes' = CountedWrong(t) /\ ~request[t].right
           \/ codes' \in {Consumed(t), Used(t)} /\ request[t].right
           \/ codes' = codes /\ request[t].right,
           NEW c \in DOMAIN codes, WithinLimit(c)
    PROVE  WithinLimit(c)'
<1>1. /\ request[t].code \in DOMAIN codes
      /\ request'[t] = Idle /\ \A u \in Threads \ {t} : request'[u] = request[u]
      /\ codes' \in {Consumed(t), Used(t)} =>
            /\ codes'[request[t].code].wrong = codes[request[t].code].wrong
            /\ codes'[request[t].code].consumed
    BY AnsweredCode
<1>2. c \in DOMAIN codes' /\ c # 0
    <2>1. DOMAIN codes = 1 .. Len(codes) /\ DOMAIN codes' = 1 .. Len(codes')
        BY TypeParts, LenProperties DEF CodesOK
    <2>2. Len(codes') = Len(codes)
        BY WrittenCodes
    <2> QED
        BY <2>1, <2>2
<1>3. ASSUME NEW u \in Threads
      PROVE  Waits(c, u)' <=> Waits(c, u) /\ u # t
    BY <1>1, <1>2 DEF Waits, Idle
<1>4. CASE codes'[c] = codes[c] /\ (c # request[t].code \/ request[t].right)
    <2>1. LeftNow(c)' = LeftNow(c)
        BY <1>4 DEF LeftNow
    <2>2. ~Waits(c, t)
        BY <1>4 DEF Waits
    <2>3. ASSUME NEW u \in Threads
          PROVE  Left(c, u)' = Left(c, u)
        <3>1. CASE u = t
            BY <1>3, <2>1, <2>2, <3>1 DEF Left
        <3>2. CASE u # t
            BY <1>1, <1>3, <2>1, <3>2 DEF Left
        <3> QED
            BY <3>1, <3>2
    <2> QED
        BY <1>2, <1>4, <2>3, NoMoreLeft
<1>5. CASE c = request[t].code /\ request[t].right /\ codes' \in {Consumed(t), Used(t)}
    <2>1. codes'[c].wrong = codes[c].wrong /\ LeftNow(c)' = 0
        BY <1>1, <1>5 DEF LeftNow
    <2>2. ASSUME NEW u \in Threads
          PROVE  Left(c, u)' = Left(c, u) \/ Left(c, u)' = 0
        BY <1>1, <1>3, <2>1 DEF Left
    <2> QED
        BY <1>2, <2>1, <2>2, NoMoreLeft
<1>6. CASE c = request[t].code /\ ~request[t].right /\ codes' = CountedWrong(t)
    BY <1>6, WrongAnswer
<1>7. codes' \in {CountedWrong(t), Consumed(t), Used(t)} /\ c # request[t].code =>
          codes'[c] = codes[c]
    BY WrittenCodes, TypeParts, LenProperties DEF CodesOK
<1> QED
    BY <1>4, <1>5, <1>6, <1>7

(* A request that reads a code finds the attempts that are left now.        *)
LEMMA ReadLeft ==
    ASSUME TypeOK, TypeOK', NEW t \in Threads, ReadsCode(t), NEW c \in DOMAIN codes,
           WithinLimit(c)
    PROVE  WithinLimit(c)'
<1>1. request \in [Threads -> {Idle} \union RequestRow(Len(codes))]
    BY TypeParts DEF RequestOK
<1>2. PICK purpose \in Purposes, u \in Users \union {Nobody} : ReadCode(t, purpose, u)
    BY DEF ReadsCode
<1>3. PICK d \in DOMAIN codes :
          /\ ~codes[d].consumed /\ request[t] = Idle
          /\ request'[t].code = d /\ request'[t].attempts = codes[d].attempts
          /\ \A v \in Threads \ {t} : request'[v] = request[v]
    BY <1>1, <1>2 DEF ReadCode, Verifiable
<1>4. codes' = codes /\ c # 0
    BY TypeParts, LenProperties DEF ReadsCode, CodesOK
<1>5. ~Waits(c, t)
    BY <1>3, <1>4 DEF Waits, Idle
<1>6. ASSUME NEW v \in Threads
      PROVE  Left(c, v)' = Left(c, v)
    <2>1. LeftNow(c)' = LeftNow(c)
        BY <1>4 DEF LeftNow
    <2>2. CASE v # t
        BY <1>3, <2>1, <2>2 DEF Left, Waits
    <2>3. CASE v = t /\ ~Waits(c, t)'
        BY <1>5, <2>1, <2>3 DEF Left
    <2>4. CASE v = t /\ Waits(c, t)'
        <3>1. c = d
            BY <1>3, <2>4 DEF Waits
        <3>2. Left(c, t)' = MaxAttempts - codes[c].attempts
            BY <1>3, <2>4, <3>1 DEF Left
        <3> QED
            BY <1>3, <1>5, <2>4, <3>1, <3>2 DEF Left, LeftNow
    <2> QED
        BY <2>2, <2>3, <2>4
<1> QED
    BY <1>4, <1>6, NoMoreLeft

(* A new code takes as many wrong answers as all requests together give.    *)
LEMMA NewCodeLeft ==
    ASSUME TypeOK, NEW u \in Users, NEW purpose \in Purposes, RequestOtp(u, purpose),
           request' = request, NEW n, n = Len(codes) + 1
    PROVE  WithinLimit(n)'
<1>1. n = Len(codes) + 1
    OBVIOUS
<1>2. codes'[n].wrong = 0 /\ codes'[n].attempts = 0 /\ ~codes'[n].consumed
    <2>1. codes \in Seq(CodeRow)
        BY TypeParts DEF CodesOK
    <2> QED
        BY <1>1, <2>1, AppendProperties DEF RequestOtp
<1>3. ASSUME NEW t \in Threads
      PROVE  Left(n, t)' = MaxAttempts
    <2>1. request[t] \in {Idle} \union RequestRow(Len(codes)) /\ Len(codes) \in Nat
        BY TypeParts, LenProperties DEF CodesOK, RequestOK
    <2>2. request'[t].code # n
        BY <1>1, <2>1 DEF RequestRow, Idle
    <2> QED
        BY <1>2, <2>2, ServedNumbers DEF Left, LeftNow, Waits
<1>4. ASSUME NEW row \in Rows, NEW s \in [Nat -> Nat], Running(s, Share(n, row)', Served)
      PROVE  codes'[n].wrong + s[Served] <= Limit
    <2> DEFINE h == Share(n, row)'
    <2>1. \A i \in 1 .. Served : h[i] = Added(i, MaxAttempts)
        BY <1>3 DEF Share, Served, Rows
    <2> HIDE DEF h
    <2>2. Running(s, h, Served)
        BY <1>4 DEF h
    <2>3. s[Served] = Limit
        <3>1. Served \in Nat /\ MaxAttempts \in Nat
            BY ServedNumbers
        <3>2. s[Served] = Answers[<<Served, MaxAttempts>>]
            BY Zenon, <2>1, <2>2, <3>1, RunningAnswers
        <3> QED
            BY <3>2 DEF Limit
    <2> QED
        BY <1>2, <2>3, ServedNumbers
<1> QED
    BY <1>4 DEF WithinLimit, Rows, Served, Limit, Running

(* Every step leaves what every code may take within the bound.             *)
LEMMA StepLeft ==
    ASSUME TypeOK, TypeOK', AnswersLeft, [Next]_vars
    PROVE  AnswersLeft'
<1>1. /\ codes \in Seq(CodeRow) /\ DOMAIN codes = 1 .. Len(codes) /\ Len(codes) \in Nat
      /\ DOMAIN codes' = 1 .. Len(codes')
    BY TypeParts, CodesStay, LenProperties DEF CodesOK
<1>2. ASSUME request' = request, DOMAIN codes \subseteq DOMAIN codes', NEW c \in DOMAIN codes,
             codes'[c].wrong = codes[c].wrong, codes'[c].attempts = codes[c].attempts,
             codes'[c].consumed = codes[c].consumed
      PROVE  WithinLimit(c)'
    <2>1. \A t \in Threads : Left(c, t)' = Left(c, t)
        BY <1>2 DEF Left, LeftNow, Waits
    <2>2. WithinLimit(c)
        BY DEF AnswersLeft
    <2> QED
        BY <1>2, <2>1, <2>2, NoMoreLeft
<1>3. CASE codes' = codes /\ request' = request
    BY <1>2, <1>3 DEF AnswersLeft
<1>4. ASSUME NEW t \in Threads, ReadsCode(t)
      PROVE  AnswersLeft'
    <2>1. codes' = codes
        BY <1>4 DEF ReadsCode
    <2>2. \A c \in DOMAIN codes : WithinLimit(c)'
        BY <1>4, ReadLeft DEF AnswersLeft
    <2> QED
        BY <2>1, <2>2 DEF AnswersLeft
<1>5. ASSUME NEW t \in Threads, request[t] # Idle, Answered(t),
             \/ codes' = CountedWrong(t) /\ ~request[t].right
             \/ codes' \in {Consumed(t), Used(t)} /\ request[t].right
             \/ codes' = codes /\ request[t].right
      PROVE  AnswersLeft'
    <2>1. DOMAIN codes' = DOMAIN codes
        <3>1. CASE codes' = codes
            BY <3>1
        <3>2. CASE codes' \in {CountedWrong(t), Consumed(t), Used(t)}
            <4>1. Len(codes') = Len(codes)
                BY <1>5, <3>2, WrittenCodes
            <4> QED
                BY <1>1, <4>1
        <3> QED
            BY <1>5, <3>1, <3>2
    <2>2. \A c \in DOMAIN codes : WithinLimit(c)'
        BY <1>5, AnswerLeft DEF AnswersLeft
    <2> QED
        BY <2>1, <2>2 DEF AnswersLeft
<1>6. ASSUME NEW u \in Users, NEW purpose \in Purposes, RequestOtp(u, purpose),
             request' = request
      PROVE  AnswersLeft'
    <2>1. /\ Len(codes') = Len(codes) + 1
          /\ \A c \in 1 .. Len(codes) : codes'[c] = codes[c]
        BY <1>6, RequestedCode
    <2>2. \A c \in 1 .. Len(codes) : WithinLimit(c)'
        BY <1>1, <1>2, <1>6, <2>1
    <2>3. ASSUME NEW c, c = Len(codes) + 1
          PROVE  WithinLimit(c)'
        BY <1>6, <2>3, NewCodeLeft
    <2>4. ASSUME NEW c \in DOMAIN codes'
          PROVE  c \in 1 .. Len(codes) \/ c = Len(codes) + 1
        BY <1>1, <2>1
    <2> QED
        BY <2>2, <2>3, <2>4 DEF AnswersLeft
<1>7. CASE Tick
    <2>1. request' = request /\ DOMAIN codes' = DOMAIN codes
        BY <1>1, <1>7, OlderRows DEF Tick
    <2>2. \A c \in DOMAIN codes : /\ codes'[c].consumed = codes[c].consumed
                                  /\ codes'[c].attempts = codes[c].attempts
                                  /\ codes'[c].wrong = codes[c].wrong
        <3> SUFFICES ASSUME NEW c \in DOMAIN codes
                     PROVE  /\ codes'[c].consumed = codes[c].consumed
                            /\ codes'[c].attempts = codes[c].attempts
                            /\ codes'[c].wrong = codes[c].wrong
            OBVIOUS
        <3>1. codes'[c] = [codes[c] EXCEPT !.age = Older(@, CodeLife)]
            BY <1>7 DEF Tick
        <3>2. codes[c] \in CodeRow
            BY <1>1, ElementOfSeq
        <3> QED
            BY <3>1, <3>2 DEF CodeRow
    <2>3. \A c \in DOMAIN codes : WithinLimit(c)'
        BY <1>2, <2>1, <2>2
    <2> QED
        BY <2>1, <2>3 DEF AnswersLeft
<1>8. ASSUME NEW t \in Threads, Finish(t)
      PROVE  /\ request[t] # Idle /\ Answered(t)
             /\ \/ codes' = CountedWrong(t) /\ ~request[t].right
                \/ codes' \in {Consumed(t), Used(t)} /\ request[t].right
                \/ codes' = codes /\ request[t].right
    BY <1>8 DEF Finish, WrongCode, AccountGone, LoggedIn, PasswordChanged, CodeOfAnother,
       PasswordReset, RightCode
<1>9. \/ codes' = codes /\ request' = request
      \/ \E t \in Threads : ReadsCode(t) \/ Finish(t)
      \/ \E u \in Users, purpose \in Purposes : RequestOtp(u, purpose) /\ request' = request
      \/ Tick
    BY DEF Next, vars, Login, ForgotPassword, VerifyLoginOtp, ResetPassword, ReadCurrentUser,
       RequestPasswordChange, ConfirmPasswordChange, UpdateUser, ResetUserPassword,
       UpdateProfile, UpdateTwoFactor, ReadsCode, CurrentUser, Purposes
<1> QED
    BY <1>3, <1>4, <1>5, <1>6, <1>7, <1>8, <1>9

(* However many requests overlap and overwrite each other's count, a code   *)
(* takes no more wrong answers than Answers of the requests the API serves  *)
(* at the same time, and works at most once for each (otp_service.py:       *)
(* verify_otp).                                                             *)
THEOREM AttemptsAreBounded == Spec => []AttemptsBounded
<1>1. Init => AnswersLeft
    BY DEF Init, AnswersLeft
<1>2. TypeOK /\ TypeOK' /\ AnswersLeft /\ [Next]_vars => AnswersLeft'
    BY StepLeft
<1>3. TypeOK /\ AnswersLeft /\ UsesBounded => AttemptsBounded
    <2> SUFFICES ASSUME TypeOK, AnswersLeft, NEW c \in DOMAIN codes
                 PROVE  codes[c].wrong <= Limit
        BY DEF AttemptsBounded, Limit, Served
    <2>1. PICK row : row \in Rows
        BY ServedNumbers
    <2> DEFINE h == Share(c, row)
    <2>2. \A i \in 1 .. Served : h[i] \in Nat
        BY <2>1, ShareNumbers
    <2>3. PICK s : Running(s, h, Served)
        BY <2>2, ServedNumbers, RunningExists
    <2>4. codes[c].wrong + s[Served] <= Limit
        BY <2>1, <2>3 DEF AnswersLeft, WithinLimit, Running
    <2>5. s[Served] \in Nat /\ codes[c].wrong \in Nat
        <3>1. codes[c] \in CodeRow
            BY TypeParts, LenProperties, ElementOfSeq DEF CodesOK
        <3> QED
            BY <2>3, <3>1, ServedNumbers DEF Running, CodeRow
    <2> QED
        BY <2>4, <2>5, ServedNumbers
<1> QED
    BY <1>1, <1>2, <1>3, TypeCorrect, UsesAreBounded, PTL DEF Spec
=============================================================================
