--------------------------- MODULE RegisterVerify ---------------------------
(***************************************************************************)
(* The registration by e-mail code of register_verify.rs: two tables in    *)
(* memory, each behind its own lock, and a handler that looks at both,     *)
(* lets go of them, waits for the SMTP server, and writes both.            *)
(*                                                                         *)
(* Every request draws its own code, so a request stands for its code; two *)
(* codes that happen to be equal are taken as different.  Bodies parse,    *)
(* addresses are valid and SMTP is configured.                             *)
(***************************************************************************)
EXTENDS Integers, FiniteSets

CONSTANTS
    Email, Ip,
    Send,           \* the requests for a code, and so the codes
    AddressOf,      \* AddressOf[s]: the address that s is for
    IpOf,           \* IpOf[s]: where s comes from
    none,           \* in the place of a code where there is none
    CODE_TTL, RESEND_COOLDOWN, Hour,    \* in ticks of the clock
    MaxSends,       \* MAX_SENDS_PER_IP_PER_HOUR
    LastTick        \* bound: the last tick of a behaviour

ASSUME CodesAssumption ==
    /\ IsFiniteSet(Send)
    /\ AddressOf \in [Send -> Email]
    /\ IpOf \in [Send -> Ip]
    /\ none \notin Send
    /\ CODE_TTL \in Nat \ {0} /\ RESEND_COOLDOWN \in Nat /\ Hour \in Nat \ {0}
    /\ MaxSends \in Nat \ {0}
    /\ LastTick \in Nat

VARIABLES
    clock,
    codes,      \* CODES: per address the code, its end, and when it was sent
    counts,     \* IP_SEND_COUNTS: per origin the sends of the hour that began at since
    sending,    \* sending[s]: how far the request is
    started,    \* started[s]: the instant the handler of s has read
    mailed,     \* the codes that have been mailed
    opened,     \* history: <<code, tick>> for every code accepted by verify_code_handler
    peak        \* history: the most requests of an origin that were under way at once

cvars == <<clock, codes, counts, sending, started, mailed, opened, peak>>

NoCode == [code |-> none, expires_at |-> 0, last_sent_at |-> 0]
NoCount == [count |-> 0, since |-> 0]

-----------------------------------------------------------------------------

\* purge_expired_codes.
Purged == [e \in Email |-> IF codes[e].expires_at > clock THEN codes[e] ELSE NoCode]

\* The counts of which the hour has passed are dropped.
Retained == [i \in Ip |-> IF clock - counts[i].since < Hour THEN counts[i] ELSE NoCount]

\* Faulty variant: the count is compared after the limit has been passed.
limited_late(s) == Retained[IpOf[s]].count > MaxSends

\* check_ip_rate_limit.
Limited(s) == Retained[IpOf[s]].count >= MaxSends

\* The requests of an origin that have passed its limit and are not counted yet.
Uncounted(i) ==
    {s \in Send : IpOf[s] = i /\ sending[s] \in {"checked", "mailing", "mailed", "stored"}}

CheckIp(s) ==
    LET i == IpOf[s]
        n == Cardinality(Uncounted(i)) + 1
    IN  /\ sending[s] = "idle"
        /\ counts' = Retained
        /\ sending' = [sending EXCEPT ![s] = IF Limited(s) THEN "refused" ELSE "checked"]
        /\ peak' = IF Limited(s) \/ n <= peak[i] THEN peak ELSE [peak EXCEPT ![i] = n]
        /\ UNCHANGED <<clock, codes, started, mailed, opened>>

\* The cooldown since the last code for this address that was stored.
CheckCooldown(s) ==
    LET last == Purged[AddressOf[s]]
    IN  /\ sending[s] = "checked"
        /\ codes' = Purged
        /\ started' = [started EXCEPT ![s] = clock]
        /\ sending' = [sending EXCEPT ![s] =
                          IF last # NoCode /\ clock - last.last_sent_at < RESEND_COOLDOWN
                          THEN "refused" ELSE "mailing"]
        /\ UNCHANGED <<clock, counts, mailed, opened, peak>>

\* The answer of the SMTP server.
Mail(s) ==
    /\ sending[s] = "mailing"
    /\ mailed' = mailed \cup {s}
    /\ sending' = [sending EXCEPT ![s] = "mailed"]
    /\ UNCHANGED <<clock, codes, counts, started, opened, peak>>

\* It fails, or the client goes away and the handler is dropped where it waits:
\* the mail may have been sent.
MailFails(s) ==
    /\ sending[s] = "mailing"
    /\ mailed' \in {mailed, mailed \cup {s}}
    /\ sending' = [sending EXCEPT ![s] = "refused"]
    /\ UNCHANGED <<clock, codes, counts, started, opened, peak>>

\* Faulty variant: the time of the code runs from when it is stored.
store_from_now(s) ==
    /\ sending[s] = "mailed"
    /\ codes' = [codes EXCEPT ![AddressOf[s]] =
                    [code |-> s, expires_at |-> clock + CODE_TTL, last_sent_at |-> clock]]
    /\ sending' = [sending EXCEPT ![s] = "stored"]
    /\ UNCHANGED <<clock, counts, started, mailed, opened, peak>>

\* A code replaces the one before; its time runs from the check of the cooldown.
StoreCode(s) ==
    /\ sending[s] = "mailed"
    /\ codes' = [codes EXCEPT ![AddressOf[s]] =
                    [code |-> s, expires_at |-> started[s] + CODE_TTL,
                     last_sent_at |-> started[s]]]
    /\ sending' = [sending EXCEPT ![s] = "stored"]
    /\ UNCHANGED <<clock, counts, started, mailed, opened, peak>>

\* record_ip_send; the answer is sent.
record_ip_send(s) ==
    /\ sending[s] = "stored"
    /\ counts' = [Retained EXCEPT ![IpOf[s]] =
                    [count |-> @.count + 1,
                     since |-> IF @.count = 0 THEN clock ELSE @.since]]
    /\ sending' = [sending EXCEPT ![s] = "answered"]
    /\ UNCHANGED <<clock, codes, started, mailed, opened, peak>>

\* verify_code_handler, under one lock: the code is used up.
Verify(e, c) ==
    /\ c \in mailed
    /\ codes' = IF Purged[e].code = c THEN [Purged EXCEPT ![e] = NoCode] ELSE Purged
    /\ opened' = IF Purged[e].code = c THEN opened \cup {<<c, clock>>} ELSE opened
    /\ UNCHANGED <<clock, counts, sending, started, mailed, peak>>

PassTime ==
    /\ clock < LastTick
    /\ clock' = clock + 1
    /\ UNCHANGED <<codes, counts, sending, started, mailed, opened, peak>>

CodesInit ==
    /\ clock = 0
    /\ codes = [e \in Email |-> NoCode]
    /\ counts = [i \in Ip |-> NoCount]
    /\ sending = [s \in Send |-> "idle"]
    /\ started = [s \in Send |-> 0]
    /\ mailed = {}
    /\ opened = {}
    /\ peak = [i \in Ip |-> 0]

CodesNext ==
    \/ \E s \in Send : \/ CheckIp(s) \/ CheckCooldown(s) \/ Mail(s) \/ MailFails(s)
                       \/ StoreCode(s) \/ record_ip_send(s)
    \/ \E e \in Email, c \in Send : Verify(e, c)
    \/ PassTime

CodesSpec == CodesInit /\ [][CodesNext]_cvars

-----------------------------------------------------------------------------
(* Properties.                                                              *)

\* The types of both tables and of the stages of a request.
CodesTypeOK ==
    /\ clock \in 0..LastTick
    /\ codes \in [Email -> [code : Send \cup {none}, expires_at : Nat, last_sent_at : Nat]]
    /\ counts \in [Ip -> [count : Nat, since : Nat]]
    /\ sending \in [Send -> {"idle", "checked", "mailing", "mailed", "stored",
                             "answered", "refused"}]
    /\ started \in [Send -> 0..LastTick]
    /\ mailed \subseteq Send
    /\ opened \subseteq Send \X (0..LastTick)
    /\ peak \in [Ip -> 0..Cardinality(Send)]

\* A code opens once, for the address it was mailed to, and less than CODE_TTL after
\* its request looked at the clock - however long the mail took, and whatever other
\* request stores its code before or after.
CodeOnce ==
    /\ \A p, q \in opened : p[1] = q[1] => p = q
    /\ \A p \in opened : p[1] \in mailed /\ p[2] < started[p[1]] + CODE_TTL
    /\ \A e \in Email : codes[e].code # none =>
          /\ AddressOf[codes[e].code] = e
          /\ \A p \in opened : p[1] # codes[e].code

\* The limit of an hour is overrun by at most the requests that were under way at the
\* same time: never by requests that come one after the other.
IpLimit ==
    \A i \in Ip : counts[i].count + Cardinality(Uncounted(i)) <= MaxSends - 1 + peak[i]
=============================================================================
