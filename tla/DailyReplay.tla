----------------------------- MODULE DailyReplay -----------------------------
(***************************************************************************)
(* The daily balance-sheet replay of the native ledger                     *)
(* (portfolio-ledger-native/src/replay/daily/mod.rs): one scenario of one  *)
(* specification, day by day, on the path without external owners of       *)
(* positions.  Within a day come, in this order, recoveries and claims     *)
(* that fall due, the positions, scheduled cash flows, margins and         *)
(* carrying costs, management policies, taxes and the reconciliation.      *)
(*                                                                         *)
(* `sim` is the struct Sim; an operator that takes it and returns it is a  *)
(* method of that struct.  Money and face are whole numbers, prices count  *)
(* in Par-ths of face, and what the code computes from rates and powers    *)
(* (accrual, default, runoff, loss) is an amount of the specification.     *)
(***************************************************************************)
EXTENDS Integers, Sequences, SequencesExt, Functions, FiniteSetsExt, TLC

CONSTANTS
    Accounts, Positions,
    NoPosition,     \* an empty collateral_position
    Specs,          \* the specifications replayed, one scenario each
    Horizon,        \* horizon_days
    Par,            \* the price of one unit of face
    Lot,            \* policies trade face in multiples of this
    NearMaturity    \* 90 in the code: days within which an HTM sale is excused

ASSUME DailyAssumption == {Horizon, Par, Lot, NearMaturity} \subseteq Nat \ {0}

VARIABLES
    spec,           \* the specification and its scenario
    day, stage,     \* the day, and what comes next in it
    queue,          \* positions or policies left to handle in this stage
    sim             \* struct Sim
vars == <<spec, day, stage, queue, sim>>

-----------------------------------------------------------------------------
Positive(x) == IF x > 0 THEN x ELSE 0
Lesser(x, y) == IF x < y THEN x ELSE y
Share(x, part, whole) == IF whole = 0 THEN 0 ELSE (x * part) \div whole
Lots(face) == (face \div Lot) * Lot

NonZero(f) == RestrictValues(f, LAMBDA v : v # 0)
Plus(f, g) == NonZero([k \in DOMAIN f \cap DOMAIN g |-> f[k] + g[k]] @@ f @@ g)
Total(f) == MapThenSumSet(LAMBDA k : f[k], DOMAIN f)

Account(i) == spec.position[i].account
IsAsset(i) == spec.position[i].kind \in {"loan", "security", "reverse_repo"}
IsSecurity(i) == spec.position[i].kind = "security"
Sign(i) == IF IsAsset(i) THEN 1 ELSE -1
Scheduled(i) == spec.position[i].flows # <<>>
Links(i) == {d \in Positions : spec.position[d].collateral = i}
Marked(p) == p.class \in {"afs", "trading"}
Stressed == day >= spec.startDay

\* The fair value of a marked security over its book value.
FairValue(p) == (p.balance * (p.market - Par)) \div Par - p.adjustment

-----------------------------------------------------------------------------
(* `raw_post` and `post`: a balanced journal moves the general ledger and   *)
(* the account with it.  Events share one income key per account.           *)

RawPost(s, entries) ==
    IF Total(entries) # 0 THEN [s EXCEPT !.error = TRUE]
    ELSE [s EXCEPT !.gl = Plus(@, entries)]

Post(s, a, cash, earnings, oci, changes) ==
    LET own == (<<a, "cash">> :> cash) @@ (<<a, "pnl">> :> -earnings)
               @@ (<<a, "oci">> :> -oci)
    IN [RawPost(s, Plus(changes, own)) EXCEPT
           !.acct[a].cash = @ + cash,
           !.acct[a].equity = @ + earnings + oci,
           !.acct[a].oci = @ + oci,
           !.acct[a].earned = @ + earnings,
           !.acct[a].income = @ + earnings]

\* A dividend is a distribution: it does not lower the taxable income.
PostDividend(s, a, amount) ==
    [Post(s, a, -amount, -amount, 0, <<>>) EXCEPT
        !.acct[a].income = s.acct[a].income]

\* `observe`: what the subledgers say each account of the ledger must hold.
Subledger(s) ==
    [k \in Accounts \X {"cash", "restricted_cash", "opening_equity", "oci", "pnl"} |->
        CASE k[2] = "cash" -> s.acct[k[1]].cash
          [] k[2] = "restricted_cash" -> s.acct[k[1]].restricted
          [] k[2] = "opening_equity" -> -s.acct[k[1]].opening
          [] k[2] = "oci" -> -s.acct[k[1]].oci
          [] k[2] = "pnl" -> -s.acct[k[1]].earned]
    @@ [k \in Positions \X {"principal", "book_adjustment", "allowance",
                            "accrued_interest", "fair_value_adjustment"} |->
        LET p == s.pos[k[1]] IN
        CASE k[2] = "principal" -> Sign(k[1]) * p.balance
          [] k[2] = "book_adjustment" -> Sign(k[1]) * p.adjustment
          [] k[2] = "allowance" -> -p.allowance
          [] k[2] = "accrued_interest" -> Sign(k[1]) * p.accrued
          [] k[2] = "fair_value_adjustment" ->
                 IF IsSecurity(k[1]) /\ Marked(p) THEN FairValue(p) ELSE 0]
    @@ [k \in {<<c.policy, c.day, "secured_funding">> : c \in Range(s.claims)} |->
        LET c == CHOOSE c \in Range(s.claims) : c.policy = k[1] /\ c.day = k[2]
        IN -c.balance]
    @@ [k \in {<<r.position, r.day, "recovery_receivable">> : r \in s.recoveries} |->
        (CHOOSE r \in s.recoveries : r.position = k[1] /\ r.day = k[2]).amount]
    @@ s.intercompany
    @@ [k \in Accounts \X {"derivative_value", "posted_margin"} |->
        IF k[2] = "derivative_value" THEN s.netting[k[1]].value
        ELSE s.netting[k[1]].posted]

Carrying(i, p) ==
    IF IsSecurity(i) /\ Marked(p) THEN (p.balance * p.market) \div Par
    ELSE p.balance + p.adjustment - p.allowance

NetAssets(s, a) ==
    s.acct[a].cash + s.acct[a].restricted + s.acct[a].extraAssets
    - s.acct[a].extraDebt + s.netting[a].value + s.netting[a].posted
    + MapThenSumSet(LAMBDA i : Sign(i) * (Carrying(i, s.pos[i]) + s.pos[i].accrued),
                    {i \in Positions : Account(i) = a})

\* Receivables and payables of one transfer eliminate.
Eliminates(s) ==
    \A k \in DOMAIN s.intercompany :
        Total(Restrict(s.intercompany,
              {l \in DOMAIN s.intercompany : l[1] = k[1] /\ l[2] = k[2]})) = 0

Observe(s) ==
    IF /\ s.gl = NonZero(Subledger(s))
       /\ Eliminates(s)
       /\ \A a \in Accounts : NetAssets(s, a) = s.acct[a].equity
    THEN s ELSE [s EXCEPT !.error = TRUE]

-----------------------------------------------------------------------------
(* `position_day`: one position, and whatever hangs on it.                 *)

\* A forward position is bought, or raised, on its first day.
Originate(s, i) ==
    LET p == spec.position[i]
        adjustment == (p.balance * p.premium) \div Par
    IN IF p.start # day THEN s
       ELSE [Post(s, Account(i), -Sign(i) * (p.balance + adjustment), 0, 0,
                  (<<i, "principal">> :> Sign(i) * p.balance)
                  @@ (<<i, "book_adjustment">> :> Sign(i) * adjustment)) EXCEPT
                !.pos[i].balance = p.balance,
                !.pos[i].adjustment = adjustment,
                !.pos[i].market = IF IsSecurity(i) THEN Par + p.premium ELSE Par]

\* Marks go to earnings for trading, to OCI for AFS, and nowhere otherwise.
Mark(s, i) ==
    LET p == s.pos[i]
        target == IF Stressed THEN spec.position[i].stressed
                  ELSE spec.position[i].price
        change == (p.balance * (target - p.market)) \div Par
        oci == IF p.class = "afs" THEN change ELSE 0
        t == [s EXCEPT !.pos[i].market = target]
    IN IF ~ IsSecurity(i) THEN s
       ELSE IF ~ Marked(p) THEN t
       ELSE Post([t EXCEPT !.pos[i].marks = @ + oci], Account(i), 0,
                 change - oci, oci, <<i, "fair_value_adjustment">> :> change)

\* Committed facilities are drawn under stress.
Draw(s, i) ==
    LET amount == Lesser(s.pos[i].commitment,
                         IF Stressed THEN spec.position[i].draw ELSE 0)
    IN IF spec.position[i].kind # "loan" THEN s
       ELSE [Post(s, Account(i), -amount, 0, 0,
                  <<i, "principal">> :> amount) EXCEPT
                !.pos[i].balance = @ + amount,
                !.pos[i].commitment = @ - amount]

\* A loan loses what defaults: accrued interest and book adjustment are
\* written off, half the principal is charged to the allowance and half
\* becomes a receivable; then the allowance is brought to its target.
Credit(s, i) ==
    LET p == s.pos[i]
        a == Account(i)
        defaulted == IF spec.position[i].defaults = day THEN p.balance \div 2 ELSE 0
        lost == Share(p.accrued, defaulted, p.balance)
        written == Share(p.adjustment, defaulted, p.balance)
        recovery == defaulted \div 2
        loss == defaulted - recovery
        target == (p.balance - defaulted) \div 8
        provision == target - (p.allowance - loss)
        t == Post(s, a, 0, -lost - written - provision, 0,
                  Plus((<<i, "accrued_interest">> :> -lost)
                       @@ (<<i, "book_adjustment">> :> -written)
                       @@ (<<i, "principal">> :> -defaulted)
                       @@ (<<i, "allowance">> :> loss - provision),
                       <<i, day, "recovery_receivable">> :> recovery))
    IN IF spec.position[i].kind # "loan" THEN s
       ELSE [t EXCEPT
                !.pos[i].balance = p.balance - defaulted,
                !.pos[i].accrued = p.accrued - lost,
                !.pos[i].adjustment = p.adjustment - written,
                !.pos[i].allowance = target,
                !.acct[a].extraAssets = @ + recovery,
                !.recoveries = IF recovery = 0 THEN @ ELSE @ \cup
                    {[position |-> i, day |-> day, amount |-> recovery,
                      due |-> day + spec.position[i].recoveryDays]}]

Accrual(s, i) ==
    (s.pos[i].balance * spec.position[i].rate) \div spec.position[i].balance

\* Interest accrues daily and is settled on payment days and at maturity,
\* unless a cash-flow schedule brings it.
Accrue(s, i) ==
    LET interest == Accrual(s, i)
    IN [Post(s, Account(i), 0, Sign(i) * interest, 0,
             <<i, "accrued_interest">> :> Sign(i) * interest) EXCEPT
           !.pos[i].accrued = @ + interest]

Settle(s, i) ==
    LET owed == s.pos[i].accrued
    IN [Post(s, Account(i), Sign(i) * owed, 0, 0,
             <<i, "accrued_interest">> :> -Sign(i) * owed) EXCEPT
           !.pos[i].accrued = 0]

Interest(s, i) ==
    IF Scheduled(i) THEN s
    ELSE IF day % spec.position[i].interval = 0 \/ s.pos[i].maturity = day
    THEN Settle(Accrue(s, i), i)
    ELSE Accrue(s, i)

RunOff(s, i) ==
    LET amount == Lesser(s.pos[i].balance,
                         IF Stressed THEN spec.position[i].runoff ELSE 0)
    IN IF spec.position[i].kind # "deposit" THEN s
       ELSE [Post(s, Account(i), -amount, 0, 0,
                  <<i, "principal">> :> amount) EXCEPT
                !.pos[i].balance = @ - amount]

\* `repay_claims`: of the collateral i, part out of whole was repaid in cash
\* that is restricted; it repays the same part of every claim on it.
RepayClaims(s, i, part, whole) ==
    LET paid(c) == IF c.position = i THEN Share(c.balance, part, whole) ELSE 0
        freed(c) == IF c.position = i THEN Share(c.face, part, whole) ELSE 0
        repay(t, c) ==
            [Post(t, c.account, freed(c) - paid(c), 0, 0,
                  (<<c.account, "restricted_cash">> :> -freed(c))
                  @@ (<<c.policy, c.day, "secured_funding">> :> paid(c))) EXCEPT
                !.acct[c.account].restricted = @ - freed(c),
                !.acct[c.account].extraDebt = @ - paid(c),
                !.acct[c.account].fundingInterest = @ - paid(c) * c.rate]
    IN [FoldLeft(repay, s, s.claims) EXCEPT
           !.claims = [k \in DOMAIN @ |->
               [@[k] EXCEPT !.balance = @ - paid(s.claims[k]),
                            !.face = @ - freed(s.claims[k])]]]

\* The opening funding d on a maturing asset is repaid with it, and its
\* interest of the day too when d has not had its turn yet.
RepayLinked(s, d) ==
    LET p == s.pos[d]
        a == Account(d)
        t == Post(s, a, p.face - p.balance, p.adjustment, 0,
                  (<<a, "restricted_cash">> :> -p.face)
                  @@ (<<d, "principal">> :> p.balance)
                  @@ (<<d, "book_adjustment">> :> p.adjustment))
    IN Settle([t EXCEPT !.acct[a].restricted = @ - p.face,
                        !.pos[d].balance = 0,
                        !.pos[d].face = 0,
                        !.pos[d].adjustment = 0], d)

\* Mutant: that interest is left to its turn, when nothing is owed any more.
RepayLinkAsItStands(s, d) == IF s.pos[d].face = 0 THEN s ELSE RepayLinked(s, d)
RepayLink(s, d) ==
    IF s.pos[d].face = 0 THEN s
    ELSE IF d \in s.processed \/ Scheduled(d) THEN RepayLinked(s, d)
    ELSE RepayLinked(Accrue(s, d), d)

\* An asset repays its face; what was pledged of it becomes restricted cash,
\* out of which the debts it secures are repaid.
AssetMatures(s, i) ==
    LET p == s.pos[i]
        a == Account(i)
        gain == IF IsSecurity(i) /\ Marked(p)
                THEN -((p.balance * (p.market - Par)) \div Par) ELSE 0
        t == Post([s EXCEPT !.acct[a].restricted = @ + p.pledged], a,
                  p.balance - p.pledged,
                  p.allowance + (IF p.class = "trading" THEN gain ELSE -p.adjustment),
                  -p.marks,
                  (<<i, "principal">> :> -p.balance)
                  @@ (<<i, "allowance">> :> p.allowance)
                  @@ (<<i, "book_adjustment">> :> -p.adjustment)
                  @@ (<<a, "restricted_cash">> :> p.pledged)
                  @@ (IF Marked(p)
                      THEN <<i, "fair_value_adjustment">> :> gain + p.adjustment
                      ELSE <<>>))
        u == FoldSet(LAMBDA d, r : RepayLink(r, d),
                     RepayClaims(t, i, 1, 1), Links(i))
    IN [u EXCEPT !.pos[i] = [@ EXCEPT !.balance = 0, !.allowance = 0, !.marks = 0,
                                      !.adjustment = 0, !.pledged = 0, !.commitment = 0]]

\* Funding that is not rolled over is repaid, and its share of the pledge is
\* released with it.
FundingMatures(s, i) ==
    LET p == s.pos[i]
        repaid == Share(p.balance, 2 - spec.position[i].rollover, 2)
        released == Share(p.face, 2 - spec.position[i].rollover, 2)
        c == spec.position[i].collateral
        t == IF c = NoPosition \/ p.balance = 0 THEN s
             ELSE [s EXCEPT !.pos[c].pledged = Positive(@ - released),
                            !.pos[i].face = @ - released]
    IN [Post(t, Account(i), -repaid, 0, 0, <<i, "principal">> :> repaid) EXCEPT
           !.pos[i].balance = @ - repaid,
           !.pos[i].maturity = 0]

Mature(s, i) ==
    IF s.pos[i].maturity # day \/ Scheduled(i) THEN s
    ELSE IF IsAsset(i) THEN AssetMatures(s, i) ELSE FundingMatures(s, i)

PositionDay(s, i) ==
    IF spec.position[i].start > day THEN s
    ELSE LET t == [s EXCEPT !.processed = @ \cup {i}]
         IN Mature(RunOff(Interest(Credit(Draw(Mark(Originate(t, i), i), i), i), i), i), i)

-----------------------------------------------------------------------------
(* `run_days`: the rest of a day.                                          *)

\* Recoveries and claims that fall due, before the positions.
Recover(s, r) ==
    LET a == Account(r.position)
    IN [Post(s, a, r.amount, 0, 0,
             <<r.position, r.day, "recovery_receivable">> :> -r.amount) EXCEPT
           !.acct[a].extraAssets = @ - r.amount,
           !.recoveries = @ \ {r}]

\* Mutant: the face stays pledged.
ReleaseDebtOnly(s, c) ==
    [Post(s, c.account, -c.balance, 0, 0,
          <<c.policy, c.day, "secured_funding">> :> c.balance) EXCEPT
        !.acct[c.account].extraDebt = @ - c.balance,
        !.acct[c.account].fundingInterest = @ - c.balance * c.rate]
ReleaseDue(s, c) ==
    [ReleaseDebtOnly(s, c) EXCEPT
        !.pos[c.position].pledged = Positive(@ - c.face)]

ClaimsDue(s) ==
    LET due == {k \in DOMAIN s.claims : s.claims[k].due = day}
        t == FoldLeft(LAMBDA r, c : IF c.due = day THEN ReleaseDue(r, c) ELSE r,
                      s, s.claims)
    IN [t EXCEPT !.claims = [k \in DOMAIN @ |->
           IF k \in due THEN [@[k] EXCEPT !.balance = 0, !.face = 0] ELSE @[k]]]

DayOpens(s) ==
    LET t == FoldSet(LAMBDA r, u : Recover(u, r), s,
                     {r \in s.recoveries : r.due = day})
    IN [ClaimsDue(t) EXCEPT !.processed = {}]

\* `cashflow`: scheduled principal, scaled to what is left of the position.
\* Of a pledged asset the pledged share is restricted cash and repays the
\* debts it secures; an allowance is released in proportion.
Cashflow(s, i) ==
    LET p == s.pos[i]
        a == Account(i)
        f == spec.position[i].flows[day]
        amount == Lesser(Share(f, p.balance, p.schedule), p.balance)
        interest == Share(spec.position[i].rate, amount, spec.position[i].balance)
        held == Share(p.pledged, amount, p.balance)
        amort == -Share(p.adjustment, amount, p.balance)
        release == IF Marked(p)
                   THEN -((amount * (p.market - Par)) \div Par) - amort ELSE 0
        oci == IF p.class = "afs" THEN release ELSE 0
        freed == IF spec.position[i].kind = "loan"
                 THEN Share(p.allowance, amount, p.balance) ELSE 0
        t == Post([s EXCEPT !.acct[a].restricted = @ + held], a,
                  Sign(i) * (amount + interest) - held,
                  Sign(i) * (interest + amort) + freed
                  + (IF p.class = "trading" THEN release ELSE 0),
                  oci,
                  (<<i, "principal">> :> -Sign(i) * amount)
                  @@ (<<i, "book_adjustment">> :> Sign(i) * amort)
                  @@ (<<a, "restricted_cash">> :> held)
                  @@ (<<i, "fair_value_adjustment">> :> release)
                  @@ (<<i, "allowance">> :> freed))
        repayLink(r, d) ==
            LET paid == Share(r.pos[d].balance, amount, p.balance)
                face == Share(r.pos[d].face, amount, p.balance)
            IN [Post(r, a, face - paid, 0, 0,
                     (<<a, "restricted_cash">> :> -face)
                     @@ (<<d, "principal">> :> paid)) EXCEPT
                   !.acct[a].restricted = @ - face,
                   !.pos[d].balance = @ - paid,
                   !.pos[d].face = @ - face]
        u == FoldSet(LAMBDA d, r : repayLink(r, d),
                     RepayClaims(t, i, amount, p.balance), Links(i))
    IN [u EXCEPT !.pos[i] = [@ EXCEPT
           !.balance = p.balance - amount,
           !.adjustment = p.adjustment + amort,
           !.allowance = p.allowance - freed,
           !.pledged = p.pledged - held,
           !.marks = p.marks + oci,
           !.schedule = Positive(p.schedule - f)]]

\* A netting set loses value under stress, and its margin follows with a lag.
Margin(s, a) ==
    LET n == spec.netting[a]
        loss == IF day = spec.startDay THEN n.loss ELSE 0
        t == [Post(s, a, 0, -loss, 0, <<a, "derivative_value">> :> -loss) EXCEPT
                 !.netting[a].value = @ - loss]
        target == Positive(-t.netting[a].value)
        u == [t EXCEPT !.netting[a].targets = Append(@, target)]
        due == Len(u.netting[a].targets) - n.delay
        delta == IF due < 1 THEN 0 ELSE u.netting[a].targets[due] - u.netting[a].posted
    IN [Post(u, a, -delta, 0, 0, <<a, "posted_margin">> :> delta) EXCEPT
           !.netting[a].posted = @ + delta]

\* What policies borrowed bears interest; fees come in and dividends go out.
Carry(s, a) ==
    LET carried == spec.account[a].fees - s.acct[a].fundingInterest \div Par
    IN PostDividend(Post(s, a, carried, carried, 0, <<>>), a, s.acct[a].dividends)

\* `close_day`: tax on the positive income of the day, policies included.
Tax(s, a) ==
    LET tax == IF spec.account[a].taxed THEN Positive(s.acct[a].income) \div 2 ELSE 0
    IN [Post(s, a, -tax, -tax, 0, <<>>) EXCEPT !.acct[a].income = 0]

-----------------------------------------------------------------------------
(* `policies`: a policy whose account falls below its trigger is scheduled; *)
(* when its day comes its need is looked at again.                         *)

Policies == DOMAIN spec.policies
Receiver(k) ==
    IF spec.policies[k].kind = "transfer" THEN spec.policies[k].destination
    ELSE spec.policies[k].account

\* What is due beyond the horizon is never looked at again.
Pend(s, k, due) ==
    [s EXCEPT !.scheduled = @ \cup {k},
              !.pending = IF due > Horizon THEN @
                          ELSE [@ EXCEPT ![due] = Append(@, k)]]

Schedule(s, k) ==
    IF /\ s.acct[Receiver(k)].cash < spec.policies[k].trigger
       /\ s.used[k] < spec.policies[k].limit
       /\ k \notin s.scheduled
    THEN Pend(s, k, day + spec.policies[k].delay) ELSE s

Outage == day >= spec.startDay /\ day < spec.startDay + spec.outage

Spend(s, k, amount) == [s EXCEPT !.used[k] = @ + amount]

\* A transfer leaves the donor its floor.
Transfer(s, k, need) ==
    LET a == spec.policies[k].account
        b == spec.policies[k].destination
        amount == Lesser(need, Positive(s.acct[a].cash - Positive(spec.account[a].floor)))
        t == Post(s, a, -amount, 0, 0, <<k, day, "receivable">> :> amount)
        u == Post(t, b, amount, 0, 0, <<k, day, "payable">> :> -amount)
    IN Spend([u EXCEPT
                 !.acct[a].extraAssets = @ + amount,
                 !.acct[b].extraDebt = @ + amount,
                 !.intercompany = Plus(@, (<<k, day, "receivable">> :> amount)
                                          @@ (<<k, day, "payable">> :> -amount))],
             k, amount)

\* Borrowing against face that is eligible and not pledged yet.
Borrow(s, k, need) ==
    LET r == spec.policies[k]
        i == r.position
        proceeds == s.pos[i].market - r.haircut
        eligible == IF spec.position[i].eligible
                    THEN s.pos[i].balance - s.pos[i].pledged ELSE 0
        face == Lots(Lesser(eligible, (need * Par) \div proceeds))
        amount == (face * proceeds) \div Par
    IN Spend([Post(s, r.account, amount, 0, 0,
                   <<k, day, "secured_funding">> :> -amount) EXCEPT
                 !.pos[i].pledged = @ + face,
                 !.acct[r.account].extraDebt = @ + amount,
                 !.acct[r.account].fundingInterest = @ + amount * r.rate,
                 !.claims = Append(@,
                     [policy |-> k, day |-> day, account |-> r.account,
                      position |-> i, face |-> face, balance |-> amount,
                      rate |-> r.rate, due |-> day + r.tenor])],
             k, amount)

\* `htm_sale`: whether a sale out of HTM is excused, and what follows when not.
Excused(s, k, i) ==
    CASE spec.policies[k].reason = "near_maturity" ->
             s.pos[i].maturity >= day /\ s.pos[i].maturity - day <= NearMaturity
      [] spec.policies[k].reason = "credit_deterioration" -> TRUE
      [] OTHER -> FALSE

\* Mutant: each sale is measured alone.
TaintsAlone(s, a, cost) == cost > spec.account[a].materiality
Taints(s, a, cost) ==
    s.acct[a].nonexception + cost > spec.account[a].materiality

\* Mutant: the fair value that enters AOCI is not kept with the position.
ReclassifyValueOnly(s, i) ==
    LET fair == FairValue(s.pos[i])
    IN [Post(s, Account(i), 0, 0, fair, <<i, "fair_value_adjustment">> :> fair)
            EXCEPT !.pos[i].class = "afs"]
Reclassify(s, i) ==
    [ReclassifyValueOnly(s, i) EXCEPT !.pos[i].marks = @ + FairValue(s.pos[i])]

HtmSale(s, k, i, cost) ==
    LET a == Account(i)
        t == [s EXCEPT !.acct[a].nonexception = @ + cost]
        held == {j \in Positions : /\ Account(j) = a
                                   /\ t.pos[j].class = "htm"
                                   /\ t.pos[j].balance # 0}
    IN IF ~ spec.account[a].htmPolicy \/ Excused(s, k, i) THEN s
       ELSE IF t.acct[a].tainted # 0 \/ ~ Taints(s, a, cost) THEN t
       ELSE FoldSet(LAMBDA j, u : Reclassify(u, j),
                    [t EXCEPT !.acct[a].tainted = day], held)

\* Free face is sold; HTM face only with permission and up to the limit.
Sell(s, k, need) ==
    LET r == spec.policies[k]
        i == r.position
        p == s.pos[i]
        free == IF p.class # "htm" THEN p.balance - p.pledged
                ELSE IF r.htmAllowed
                THEN Lesser(p.balance - p.pledged, Positive(r.htmLimit - p.sold))
                ELSE 0
        net == p.market - r.cost
        face == Lots(Lesser(free, (need * Par) \div net))
        amount == (face * net) \div Par
        adjustment == Share(p.adjustment, face, p.balance)
        settled == Share(p.accrued, face, p.balance)
        reclass == Share(p.marks, face, p.balance)
        carry == IF Marked(p) THEN (face * p.market) \div Par ELSE face + adjustment
        t == [Post(s, r.account, amount + settled, amount - carry + reclass, -reclass,
                   (<<i, "principal">> :> -face)
                   @@ (<<i, "accrued_interest">> :> -settled)
                   @@ (<<i, "book_adjustment">> :> -adjustment)
                   @@ (IF Marked(p)
                       THEN <<i, "fair_value_adjustment">> :>
                                -((face * (p.market - Par)) \div Par) + adjustment
                       ELSE <<>>)) EXCEPT
                 !.pos[i] = [@ EXCEPT
                     !.balance = p.balance - face,
                     !.accrued = p.accrued - settled,
                     !.adjustment = p.adjustment - adjustment,
                     !.marks = p.marks - reclass,
                     !.sold = IF p.class = "htm" THEN @ + face ELSE @]]
    IN Spend(IF p.class = "htm" /\ face > 0
             THEN HtmSale(t, k, i, face + adjustment) ELSE t, k, amount)

CutDividend(s, k) ==
    [s EXCEPT !.acct[spec.policies[k].account].dividends = 0,
              !.used[k] = spec.policies[k].limit]

Execute(s, k) ==
    LET r == spec.policies[k]
        t == [s EXCEPT !.scheduled = @ \ {k}]
        need == Lesser(Positive(r.trigger - s.acct[Receiver(k)].cash),
                       r.limit - s.used[k])
    IN IF Outage THEN Pend(t, k, day + 1)
       ELSE IF r.kind = "transfer" /\ day < r.approval THEN Pend(t, k, r.approval)
       ELSE IF need = 0 THEN t
       ELSE CASE r.kind = "transfer" -> Transfer(t, k, need)
              [] r.kind = "secured_funding" -> Borrow(t, k, need)
              [] r.kind = "sell" -> Sell(t, k, need)
              [] r.kind = "cut_dividend" -> CutDividend(t, k)

-----------------------------------------------------------------------------
(* `Sim::new` and `opening`.                                               *)

OpeningPosition(i) ==
    LET p == spec.position[i]
        balance == IF p.start = 0 THEN p.balance ELSE 0
        adjustment == (balance * p.premium) \div Par
        opened == [balance |-> balance, adjustment |-> adjustment,
                   allowance |-> p.allowance, accrued |-> p.accrued,
                   pledged |-> p.pledged, face |-> p.face, marks |-> 0,
                   market |-> p.price, maturity |-> p.maturity, commitment |-> p.commitment,
                   schedule |-> p.balance, class |-> p.class, sold |-> 0]
    IN [opened EXCEPT !.marks = IF p.class = "afs" THEN FairValue(opened) ELSE 0]

OpeningAccount(a, pos) ==
    LET own == {i \in Positions : Account(i) = a}
        oci == MapThenSumSet(LAMBDA i : pos[i].marks, own)
        equity == spec.account[a].cash + spec.netting[a].value
                  + MapThenSumSet(LAMBDA i : Sign(i) *
                        (Carrying(i, pos[i]) + pos[i].accrued), own)
    IN [cash |-> spec.account[a].cash, equity |-> equity, opening |-> equity - oci,
        oci |-> oci, restricted |-> 0, extraAssets |-> 0, extraDebt |-> 0,
        fundingInterest |-> 0, earned |-> 0, income |-> 0,
        dividends |-> spec.account[a].dividends, tainted |-> 0, nonexception |-> 0]

NewSim ==
    LET pos == [i \in Positions |-> OpeningPosition(i)]
    IN [acct |-> [a \in Accounts |-> OpeningAccount(a, pos)], pos |-> pos,
              netting |-> [a \in Accounts |->
                  [value |-> spec.netting[a].value, posted |-> 0, targets |-> <<>>]],
              claims |-> <<>>, recoveries |-> {}, intercompany |-> <<>>,
              pending |-> [d \in 1 .. Horizon |-> <<>>], scheduled |-> {},
              used |-> [k \in Policies |-> 0], processed |-> {},
              gl |-> <<>>, error |-> FALSE]

\* The opening journals, one for each account, are what the subledgers hold
\* before the first day.
Opening(s) ==
    LET owner(k) == IF k[1] \in Accounts THEN k[1] ELSE Account(k[1])
        held == NonZero(Subledger(s))
        journal(a) == Restrict(held, {k \in DOMAIN held : owner(k) = a})
    IN Observe(FoldSet(LAMBDA a, t : RawPost(t, journal(a)), s, Accounts))

-----------------------------------------------------------------------------
Move(next, rest, s) ==
    /\ sim' = s
    /\ stage' = IF s.error THEN "failed" ELSE next
    /\ queue' = rest

Order == spec.order
Flows == SelectSeq(Order, LAMBDA i : day \in DOMAIN spec.position[i].flows)

Init ==
    /\ spec \in Specs
    /\ day = 0
    /\ sim = NewSim
    /\ stage = "new"
    /\ queue = <<>>

OpenBooks ==
    /\ stage = "new"
    /\ Move("closed", <<>>, Opening(sim))
    /\ UNCHANGED <<spec, day>>

OpenDay ==
    /\ stage = "closed" /\ day < Horizon
    /\ day' = day + 1
    /\ stage' = "opening"
    /\ UNCHANGED <<spec, queue, sim>>

Openings ==
    /\ stage = "opening"
    /\ Move("positions", Order, DayOpens(sim))
    /\ UNCHANGED <<spec, day>>

HandlePosition ==
    /\ stage = "positions" /\ queue # <<>>
    /\ Move("positions", Tail(queue), PositionDay(sim, Head(queue)))
    /\ UNCHANGED <<spec, day>>

PayFlows ==
    /\ stage = "positions" /\ queue = <<>>
    /\ Move("margins", <<>>, FoldLeft(Cashflow, sim, Flows))
    /\ UNCHANGED <<spec, day>>

CarryAccounts ==
    /\ stage = "margins"
    /\ Move("scheduling", <<>>,
            FoldSet(LAMBDA a, s : Carry(s, a),
                    FoldSet(LAMBDA a, s : Margin(s, a), sim, Accounts), Accounts))
    /\ UNCHANGED <<spec, day>>

SchedulePolicies ==
    /\ stage = "scheduling"
    /\ LET s == FoldLeft(Schedule, sim, [k \in Policies |-> k])
       IN Move("policies", s.pending[day], [s EXCEPT !.pending[day] = <<>>])
    /\ UNCHANGED <<spec, day>>

ExecutePolicy ==
    /\ stage = "policies" /\ queue # <<>>
    /\ Move("policies", Tail(queue), Execute(sim, Head(queue)))
    /\ UNCHANGED <<spec, day>>

CloseDay ==
    /\ stage = "policies" /\ queue = <<>>
    /\ Move("closed", <<>>, Observe(FoldSet(LAMBDA a, s : Tax(s, a), sim, Accounts)))
    /\ UNCHANGED <<spec, day>>

Next ==
    \/ OpenBooks \/ OpenDay \/ Openings \/ HandlePosition \/ PayFlows \/ CarryAccounts
    \/ SchedulePolicies \/ ExecutePolicy \/ CloseDay

DailySpec == Init /\ [][Next]_vars

-----------------------------------------------------------------------------
(* Safety.                                                                 *)

\* No replay of a valid specification ends in an error of its own: every
\* journal balances, and at every close the general ledger agrees with the
\* subledgers, transfers eliminate and assets less liabilities are the equity
\* (`raw_post`, `observe`).
BooksAgree == stage # "failed"

ClaimsOn(s, i) == {k \in DOMAIN s.claims : s.claims[k].position = i}
Securing(s, i) ==
    MapThenSumSet(LAMBDA k : s.claims[k].face, ClaimsOn(s, i))
    + MapThenSumSet(LAMBDA d : s.pos[d].face, Links(i))
Unidentified(i) ==
    spec.position[i].pledged
    - MapThenSumSet(LAMBDA d : spec.position[d].face, Links(i))

\* No face is pledged twice or sold while pledged, and a pledge ends only with
\* the debt it secures: what is pledged beyond the live claims and opening
\* links, together with restricted cash, is always the opening's unidentified
\* pledge.  It does end with the debt, but for opening funding that a cash-flow
\* schedule repays (see FundingReleases).  A repaid claim bears no more interest.
PledgesBacked ==
    /\ \A i \in Positions :
           /\ Securing(sim, i) <= sim.pos[i].pledged
           /\ sim.pos[i].pledged <= sim.pos[i].balance
    /\ \A a \in Accounts :
           LET own == {i \in Positions : Account(i) = a}
           IN /\ sim.acct[a].restricted
                 + MapThenSumSet(LAMBDA i : sim.pos[i].pledged - Securing(sim, i), own)
                 = MapThenSumSet(Unidentified, own)
              /\ sim.acct[a].fundingInterest =
                 MapThenSumSet(LAMBDA k : sim.claims[k].balance * sim.claims[k].rate,
                               {k \in DOMAIN sim.claims : sim.claims[k].account = a})
    /\ \A c \in Range(sim.claims) : c.balance = 0 => c.face = 0
    /\ \A d \in Positions :
           sim.pos[d].balance = 0 /\ sim.pos[d].face # 0 => Scheduled(d)

\* From its maturity on, funding that is repaid in full holds no collateral
\* ("Funding maturity releases collateral", whichever way it is repaid).
FundingReleases ==
    \A d \in Positions :
        /\ stage = "closed"
        /\ spec.position[d].maturity \in 1 .. day
        /\ sim.pos[d].balance = 0
        => sim.pos[d].face = 0

\* An account is tainted exactly when its unexcused HTM sales, all policies
\* together, exceed its materiality; what it held as HTM then is HTM no more.
TaintFollowsSales ==
    \A a \in Accounts :
        /\ sim.acct[a].tainted # 0 <=>
               sim.acct[a].nonexception > spec.account[a].materiality
        /\ sim.acct[a].tainted # 0 =>
               \A i \in Positions :
                   Account(i) = a /\ sim.pos[i].class = "htm"
                   /\ sim.pos[i].balance # 0
                   => spec.position[i].start > sim.acct[a].tainted

\* The order in which positions are listed does not matter: whichever of two
\* has its turn first on a day, the books are the same ("reversing input
\* position order must not change cash or earnings").
PositionOrderIrrelevant ==
    stage = "positions" =>
        \A i, j \in Range(queue) :
            PositionDay(PositionDay(sim, i), j) = PositionDay(PositionDay(sim, j), i)

=============================================================================
