---------------------------- MODULE MCDailyReplay ----------------------------
(* Instances of DailyReplay for TLC: a bank with a security S, a second one H,  *)
(* a loan, a deposit and a repo, and an affiliate that may lend it cash.    *)
EXTENDS DailyReplay

CONSTANTS bank, affiliate, S, H, loan, deposit, repo

Position ==
    [account |-> bank, kind |-> "security", class |-> "ac", start |-> 0,
     balance |-> 96, premium |-> 0, rate |-> 0, interval |-> 2, maturity |-> 0,
     rollover |-> 0, collateral |-> NoPosition, face |-> 0, pledged |-> 0,
     price |-> 4, stressed |-> 4, eligible |-> FALSE, flows |-> <<>>,
     defaults |-> 0, recoveryDays |-> 2, runoff |-> 0, allowance |-> 0,
     accrued |-> 0, commitment |-> 0, draw |-> 0]

Policy ==
    [kind |-> "sell", account |-> bank, destination |-> bank, position |-> S,
     trigger |-> 64, limit |-> 96, delay |-> 1, tenor |-> 2, approval |-> 0,
     haircut |-> 1, cost |-> 0, rate |-> 1, htmAllowed |-> TRUE, htmLimit |-> 64,
     reason |-> "liquidity"]

Borrowing == [Policy EXCEPT !.kind = "secured_funding"]
Selling == Policy
SellingH == [Policy EXCEPT !.position = H, !.limit = 64]
SellingExcused == [Policy EXCEPT !.position = H, !.reason = "near_maturity"]
Transferring ==
    [Policy EXCEPT !.kind = "transfer", !.account = affiliate, !.limit = 40,
                   !.approval = 4]
Cutting == [Policy EXCEPT !.kind = "cut_dividend", !.limit = 1]

\* c names the choices a specification is made of.
SpecOf(c) ==
    [startDay |-> 2, outage |-> c.outage, policies |-> c.policies,
     order |-> c.order,
     account |->
         (bank :> [cash |-> 48, floor |-> 0, taxed |-> TRUE, dividends |-> 4, fees |-> 2,
                   htmPolicy |-> TRUE, materiality |-> c.materiality])
         @@ (affiliate :> [cash |-> 64, floor |-> 32, taxed |-> FALSE, dividends |-> 0, fees |-> 0,
                           htmPolicy |-> FALSE, materiality |-> 0]),
     netting |->
         (bank :> [value |-> 0, loss |-> 8, delay |-> 1])
         @@ (affiliate :> [value |-> 0, loss |-> 0, delay |-> 0]),
     position |->
         (S :> [Position EXCEPT !.class = c.class, !.maturity = c.maturity,
                    !.flows = c.flows, !.pledged = c.pledged, !.eligible = TRUE,
                    !.stressed = 3, !.rate = 4])
         @@ (H :> [Position EXCEPT !.class = "htm", !.start = c.start,
                       !.premium = 1, !.price = 5, !.stressed = 4, !.maturity = 5])
         @@ (loan :> [Position EXCEPT !.kind = "loan", !.balance = 64, !.rate = 2,
                          !.allowance = 8, !.defaults = 3,
                          !.commitment = 12, !.draw = 8])
         @@ (deposit :> [Position EXCEPT !.kind = "deposit", !.rate = 1, !.runoff = 24])
         @@ (repo :> [Position EXCEPT !.kind = "repo", !.balance = 32, !.rate = 2,
                          !.collateral = IF c.face = 0 THEN NoPosition ELSE S,
                          !.face = c.face, !.maturity = c.repays,
                          !.rollover = c.rollover, !.flows = c.repayments])]

Choice ==
    [class |-> "ac", maturity |-> 0, flows |-> <<>>, pledged |-> 0, face |-> 0,
     repays |-> 0, rollover |-> 0, repayments |-> <<>>, start |-> 0, outage |-> 0,
     materiality |-> 0, policies |-> <<>>,
     order |-> <<S, repo, H, loan, deposit>>]

Halves == (3 :> 48) @@ (5 :> 48)

\* Pledges of a security that matures, is repaid or stays, securing a repo
\* that matures, rolls over, is repaid on schedule or stays.
Pledging ==
    {[Choice EXCEPT !.class = class, !.maturity = life[1], !.flows = life[2],
                    !.pledged = pledge[1], !.face = pledge[2], !.repays = debt[1],
                    !.rollover = debt[2], !.repayments = debt[3],
                    !.order = order, !.policies = policies] :
        class \in {"ac", "afs", "trading"},
        life \in {<<0, <<>>>>, <<3, <<>>>>, <<0, Halves>>},
        pledge \in {<<0, 0>>, <<48, 0>>, <<48, 32>>, <<48, 48>>},
        debt \in {<<0, 0, <<>>>>, <<3, 0, <<>>>>, <<3, 1, <<>>>>, <<4, 0, <<>>>>,
                  <<2, 0, 2 :> 32>>},
        order \in {<<S, repo, H, loan, deposit>>, <<repo, deposit, loan, H, S>>},
        policies \in {<<Borrowing>>, <<Borrowing, Selling>>}}

\* Management policies that compete for securities and cash.
Managing ==
    {[Choice EXCEPT !.class = class, !.maturity = life, !.outage = outage,
                    !.materiality = materiality, !.start = start, !.policies = policies] :
        class \in {"afs", "htm"},
        life \in {0, 4},
        outage \in {0, 2},
        materiality \in {0, 40, 60},
        start \in {0, 4},
        policies \in {<<SellingH, Selling>>, <<Transferring, SellingExcused>>,
                      <<Cutting, SellingH, Selling>>,
                      <<Transferring, Borrowing, SellingH>>}}

MCSpecs == {SpecOf(c) : c \in Pledging \cup Managing}

\* A repo that is repaid at its maturity, by the replay or by its own schedule.
RepaidSpecs ==
    {SpecOf([Choice EXCEPT !.pledged = 48, !.face = 32, !.repays = 2,
                           !.repayments = repayments]) :
        repayments \in {<<>>, 2 :> 32}}
==============================================================================
