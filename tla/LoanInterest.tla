----------------------------- MODULE LoanInterest -----------------------------
(***************************************************************************)
(* The interest arithmetic of a loan, src/metadata/loanpayment.go:70-88:   *)
(* the interest owed at a block height and the total debt.  A loan has a  *)
(* principle, an interest already due at its deadline, an interest rate   *)
(* scaled by Decimals, and a maturity, the length of a term in blocks.    *)
(* Past the deadline the loan owes one more perTerm for every full term.  *)
(*                                                                         *)
(* The Go code computes in uint64.  Inputs here are small enough that no  *)
(* product or sum comes near 2^64, so the integers of TLA+ compute the    *)
(* same values; wrap-around is not reached.  A maturity of 0 makes the Go  *)
(* division panic and TLC's division fail alike, so inputs keep it >= 1.  *)
(***************************************************************************)
EXTENDS Naturals, FiniteSets

CONSTANTS
    Principles, InterestsDue, Rates, Maturities, Deadlines,
    MaxHeight     \* heights checked: 0..MaxHeight

ASSUME \A m \in Maturities : m >= 1

\* Each float number is multiplied by this value to store as uint64.
Decimals == 10000

\* GetInterestPerTerm: principle * interestRate / Decimals, truncated.
GetInterestPerTerm(principle, interestRate) ==
    (principle * interestRate) \div Decimals

\* Mutation: the elapsed blocks are multiplied before the division by
\* maturity, so a partial term accrues a share of perTerm.
GetTotalInterestMulFirst(principle, interest, interestRate, maturity, deadline, currentHeight) ==
    LET perTerm == GetInterestPerTerm(principle, interestRate)
    IN IF currentHeight < deadline THEN 0
       ELSE IF perTerm > 0
            THEN interest + ((currentHeight - deadline) * perTerm) \div maturity
            ELSE interest

\* GetTotalInterest: nothing before the deadline; from it on, the interest
\* due plus perTerm for every full maturity elapsed since the deadline.
GetTotalInterest(principle, interest, interestRate, maturity, deadline, currentHeight) ==
    LET perTerm == GetInterestPerTerm(principle, interestRate)
    IN IF currentHeight < deadline THEN 0
       ELSE IF perTerm > 0
            THEN interest + ((currentHeight - deadline) \div maturity) * perTerm
            ELSE interest

\* GetTotalDebt: principle plus the interest owed.
GetTotalDebt(principle, interest, interestRate, maturity, deadline, currentHeight) ==
    principle + GetTotalInterest(principle, interest, interestRate, maturity,
                                 deadline, currentHeight)

\* The loans the computations are checked on.
Loans ==
    [principle : Principles, interest : InterestsDue, rate : Rates,
     maturity : Maturities, deadline : Deadlines]

Debt(l, h) == GetTotalDebt(l.principle, l.interest, l.rate, l.maturity, l.deadline, h)

\* The blocks k past the deadline (1 <= k <= h - deadline) that end a term.
CompletedTerms(l, h) ==
    {k \in 1..(h - l.deadline) : k % l.maturity = 0}

Inputs == [kind : {"loan"}, loan : Loans]

VARIABLE input

Init == input \in Inputs

Next == UNCHANGED input

Spec == Init /\ [][Next]_input

\* What a borrower owes at a height (GetTotalDebt, loanpayment.go:70-88):
\* only the principle before the deadline; from the deadline on, the
\* principle, the interest due and one perTerm for each term completed
\* since the deadline, never a share of an unfinished one; so the debt
\* never falls as the chain grows.
DebtPerCompletedTerm ==
    input.kind = "loan" =>
        LET l == input.loan
            perTerm == GetInterestPerTerm(l.principle, l.rate)
            owed(h) == IF h < l.deadline THEN 0
                       ELSE l.interest + perTerm * Cardinality(CompletedTerms(l, h))
        IN /\ \A h \in 0..MaxHeight : Debt(l, h) = l.principle + owed(h)
           /\ \A h \in 0..MaxHeight - 1 : Debt(l, h) <= Debt(l, h + 1)

=============================================================================
