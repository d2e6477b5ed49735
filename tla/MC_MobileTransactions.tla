----------------------- MODULE MC_MobileTransactions -----------------------
EXTENDS MobileTransactions, TLC

\* The wallets of one network may be exchanged: a page of the explorer holds transactions of
\* one wallet, and no action prefers one to another.
WalletSymmetry == Permutations(Addresses \ TestAddresses)

=============================================================================
