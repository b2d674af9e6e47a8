---------------------------- MODULE MCCommandLine ----------------------------
EXTENDS CommandLine

\* What a file on the host may hold: it fits the limit.
MCHostContents == {<<7>>}

\* O_RDWR alone, with O_CREAT|O_EXCL, and with O_TRUNC.
MCFlags == {2, 2 + 64 + 128, 2 + 512}
MCPayloads == {<<1>>}

\* Success, failure, and one that is 0 modulo the number of exit codes.
MCStatuses == {0, 1, 256}
=============================================================================
