------------------------------ MODULE MCXmodem ------------------------------
EXTENDS Xmodem

\* Bounds: three blocks (one more than the block numbers' range less the one in
\* flight, so that they wrap) and two attempts for each block and for EOT.
MCMaxBlocks == 3
MCSeqSpace == 2
MCBlockRetryLimit == 2
MCEotRetryLimit == 2
=============================================================================
