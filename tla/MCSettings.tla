----------------------------- MODULE MCSettings -----------------------------
EXTENDS Settings

CONSTANTS other, absent   \* a key the migration does not know; no value

Keys == {"hall/ax0", "hall/ax1", "ax0", "ax1", other}
=============================================================================
