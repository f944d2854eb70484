--------------------------- MODULE MCKeyboardModel ---------------------------
EXTENDS KeyboardModel

MCMethods == {"keyboard-us", "keyboard-cn-tib", "pinyin"}

MCLayouts == MCMethods \ {"pinyin"}

\* No layout at all, and two groups that share one
MCProfiles == {<<"pinyin">>,
               <<"keyboard-us", "pinyin", "keyboard-cn-tib", "keyboard-us">>}
=============================================================================
