SPECIFICATION TunnelFairSpec
CONSTANTS
    Tunnels = {"wg0"}
    NGroups = 2
    IfaceOf <- MCIfaceOf
    DownAfter = 2
    UpAfter = 3
    MaxRestarts = 1
PROPERTY VerdictsAreSound
PROPERTY FollowsTheTunnel
